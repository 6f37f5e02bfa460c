----------------------------- MODULE OrderBook -----------------------------
(***************************************************************************)
(* The order state of the book (OrderStore, server/src/store.ts) on        *)
(* several mirrors that import each other's signed documents, and the      *)
(* verification that admits a document (server/src/order-signing.ts).      *)
(*                                                                         *)
(* One order id.  The maker signs its terms (an equivocating maker signs   *)
(* several variants under the id), takers sign proposals, the maker signs  *)
(* fills and cancellations, takers reveal release secrets.  A document is  *)
(* what was signed; its signature time is in intentDoc, fillDoc and        *)
(* cancelDoc.  Orders are issued at 0.  BookFeed models how documents      *)
(* travel; here a mirror may import any document a peer ever published or  *)
(* holds in a reset snapshot, in any order and any number of times.  A     *)
(* request that is refused changes nothing but what its sweep expires,     *)
(* which ReadSweeps covers.                                                *)
(***************************************************************************)
EXTENDS Integers, Sequences, FiniteSets, SequencesExt

CONSTANTS
    Null,
    Mirrors,
    Variants,         \* signed terms under the one order id
    PrelockT1,        \* per variant, the prelock's initiatorTimeout or Null
    Intents,          \* takers' proposals
    LegacyTakers,     \* takers of an unsigned order
    Expiry,           \* per variant, its expiresAt
    MinRemaining,     \* MIN_REMAINING_LIFETIME_S
    IntentLife,       \* a proposal's lifetime
    Response,         \* a fill's respondBy - issuedAt, MAX_FILL_RESPONSE_S
    InitiatorWindow,  \* a fill's initiatorTimeout - issuedAt
    MinRunway,        \* MIN_PRELOCK_RUNWAY_S, MIN_TAKEABLE_RUNWAY_S
    Grace,            \* SIGNED_TERMINAL_GRACE_S
    Linger,           \* LOCKING_LINGER_S
    OpenTTL, AcceptedTTL, CancelledTTL,
    MaxConflicts,     \* MAX_CONFLICT_PROOFS
    MaxTime,          \* bound on the clock
    MaxTerminals      \* bound on the fills and cancellations the maker signs

ASSUME BookAssumption ==
    /\ {MinRemaining, IntentLife, Response, InitiatorWindow, MinRunway, Grace,
        Linger, OpenTTL, AcceptedTTL, CancelledTTL, MaxConflicts,
        MaxTime, MaxTerminals} \subseteq Nat
    /\ Expiry \in [Variants -> Nat]
    /\ PrelockT1 \in [Variants -> Nat \cup {Null}]
    /\ \A v \in Variants : PrelockT1[v] # Null => Expiry[v] <= PrelockT1[v]
    /\ \A v \in Variants : Expiry[v] <= OpenTTL     \* MAX_ORDER_LIFETIME_S, OPEN_TTL_S
    /\ MaxConflicts > 0
    /\ Null \notin Int \cup Variants \cup Intents
    /\ Variants \cap Intents = {}

VARIABLES
    now,
    row,        \* per mirror, the order's row, or Null
    offer,      \* per mirror, the documents it published
    intentDoc,  \* per proposal Null or [v, at]: the variant it refers to
    fillDoc,    \* per proposal Null or when the maker signed its fill
    cancelDoc,  \* per variant Null or "signed": the maker signed its cancellation
    heard       \* per mirror, what its present row accepted of the documents
                \* that can contradict each other, and of the releases

vars == <<now, row, offer, intentDoc, fillDoc, cancelDoc, heard>>

OrderOf(v) == [kind |-> "order-v2", of |-> v]
IntentOf(i) == [kind |-> "fill-intent-v2", of |-> i]
FillOf(i) == [kind |-> "fill-v2", of |-> i]
CancelOf(v) == [kind |-> "cancel-v2", of |-> v]
ReleaseOf(i) == [kind |-> "release-v2", of |-> i]            \* names the intent
FillReleaseOf(i) == [kind |-> "release-v2-fill", of |-> i]   \* names the fill

Documents ==
    {OrderOf(v) : v \in Variants} \cup {CancelOf(v) : v \in Variants} \cup
    UNION {{IntentOf(i), FillOf(i), ReleaseOf(i), FillReleaseOf(i)} : i \in Intents}

\* What a mirror keeps of the order.
Row ==
    [primary : Variants \cup {Null}, visibility : {"public", "private"},
     status : {"open", "accepted", "locking", "cancelled"},
     orderConflicts : Seq(Variants), fillIntents : SUBSET Intents,
     releasedIntents : SUBSET Intents, fill : Intents \cup {Null}, direct : BOOLEAN,
     cancelProof : Variants \cup {Null}, conflicts : Seq(Documents),
     equivocated : BOOLEAN, released : BOOLEAN, t1 : Nat \cup {Null},
     taker : LegacyTakers \cup {Null}, seen : BOOLEAN, updatedAt : Nat]

\* A proposal's signed terms.
Proposal == [v : Variants, at : Nat]

ASSUME NullAssumption == Null \notin Row \cup Proposal \cup {"signed"}

Weighed == {d \in Documents : d.kind \notin {"fill-intent-v2", "release-v2-fill"}}

\* Only what was signed exists.
Signed(d) ==
    CASE d.kind = "order-v2" -> TRUE
      [] d.kind = "cancel-v2" -> cancelDoc[d.of] # Null
      [] d.kind \in {"fill-v2", "release-v2-fill"} -> fillDoc[d.of] # Null
      [] OTHER -> intentDoc[d.of] # Null

VariantOf(d) == IF d.of \in Variants THEN d.of ELSE intentDoc[d.of].v

Init ==
    /\ now = 0
    /\ row = [m \in Mirrors |-> Null]
    /\ offer = [m \in Mirrors |-> {}]
    /\ intentDoc = [i \in Intents |-> Null]
    /\ fillDoc = [i \in Intents |-> Null]
    /\ cancelDoc = [v \in Variants |-> Null]
    /\ heard = [m \in Mirrors |-> {}]

-----------------------------------------------------------------------------
(* What a signature says (order-signing.ts).  A document of another mirror *)
(* is verified with allowExpired.                                          *)

verifyOrder(v, allowExpired) == allowExpired \/ Expiry[v] >= now + MinRemaining

expiresAt(i) == intentDoc[i].at + IntentLife
Live(i) == expiresAt(i) > now
respondBy(i) == fillDoc[i] + Response
initiatorTimeout(i) ==
    LET fixed == PrelockT1[intentDoc[i].v]
    IN IF fixed = Null THEN fillDoc[i] + InitiatorWindow ELSE fixed

verifyFillIntent(i, v, allowExpired) ==
    /\ intentDoc[i].v = v
    /\ intentDoc[i].at < Expiry[v] /\ expiresAt(i) <= Expiry[v]
    /\ allowExpired \/ (now < Expiry[v] /\ Live(i))

verifyFill(i, v, allowExpired) ==
    /\ intentDoc[i].v = v
    /\ fillDoc[i] >= intentDoc[i].at /\ fillDoc[i] < expiresAt(i)
    /\ respondBy(i) <= Expiry[v]
    /\ PrelockT1[v] # Null => PrelockT1[v] - fillDoc[i] >= MinRunway
    /\ ~allowExpired => /\ now < Expiry[v] /\ now < respondBy(i)
                        /\ PrelockT1[v] # Null => PrelockT1[v] - now >= MinRunway

verifyCancel(v, allowExpired) ==
    /\ cancelDoc[v] = "signed"      \* issued before the order expired
    /\ allowExpired \/ now < Expiry[v]

-----------------------------------------------------------------------------
(* A row, and what time does to it.                                        *)

NewRow(v, visibility) ==
    [primary |-> v, visibility |-> visibility, status |-> "open",
     orderConflicts |-> <<>>,
     fillIntents |-> {}, releasedIntents |-> {},
     fill |-> Null, direct |-> FALSE, cancelProof |-> Null, conflicts |-> <<>>,
     equivocated |-> FALSE, released |-> FALSE,
     t1 |-> IF v = Null THEN Null ELSE PrelockT1[v],
     taker |-> Null, seen |-> TRUE, updatedAt |-> now]

usesPortableTerminalProtocol(r) == r # Null /\ r.primary # Null

\* Mutated form, used to check that the properties can fail: proposals are
\* dropped once they are too old to be selected.
Retained_WhileLive(i) == expiresAt(i) + Grace > now

Retained(i) == expiresAt(i) + Response + Grace > now

Expires(r) ==
    \/ r.status = "open" /\ now - r.updatedAt > OpenTTL
    \/ r.status = "open" /\ r.primary # Null /\ now >= Expiry[r.primary]
    \/ r.status = "accepted" /\ now - r.updatedAt > AcceptedTTL

\* Mutated form, used to check that the properties can fail: a filled row goes
\* as soon as the initiator may refund.
Purged_AtTimeout(r) ==
    \/ r.status = "cancelled" /\ IF r.primary = Null
                                 THEN now - r.updatedAt > CancelledTTL
                                 ELSE now > Expiry[r.primary] + Grace
    \/ r.status = "locking" /\ r.t1 # Null /\ now >= r.t1

Purged(r) ==
    \/ r.status = "cancelled" /\ IF r.primary = Null
                                 THEN now - r.updatedAt > CancelledTTL
                                 ELSE now > Expiry[r.primary] + Grace /\ now - r.updatedAt > Grace
    \/ r.status = "locking" /\ r.t1 # Null /\ now > r.t1 + Linger

\* sweep(), with which every operation starts.
Swept(r) ==
    IF r = Null THEN Null
    ELSE LET kept == {i \in r.fillIntents : Retained(i)}
             s == [r EXCEPT !.fillIntents = kept, !.releasedIntents = @ \cap kept]
         IN IF Expires(s) THEN [s EXCEPT !.status = "cancelled", !.updatedAt = now]
            ELSE IF Purged(s) THEN Null ELSE s

\* A prelocked listing is offered while its fixed timeout leaves a swap's time.
hasRunway(r) == PrelockT1[r.primary] = Null \/ r.t1 - now >= MinRunway

\* verifiedSignedOrder() rebuilds the signed terms from the row, whose timeout
\* a fill of another variant overwrites.
PrimaryVerifies(r) == PrelockT1[r.primary] # Null => r.t1 = PrelockT1[r.primary]

\* referencedSignedOrderVariant(): the terms a terminal document refers to.
Referenced(r, v) == PrimaryVerifies(r) /\ (v = r.primary \/ v \in ToSet(r.orderConflicts))

Remembered(s, x) == IF Len(s) < MaxConflicts THEN Append(s, x) ELSE Append(Tail(s), x)

-----------------------------------------------------------------------------
(* What each document does to a swept row: the set of rows that may result *)
(* (empty: the document is refused, or deferred until what it refers to    *)
(* arrives).                                                               *)

\* importVerifiedOrder() and createVerified().
TakeOrder(r, v, federated) ==
    IF ~verifyOrder(v, federated) THEN {}
    ELSE IF r = Null THEN {NewRow(v, "public")}
    ELSE IF r.primary = v THEN {r}
    ELSE IF ~federated THEN {}
    ELSE IF v \in ToSet(r.orderConflicts) THEN {r}
    ELSE {[r EXCEPT !.orderConflicts = Remembered(@, v), !.equivocated = TRUE,
                    !.status = IF @ \in {"open", "accepted"} THEN "cancelled" ELSE @,
                    !.updatedAt = now]}

\* Mutated form, used to check that the properties can fail: an order that
\* expired here takes nothing more from peers.
Selectable_OpenOnly(r, federated) == r.status = "open"

\* A mirror that expired the order on its own still takes what happened to it
\* before; nobody cancelled it.
Selectable(r, federated) ==
    \/ r.status = "open"
    \/ federated /\ r.status = "cancelled" /\ r.cancelProof = Null

\* submitFillIntent(), importFillIntent() and storeFillIntent().  The slots that
\* proposals compete for are never all taken here.
TakeIntent(r, i, federated) ==
    IF ~usesPortableTerminalProtocol(r) \/ ~PrimaryVerifies(r)
       \/ ~verifyFillIntent(i, r.primary, federated) THEN {}
    ELSE IF i \in r.fillIntents THEN {r}
    ELSE IF r.equivocated \/ ~Selectable(r, federated) \/ (~federated /\ ~hasRunway(r)) THEN {}
    ELSE {[r EXCEPT !.fillIntents = @ \cup {i}, !.updatedAt = now]}

\* Mutated form, used to check that the properties can fail: the second
\* terminal document is dropped.
rememberTerminalConflict_Drop(r, d) == r

rememberTerminalConflict(r, d) ==
    IF d \in ToSet(r.conflicts) THEN r
    ELSE [r EXCEPT !.conflicts = Remembered(@, d), !.equivocated = TRUE, !.updatedAt = now]

\* Mutated form, used to check that the properties can fail: the status only
\* moves on from open, so a row that expired before the fill stays cancelled.
Filled_OpenOnly(r, i, federated) ==
    [r EXCEPT !.fill = i, !.direct = ~federated, !.t1 = initiatorTimeout(i),
              !.status = IF @ = "open" THEN "locking" ELSE @, !.updatedAt = now,
              !.released = i \in r.releasedIntents]

\* The fill's projection on the row, with the release its proposal may carry.
Filled(r, i, federated) ==
    [r EXCEPT !.fill = i, !.direct = ~federated, !.t1 = initiatorTimeout(i),
              !.status = "locking", !.updatedAt = now,
              !.released = i \in r.releasedIntents]

\* applyFill().
TakeFill(r, i, federated) ==
    IF ~usesPortableTerminalProtocol(r) THEN {}
    ELSE LET v == intentDoc[i].v IN
         IF ~(Referenced(r, v) /\ verifyFillIntent(i, v, TRUE) /\ verifyFill(i, v, federated)) THEN {}
         ELSE IF r.fill = i THEN {r}
         ELSE IF r.fill # Null \/ r.cancelProof # Null THEN {rememberTerminalConflict(r, FillOf(i))}
         ELSE IF Selectable(r, federated)
              THEN {Filled(r, i, federated)} ELSE {}

\* applySignedCancel().
TakeCancel(r, v, federated) ==
    IF ~usesPortableTerminalProtocol(r) THEN {}
    ELSE IF ~(Referenced(r, v) /\ verifyCancel(v, federated)) THEN {}
    ELSE IF r.cancelProof = v THEN {r}
    ELSE IF r.fill # Null \/ r.cancelProof # Null THEN {rememberTerminalConflict(r, CancelOf(v))}
    ELSE {[r EXCEPT !.cancelProof = v, !.status = "cancelled", !.updatedAt = now]}

\* releasePortable() with an intentDigest.  The commitment is recomputed with
\* the primary terms' digest.
TakeRelease(r, i) ==
    IF ~usesPortableTerminalProtocol(r) THEN {}
    ELSE IF intentDoc[i].v # r.primary \/ i \notin r.fillIntents \cup {r.fill} THEN {}
    ELSE IF i \in r.releasedIntents \/ (r.fill = i /\ r.released) THEN {r}
    ELSE {[r EXCEPT !.releasedIntents = @ \cup ({i} \cap r.fillIntents),
                    !.released = @ \/ r.fill = i, !.updatedAt = now]}

\* releasePortable() with a fillDigest.
TakeFillRelease(r, i) ==
    IF ~usesPortableTerminalProtocol(r) THEN {}
    ELSE IF r.fill # i \/ intentDoc[i].v # r.primary THEN {}
    ELSE IF r.released THEN {r}
    ELSE {[r EXCEPT !.released = TRUE, !.updatedAt = now]}

\* applyFederationEvent(), and the endpoints that take the same documents.
Results(r, d, federated) ==
    CASE d.kind = "order-v2" -> TakeOrder(r, d.of, federated)
      [] d.kind = "fill-intent-v2" -> TakeIntent(r, d.of, federated)
      [] d.kind = "fill-v2" -> TakeFill(r, d.of, federated)
      [] d.kind = "cancel-v2" -> TakeCancel(r, d.of, federated)
      [] d.kind = "release-v2" -> TakeRelease(r, d.of)
      [] d.kind = "release-v2-fill" -> TakeFillRelease(r, d.of)

\* federationSnapshot(): what a reset page of this row holds.
federationSnapshot(r) ==
    IF ~usesPortableTerminalProtocol(r) \/ (r # Null /\ r.visibility # "public") THEN {}
    ELSE {OrderOf(v) : v \in ToSet(r.orderConflicts)} \cup
         {OrderOf(v) : v \in {w \in {r.primary} : PrimaryVerifies(r)}} \cup
         {IntentOf(i) : i \in {j \in r.fillIntents : Retained(j)}} \cup
         {ReleaseOf(i) : i \in {j \in r.releasedIntents : Retained(j)}} \cup
         {FillOf(i) : i \in {r.fill} \ {Null}} \cup
         {CancelOf(v) : v \in IF r.fill = Null THEN {r.cancelProof} \ {Null} ELSE {}} \cup
         ToSet(r.conflicts) \cup
         {FillReleaseOf(i) : i \in IF r.released THEN {r.fill} \ {Null} ELSE {}}

-----------------------------------------------------------------------------
(* Operations.                                                             *)

\* A changed public row announces the document that changed it.
Handle(m, d, federated) ==
    /\ Signed(d)
    /\ LET old == Swept(row[m]) IN
       \E r \in Results(old, d, federated) :
        /\ row' = [row EXCEPT ![m] = r]
        /\ offer' = IF r # old /\ r.visibility = "public"
                    THEN [offer EXCEPT ![m] = @ \cup {d}] ELSE offer
        /\ heard' = [heard EXCEPT ![m] = (IF old = Null THEN {} ELSE @) \cup ({d} \cap Weighed)]
        /\ UNCHANGED <<now, intentDoc, fillDoc, cancelDoc>>

NoLegacy == \A m \in Mirrors : row[m] # Null => row[m].primary # Null

PostOrder(m, v) == NoLegacy /\ Handle(m, OrderOf(v), FALSE)

\* A private order stays on the mirror it was posted to.
PostPrivate(m, v) ==
    /\ verifyOrder(v, FALSE)
    /\ \A n \in Mirrors : Swept(row[n]) = Null /\ offer[n] = {}
    /\ row' = [row EXCEPT ![m] = NewRow(v, "private")]
    /\ heard' = [heard EXCEPT ![m] = {OrderOf(v)}]
    /\ UNCHANGED <<now, offer, intentDoc, fillDoc, cancelDoc>>

SubmitFillIntent(m, i) == Handle(m, IntentOf(i), FALSE)
FillOrder(m, i) == Handle(m, FillOf(i), FALSE)
CancelSigned(m, v) == Handle(m, CancelOf(v), FALSE)
Release(m, i) == Handle(m, ReleaseOf(i), FALSE)
ReleaseFill(m, i) == Handle(m, FillReleaseOf(i), FALSE)

\* A mirror takes in what a peer published, or what its snapshot holds.
Offered(p) == offer[p] \cup federationSnapshot(row[p])

Import(m, p) ==
    /\ row[m] # Null => row[m].visibility = "public"
    /\ \E d \in Offered(p) : Handle(m, d, TRUE)

\* listOpen() and get() sweep like every mutation does.
ReadSweeps(m) ==
    /\ Swept(row[m]) # row[m]
    /\ row' = [row EXCEPT ![m] = Swept(@)]
    /\ heard' = [heard EXCEPT ![m] = IF Swept(row[m]) = Null THEN {} ELSE @]
    /\ UNCHANGED <<now, offer, intentDoc, fillDoc, cancelDoc>>

\* The parties sign.  A taker reads the terms from some mirror.
TakerSigns(i) ==
    /\ intentDoc[i] = Null
    /\ \E m \in Mirrors :
        /\ row[m] # Null /\ row[m].status = "open" /\ row[m].primary # Null
        /\ now + IntentLife <= Expiry[row[m].primary]
        /\ intentDoc' = [intentDoc EXCEPT ![i] = [v |-> row[m].primary, at |-> now]]
    /\ UNCHANGED <<now, row, offer, fillDoc, cancelDoc, heard>>

Terminals ==
    Cardinality({i \in Intents : fillDoc[i] # Null})
    + Cardinality({v \in Variants : cancelDoc[v] # Null})

MakerSignsFill(i) ==
    /\ Terminals < MaxTerminals
    /\ fillDoc[i] = Null /\ intentDoc[i] # Null
    /\ Live(i) /\ \E m \in Mirrors : row[m] # Null /\ i \in row[m].fillIntents
    /\ fillDoc' = [fillDoc EXCEPT ![i] = now]
    /\ UNCHANGED <<now, row, offer, intentDoc, cancelDoc, heard>>

MakerSignsCancel(v) ==
    /\ Terminals < MaxTerminals
    /\ cancelDoc[v] = Null /\ now < Expiry[v]
    /\ \E m \in Mirrors : row[m] # Null /\ row[m].primary # Null
    /\ cancelDoc' = [cancelDoc EXCEPT ![v] = "signed"]
    /\ UNCHANGED <<now, row, offer, intentDoc, fillDoc, heard>>

-----------------------------------------------------------------------------
(* Unsigned orders: one mirror, bearer tokens, a reservation.              *)

LegacyStep(m, r) ==
    /\ row' = [row EXCEPT ![m] = r]
    /\ UNCHANGED <<now, offer, intentDoc, fillDoc, cancelDoc, heard>>

LegacyRow(m, status) ==
    /\ Swept(row[m]) # Null
    /\ Swept(row[m]).primary = Null
    /\ Swept(row[m]).status = status

Create(m) ==
    /\ \A n \in Mirrors : Swept(row[n]) = Null /\ offer[n] = {} /\ heard[n] = {}
    /\ LegacyStep(m, NewRow(Null, "public"))

\* accept() reserves by id; take(), by terms, skips a maker that is not seen.
commitTake(m, t) ==
    LegacyStep(m, [Swept(row[m]) EXCEPT !.status = "accepted", !.taker = t,
                                        !.released = FALSE, !.updatedAt = now])

Accept(m, t) == LegacyRow(m, "open") /\ commitTake(m, t)

Take(m, t) == LegacyRow(m, "open") /\ Swept(row[m]).seen /\ commitTake(m, t)

AnnounceHashlock(m) ==
    /\ LegacyRow(m, "accepted")
    /\ LegacyStep(m, [Swept(row[m]) EXCEPT !.status = "locking", !.updatedAt = now,
                                           !.t1 = now + InitiatorWindow])

\* The token of the taker that holds the order: before the announcement the
\* order is listed again, after it the take is only marked released.
ReleaseTake(m, t) ==
    \/ /\ LegacyRow(m, "accepted") /\ Swept(row[m]).taker = t
       /\ LegacyStep(m, [Swept(row[m]) EXCEPT !.status = "open", !.taker = Null, !.updatedAt = now])
    \/ /\ LegacyRow(m, "locking") /\ Swept(row[m]).taker = t /\ ~Swept(row[m]).released
       /\ LegacyStep(m, [Swept(row[m]) EXCEPT !.released = TRUE, !.updatedAt = now])

CancelLegacy(m) ==
    /\ Swept(row[m]) # Null /\ Swept(row[m]).primary = Null /\ Swept(row[m]).status # "cancelled"
    /\ LegacyStep(m, [Swept(row[m]) EXCEPT !.status = "cancelled", !.updatedAt = now])

\* heartbeat(), and the presence it grants running out.
Heartbeat(m) ==
    /\ row[m] # Null /\ row[m].primary = Null
    /\ LegacyStep(m, [row[m] EXCEPT !.seen = ~@])

-----------------------------------------------------------------------------

Tick ==
    /\ now < MaxTime
    /\ now' = now + 1
    /\ UNCHANGED <<row, offer, intentDoc, fillDoc, cancelDoc, heard>>

Clients(m) ==
    \/ \E v \in Variants : PostOrder(m, v) \/ PostPrivate(m, v) \/ CancelSigned(m, v)
    \/ \E i \in Intents : \/ SubmitFillIntent(m, i) \/ FillOrder(m, i)
                          \/ Release(m, i) \/ ReleaseFill(m, i)

Legacy(m) ==
    \/ Create(m) \/ AnnounceHashlock(m) \/ CancelLegacy(m) \/ Heartbeat(m)
    \/ \E t \in LegacyTakers : Accept(m, t) \/ Take(m, t) \/ ReleaseTake(m, t)

Signs ==
    \/ \E i \in Intents : TakerSigns(i) \/ MakerSignsFill(i)
    \/ \E v \in Variants : MakerSignsCancel(v)

Next ==
    \/ \E m \in Mirrors : Clients(m) \/ Legacy(m) \/ ReadSweeps(m)
    \/ \E m, p \in Mirrors : m # p /\ Import(m, p)
    \/ Signs
    \/ Tick

Spec == Init /\ [][Next]_vars

-----------------------------------------------------------------------------
(* Loading the orders file (hydratePersistedOrder).  A row that is refused  *)
(* keeps the book from starting.                                           *)

\* Every proof on the row is verified against the row's own terms.
AboutPrimary(r, d) == VariantOf(d) = r.primary

IntentsLoad(r) ==
    \A i \in r.fillIntents : verifyFillIntent(i, r.primary, TRUE)

FillLoads(r) ==
    r.fill # Null => /\ verifyFillIntent(r.fill, r.primary, TRUE)
                     /\ verifyFill(r.fill, r.primary, TRUE)
                     /\ r.t1 = initiatorTimeout(r.fill)

CancelLoads(r) == r.cancelProof # Null => r.cancelProof = r.primary

ConflictsLoad(r) ==
    /\ Len(r.conflicts) <= MaxConflicts /\ IsInjective(r.conflicts)
    /\ \A d \in ToSet(r.conflicts) :
        AboutPrimary(r, d) /\ d # FillOf(r.fill) /\ d # CancelOf(r.cancelProof)

OrderConflictsLoad(r) ==
    /\ Len(r.orderConflicts) <= MaxConflicts /\ IsInjective(r.orderConflicts)
    /\ r.primary \notin ToSet(r.orderConflicts)

StatusLoads(r) ==
    /\ r.fill # Null => r.status = "locking"
    /\ r.cancelProof # Null /\ r.fill = Null => r.status = "cancelled"
    /\ r.released => r.fill # Null

Loadable(r) ==
    usesPortableTerminalProtocol(r) =>
        /\ PrimaryVerifies(r) /\ IntentsLoad(r) /\ FillLoads(r) /\ CancelLoads(r)
        /\ ConflictsLoad(r) /\ OrderConflictsLoad(r) /\ StatusLoads(r)

-----------------------------------------------------------------------------
(* Properties.                                                             *)

Contradictory(docs) ==
    \/ Cardinality({d \in docs : d.kind = "order-v2"}) > 1
    \/ Cardinality({d \in docs : d.kind \in {"fill-v2", "cancel-v2"}}) > 1

\* A mirror suppresses the order exactly when documents it accepted contradict
\* each other: two sets of terms, two fills, or a fill and a cancellation, in
\* whatever order and however often they arrived (rememberTerminalConflict()
\* and importVerifiedOrder()).  An honest maker is never suppressed.
Quarantined ==
    \A m \in Mirrors :
        usesPortableTerminalProtocol(row[m]) =>
            (row[m].equivocated <=> Contradictory(heard[m]))

\* A release the mirror acknowledged still marks a fill that the maker posts
\* late, within the fill's own response window: retention outlasts that window
\* (SIGNED_INTENT_RETENTION_S).
ReleaseStopsFill ==
    \A m \in Mirrors, i \in Intents :
        usesPortableTerminalProtocol(row[m]) =>
            (row[m].fill = i /\ row[m].direct /\ ReleaseOf(i) \in heard[m] => row[m].released)

\* What a client of the mirror acts on.
View(m) ==
    LET r == Swept(row[m])
        signed == usesPortableTerminalProtocol(r)
    IN [takeable |-> signed /\ r # Null /\ r.status = "open" /\ ~r.equivocated /\ hasRunway(r),
        equivocated |-> signed /\ r.equivocated,
        released |-> signed /\ r.released /\ ~r.equivocated]

\* An order this mirror announced as filled is offered again only after the
\* initiator's timeout of a fill the maker signed, and the linger, have passed
\* (sweep() deletes the filled row while the maker's signature may still be
\* valid, and a re-posted or re-imported order starts as open).  A maker who
\* signs two fills has the order back after the first one's timeout, and one
\* who also signs a cancellation when the cancelled row goes.
FilledStaysClosed ==
    \A m \in Mirrors, i \in Intents :
        /\ FillOf(i) \in offer[m] /\ View(m).takeable
        /\ \A v \in Variants : cancelDoc[v] = Null
        => \E j \in Intents : fillDoc[j] # Null /\ now > initiatorTimeout(j) + Linger

\* Nothing a peer offers would change a mirror's row.
Settled ==
    \A m, p \in Mirrors : m # p =>
        \A d \in Offered(p) : \A r \in Results(Swept(row[m]), d, TRUE) : r = Swept(row[m])

\* Mirrors that have nothing left to learn from each other agree on whether
\* the order can be taken, whether it is suppressed and whether its fill was
\* released, whatever order the documents arrived in at each of them.
Convergence ==
    \A m, p \in Mirrors :
        offer[m] # {} /\ offer[p] # {} /\ View(m) # View(p) => ~Settled

\* The next start can load what this one has stored (hydratePersistedOrder()),
\* as long as every fill and cancellation the mirror took refers to the terms
\* it saw first.  One of another variant is stored too, and stops the start.
ReloadsOnFirstTerms ==
    \A m \in Mirrors :
        usesPortableTerminalProtocol(row[m]) =>
            (\/ Loadable(row[m])
             \/ \E d \in heard[m] : d.kind \in {"fill-v2", "cancel-v2"} /\ ~AboutPrimary(row[m], d))
=============================================================================
