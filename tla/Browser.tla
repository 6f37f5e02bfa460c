------------------------------ MODULE Browser -------------------------------
(***************************************************************************)
(* One browser taking part in one swap (frontend/src: PostOrderCard.tsx,   *)
(* MyOrderCard.tsx, SwapFlow.tsx, DeferredPayoutPanel.tsx and the modules   *)
(* under lib/): what it keeps in local storage, what its page has read, the *)
(* wallet prompts it opens and the transactions it has broadcast.  The      *)
(* counterparty calls the contracts as it likes.  How the two came to agree *)
(* on the fill is the subject of Handshake; here a match is one step.       *)
(*                                                                          *)
(* A page reads, and acts later on what it read: the legs, the book and the *)
(* clock move in between, a wallet prompt may stay open, be refused or fail *)
(* after the broadcast, and a reload keeps local storage only.              *)
(*                                                                          *)
(* The browser's own transactions survive a reorganisation (they are mined  *)
(* again in the replacing block), and so do settlements; a lock or an       *)
(* assignment of the counterparty may be replaced.                          *)
(***************************************************************************)
EXTENDS SwapMachine, FiniteSets

CONSTANTS
    Casts,        \* [role, prelocked] of the browser's side of the swap
    RESPONSE,     \* RESPONDER_TIMEOUT_S
    INITIATOR,    \* INITIATOR_TIMEOUT_S
    PRELOCK       \* PRELOCK_INITIATOR_TIMEOUT_S

ASSUME WindowAssumption ==
    /\ {CLAIM_MARGIN, RESPONSE, INITIATOR, PRELOCK} \subseteq Nat \ {0}
    /\ INITIATOR >= RESPONSE + CLAIM_MARGIN
    /\ PRELOCK >= 2 * RESPONSE + CLAIM_MARGIN
    /\ Casts \subseteq [role : {"maker", "taker"}, prelocked : BOOLEAN]
    /\ Nobody \notin {"maker", "taker"}

\* The values a leg can have, and a reading of both.
Legs == [status : {"None", "Open", "Claimed", "Refunded"},
         initiator : {"maker", "taker", Nobody},
         recipient : {"maker", "taker", Nobody}, agreed : BOOLEAN, timeout : Nat]
Heads == [i : Legs, r : Legs]

ASSUME NullAssumption == Null \notin Nat /\ Null \notin Legs /\ Null \notin Heads

VARIABLES
    cast,      \* the browser's side, which never changes
    now,
    head,      \* both legs at the chain head
    deep,      \* the counterparty's leg at confirmation depth
    sent,      \* transactions the browser has broadcast
    credit,    \* a payout of its own escrow was deferred to a credit
    listing,   \* what the book holds: "none", "open" or "closed"
    store,     \* local storage
    page,      \* the page's memory
    careless,  \* a record was dropped although the lock might still land
    due        \* when a claim that was asked for is mined at the latest

vars == <<cast, now, head, deep, sent, credit, listing, store, page, careless,
          due>>

me == cast.role
peer == IF me = "maker" THEN "taker" ELSE "maker"
mine == OwnLeg(me)
theirs == IF mine = "i" THEN "r" ELSE "i"
T1 == IF cast.prelocked THEN PRELOCK ELSE INITIATOR

\* The clock runs to the last timeout.
MaxTime == T1
Times == 0 .. MaxTime

\* A page after a load.  `op` is the operation in progress, `probe` the
\* recovery banner's reading of the staged escrow and `seen` its
\* noEscrowSeen, `deferred` the panel of a payout that was deferred.
Page == [op |-> "idle", probe |-> "checking", seen |-> FALSE,
         deferred |-> FALSE, legs |-> Null, deep |-> Null]

\* Local storage: the staged pre-funding, the staged signed order, the order
\* handle, and the active swap (its responder timeout, once matched).
Empty == [stage |-> FALSE, signed |-> FALSE, order |-> FALSE, swap |-> Null]
Clear(record) == [store EXCEPT ![record] = FALSE]

\* A maker that pre-funds starts from nothing; everyone else's swap was
\* matched at time 0.
Init ==
    /\ cast \in Casts
    /\ now = 0
    /\ head = [i |-> IF cast.role = "taker" /\ cast.prelocked
                     THEN [NoLeg EXCEPT !.status = "Open", !.initiator = "maker",
                                        !.agreed = TRUE, !.timeout = PRELOCK]
                     ELSE NoLeg,
               r |-> NoLeg]
    /\ deep = IF cast.role = "taker" THEN head.i ELSE NoLeg
    /\ sent = {}
    /\ credit = FALSE
    /\ listing = "none"
    /\ store = IF cast.role = "maker" /\ cast.prelocked THEN Empty
               ELSE [Empty EXCEPT !.swap = RESPONSE]
    /\ page = Page
    /\ careless = FALSE
    /\ due = 0

At(op) == page.op = op
Goes(op) == page' = [page EXCEPT !.op = op]
Idle == Goes("idle")
Releasing == [stage |-> "release stage", order |-> "release order"]
Checking == [stage |-> "check stage", order |-> "check order"]

(***************************************************************************)
(* The wallet: a prompt is approved and the transaction broadcast, after    *)
(* which the send either returns or fails without saying so, or it is       *)
(* refused and nothing was broadcast.                                       *)
(***************************************************************************)
Broadcast(tx) == sent' = sent \cup {tx}

SwapPrompts == {"lock", "assign", "claim", "refund", "release"}

\* SwapFlow's runAction: whatever the outcome the page is idle again, and
\* rereads the chain in its own time.
Approve ==
    /\ page.op \in SwapPrompts
    /\ Broadcast(page.op)
    /\ Idle
    /\ UNCHANGED <<cast, now, head, deep, credit, listing, store, careless, due>>

Refuse ==
    /\ page.op \in SwapPrompts
    /\ Idle
    /\ UNCHANGED <<cast, now, head, deep, sent, credit, listing, store, careless, due>>

(***************************************************************************)
(* PostOrderCard: posting a pre-funded order.                               *)
(***************************************************************************)

\* The secret is staged before anything is sent.  The clock's origin is the
\* moment of staging.
Post ==
    /\ cast.prelocked /\ me = "maker" /\ At("idle")
    /\ now = 0 /\ "lock" \notin sent
    /\ store = Empty
    /\ store' = [store EXCEPT !.stage = TRUE]
    /\ page' = [page EXCEPT !.op = "locking", !.seen = FALSE]
    /\ UNCHANGED <<cast, now, head, deep, sent, credit, listing, careless, due>>

\* A refusal by the user drops the record; any other failure keeps it,
\* whether or not the transaction went out.
LockApproved ==
    /\ At("locking")
    /\ Broadcast("lock")
    /\ page' \in {[page EXCEPT !.op = o] : o \in {"waiting", "idle"}}
    /\ UNCHANGED <<cast, now, head, deep, credit, listing, store, careless, due>>

LockFails(rejected) ==
    /\ At("locking")
    /\ sent' \in {sent, sent \cup {"lock"}}
    /\ rejected => sent' = sent
    /\ store' = IF rejected THEN Clear("stage") ELSE store
    /\ Idle
    /\ UNCHANGED <<cast, now, head, deep, credit, listing, careless, due>>

\* waitForEscrow: the escrow shows at the head, or the page gives up.
waitForEscrow ==
    /\ At("waiting")
    /\ \/ head.i.status = "Open" /\ Goes("signing")
       \/ Idle
    /\ UNCHANGED <<cast, now, head, deep, sent, credit, listing, store, careless, due>>

\* createPortableOrder: the envelope is staged before it is published.
createPortableOrder(approves) ==
    /\ At("signing")
    /\ IF approves /\ ~store.signed
       THEN store' = [store EXCEPT !.signed = TRUE] /\ Goes("publishing")
       ELSE Idle /\ UNCHANGED store
    /\ UNCHANGED <<cast, now, head, deep, sent, credit, listing, careless, due>>

\* publishSignedStage and promoteSignedOrder: the request may not arrive, or
\* be refused; its answer may be lost; a good answer turns both stages into
\* the order handle.
Publish(arrives, answered) ==
    /\ At("publishing")
    /\ answered => arrives
    /\ arrives => now < T1
    /\ listing' = IF arrives /\ listing = "none" THEN "open" ELSE listing
    /\ store' = IF answered
                THEN [store EXCEPT !.order = TRUE, !.signed = FALSE, !.stage = FALSE]
                ELSE store
    /\ page' = IF answered THEN Page ELSE [page EXCEPT !.op = "idle"]
    /\ UNCHANGED <<cast, now, head, deep, sent, credit, careless, due>>

\* resumeSignedPost: the same envelope again, if its escrow is still there.
resumeSignedPost ==
    /\ store.signed /\ At("idle")
    /\ store.stage /\ head.i.status = "Open"
    /\ Goes("publishing")
    /\ UNCHANGED <<cast, now, head, deep, sent, credit, listing, store, careless, due>>

\* The recovery banner, shown for a staged record without a signed one.
Banner == store.stage /\ ~store.signed /\ At("idle")

\* A reading of the escrow by the banner: None only unlocks the discard.
ProbeSees(status) ==
    CASE status = "Open" -> page' = [page EXCEPT !.probe = "open"] /\ UNCHANGED store
      [] status = "None" -> /\ page' = [page EXCEPT !.probe = "absent", !.seen = TRUE]
                            /\ UNCHANGED store
      [] OTHER -> store' = Clear("stage") /\ page' = page

\* Mutated form, used to check that the properties can fail:
\* a missing escrow is taken for a settled one.
probeStaged_ClearsAbsent(fails) ==
    /\ store.stage /\ At("idle")
    /\ IF fails THEN page' = [page EXCEPT !.probe = "unknown"] /\ UNCHANGED store
       ELSE ProbeSees(IF head.i.status = "None" THEN "Refunded" ELSE head.i.status)
    /\ UNCHANGED <<cast, now, head, deep, sent, credit, listing, careless, due>>
probeStaged(fails) ==
    /\ store.stage /\ At("idle")
    /\ IF fails THEN page' = [page EXCEPT !.probe = "unknown"] /\ UNCHANGED store
       ELSE ProbeSees(head.i.status)
    /\ UNCHANGED <<cast, now, head, deep, sent, credit, listing, careless, due>>

resumeStagedPost ==
    /\ Banner /\ page.probe \in {"open", "unknown"}
    /\ IF head.i.status = "Open"
       THEN page' = [page EXCEPT !.op = "signing", !.probe = "open"] /\ UNCHANGED store
       ELSE ProbeSees(head.i.status)
    /\ UNCHANGED <<cast, now, head, deep, sent, credit, listing, careless, due>>

releaseStaged ==
    /\ Banner /\ page.probe \in {"open", "unknown"}
    /\ IF head.i.status = "Open"
       THEN Goes(Releasing.stage) /\ UNCHANGED store
       ELSE ProbeSees(head.i.status)
    /\ UNCHANGED <<cast, now, head, deep, sent, credit, listing, careless, due>>

\* The warned override, refused when the escrow shows after all.
discardStagedRecord ==
    /\ Banner /\ page.seen /\ page.probe # "open"
    /\ IF head.i.status = "Open"
       THEN /\ page' = [page EXCEPT !.probe = "open", !.seen = FALSE]
            /\ UNCHANGED <<store, careless>>
       ELSE /\ store' = Clear("stage")
            /\ page' = [page EXCEPT !.seen = FALSE]
            /\ careless' = (careless \/ "lock" \in sent)
    /\ UNCHANGED <<cast, now, head, deep, sent, credit, listing, due>>

(***************************************************************************)
(* Reclaiming an unassigned escrow, from the banner ("stage") or from the   *)
(* open order's card ("order"); the record goes once the escrow has left    *)
(* the lock and its payout is not a credit.                                 *)
(***************************************************************************)

\* MyOrderCard.releaseEscrow: the listing is pulled as far as the book
\* answers, and an escrow that is not open goes straight to the credit check.
releaseEscrow ==
    /\ store.order /\ At("idle")
    /\ listing' \in {listing, "closed"}
    /\ Goes((IF head.i.status = "Open" THEN Releasing ELSE Checking).order)
    /\ UNCHANGED <<cast, now, head, deep, sent, credit, store, careless, due>>

ReleaseApproved(record) ==
    /\ At(Releasing[record])
    /\ Broadcast("release")
    /\ Goes(Checking[record])
    /\ UNCHANGED <<cast, now, head, deep, credit, listing, store, careless, due>>

GiveUp(record) ==
    /\ page.op \in {Releasing[record], Checking[record]}
    /\ Idle
    /\ UNCHANGED <<cast, now, head, deep, sent, credit, listing, store, careless, due>>

\* readSwapCredit and what follows; the read itself may fail.
PayoutChecked(record, fails) ==
    /\ At(Checking[record]) /\ head.i.status # "Open"
    /\ IF fails \/ credit
       THEN page' = [page EXCEPT !.op = "idle", !.deferred = TRUE] /\ UNCHANGED store
       ELSE page' = [page EXCEPT !.op = "idle"] /\ store' = Clear(record)
    /\ UNCHANGED <<cast, now, head, deep, sent, credit, listing, careless, due>>

\* DeferredPayoutPanel: it collects the credit, and clears the record it was
\* shown for once the ledger says zero.
Collect ==
    /\ page.deferred /\ credit
    /\ Broadcast("withdraw")
    /\ sent' # sent
    /\ UNCHANGED <<cast, now, head, deep, credit, listing, store, page, careless, due>>

onCleared ==
    /\ page.deferred /\ ~credit
    /\ page' = [page EXCEPT !.deferred = FALSE]
    /\ store' = [store EXCEPT !.stage = FALSE, !.order = FALSE]
    /\ UNCHANGED <<cast, now, head, deep, sent, credit, listing, careless, due>>

(***************************************************************************)
(* MyOrderCard: a taker was matched and the handle becomes an active swap.  *)
(***************************************************************************)

Match ==
    /\ store.order /\ listing = "open" /\ At("idle")
    /\ now + 2 * RESPONSE + CLAIM_MARGIN <= T1
    /\ store' = [store EXCEPT !.order = FALSE, !.swap = now + RESPONSE]
    /\ listing' = "closed"
    /\ page' = Page
    /\ UNCHANGED <<cast, now, head, deep, sent, credit, careless, due>>

(***************************************************************************)
(* SwapFlow.                                                                *)
(***************************************************************************)
Swap == [role |-> me, prelocked |-> cast.prelocked, t1 |-> T1, t2 |-> store.swap]
Read(leg) == IF page.legs = Null THEN Null ELSE page.legs[leg]

\* refresh: the head first, then confirmation depth, which is forgotten when
\* it cannot be read.
RefreshHead ==
    /\ store.swap # Null /\ page.legs # head
    /\ page' = [page EXCEPT !.legs = head]
    /\ UNCHANGED <<cast, now, head, deep, sent, credit, listing, store, careless, due>>

RefreshDeep(fails) ==
    /\ store.swap # Null /\ page.legs # Null
    /\ page' = [page EXCEPT !.deep = IF fails THEN Null ELSE deep]
    /\ page' # page
    /\ UNCHANGED <<cast, now, head, deep, sent, credit, listing, store, careless, due>>

Opens(tx) ==
    /\ At("idle") /\ Goes(tx)
    /\ due' = IF tx = "claim" /\ "claim" \notin sent THEN now + CLAIM_MARGIN ELSE due
    /\ UNCHANGED <<cast, now, head, deep, sent, credit, listing, store, careless>>

\* lockLeg and assignLeg.  Whether the book shows a live fill (signedFillIssue,
\* takerWalkedAway) is the book's choice: either button may be disabled.
lockLeg ==
    /\ store.swap # Null
    /\ IF me = "maker" THEN CanLockInitiator(Swap, Read("i"))
                       ELSE CanLockResponder(Swap, page.deep, Read("r"), now)
    /\ Opens("lock")

assignLeg ==
    /\ store.swap # Null /\ me = "maker"
    /\ CanAssign(Swap, Read("i"), Read("r"), now)
    /\ Opens("assign")

\* claimLeg: simulated against the head, and the cutoff checked again there.
\* Mutated form, used to check that the properties can fail:
\* the cutoff is only checked when the button is drawn.
claimLeg_NoGuard ==
    /\ store.swap # Null
    /\ IF me = "maker" THEN CanClaimResponder(Swap, Read("i"), page.deep, now)
                       ELSE CanClaimInitiator(Swap, Read("i"), Read("r"), now)
    /\ Opens("claim")
claimLeg ==
    /\ store.swap # Null
    /\ IF me = "maker" THEN CanClaimResponder(Swap, Read("i"), page.deep, now)
                       ELSE CanClaimInitiator(Swap, Read("i"), Read("r"), now)
    /\ head[theirs].status = "Open" /\ ~unassigned(head[theirs])
    /\ ~claimCutoffBlocked(head[theirs].timeout, now)
    /\ Opens("claim")

refundLeg ==
    /\ store.swap # Null /\ Refundable(Read(mine), now)
    /\ Opens("refund")

releaseLeg ==
    /\ store.swap # Null /\ me = "maker" /\ Releasable(Swap, Read(mine))
    /\ Opens("release")

\* "New swap" and "Discard swap".  Nothing but the page's last reading of its
\* own leg stands in the way, and for a classic swap not even that.
prelockChainUnknown == cast.prelocked /\ me = "maker" /\ page.legs = Null

MayDiscard ==
    \/ complete(Read("i"), Read("r"))
    \/ ~OwnLocked(Read(mine)) /\ ~prelockChainUnknown

\* The lock is out, or its prompt is up, and the page has not seen it land.
LockMayLand ==
    /\ "lock" \in sent \/ At("lock")
    /\ page.legs = Null \/ Is(Read(mine), "None")

onDiscard ==
    /\ store.swap # Null /\ MayDiscard
    /\ careless' = (careless \/ LockMayLand)
    /\ store' = [store EXCEPT !.swap = Null]
    /\ page' = Page
    /\ UNCHANGED <<cast, now, head, deep, sent, credit, listing, due>>

Reload ==
    /\ page # Page
    /\ page' = Page
    /\ UNCHANGED <<cast, now, head, deep, sent, credit, listing, store, careless, due>>

(***************************************************************************)
(* The chains.                                                              *)
(***************************************************************************)
LockTimeout == IF me = "maker" THEN T1 ELSE RESPONSE

OwnLock == [status |-> "Open", initiator |-> me, agreed |-> TRUE,
            recipient |-> IF me = "maker" /\ cast.prelocked THEN Nobody ELSE peer,
            timeout |-> LockTimeout]

\* What the escrow contract accepts, on a leg at the head.
Lockable(leg, timeout) == leg.status = "None" /\ now < timeout
Assignable(leg, by) ==
    leg.status = "Open" /\ leg.initiator = by /\ unassigned(leg) /\ now < leg.timeout
Releases(leg, by) == leg.status = "Open" /\ leg.initiator = by /\ unassigned(leg)
Claimable(leg) == leg.status = "Open" /\ ~unassigned(leg) /\ now < leg.timeout
Refunds(leg) == leg.status = "Open" /\ now >= leg.timeout

Becomes(l, leg) == head' = [head EXCEPT ![l] = leg]
Turns(l, status) == head' = [head EXCEPT ![l].status = status]

\* A settlement of the browser's own escrow delivers or defers its payout.
Settles(l) ==
    /\ Turns(l, "Refunded")
    /\ credit' \in IF head[l].initiator = me THEN BOOLEAN ELSE {credit}

Mined(tx) ==
    CASE tx = "lock"    -> /\ Lockable(head[mine], LockTimeout)
                           /\ Becomes(mine, OwnLock) /\ UNCHANGED credit
      [] tx = "assign"  -> /\ Assignable(head.i, me)
                           /\ head' = [head EXCEPT !.i.recipient = peer]
                           /\ UNCHANGED credit
      [] tx = "claim"   -> Claimable(head[theirs]) /\ Turns(theirs, "Claimed") /\ UNCHANGED credit
      [] tx = "refund"  -> Refunds(head[mine]) /\ Settles(mine)
      [] tx = "release" -> Releases(head.i, me) /\ Settles("i")
      [] OTHER          -> credit /\ credit' = FALSE /\ UNCHANGED head

Mine ==
    /\ \E tx \in sent : Mined(tx)
    /\ UNCHANGED <<cast, now, deep, sent, listing, store, page, careless, due>>

\* The counterparty locks its leg well, short, or for the wrong payee or
\* amount, or takes the browser's own slot; a maker knows the secret, a taker
\* once the browser's claim is out.
PeerTerms ==
    [recipient : {me}, agreed : {TRUE}, timeout : {1, RESPONSE, RESPONSE + CLAIM_MARGIN}]
    \cup {[recipient |-> peer, agreed |-> TRUE, timeout |-> RESPONSE + CLAIM_MARGIN],
          [recipient |-> me, agreed |-> FALSE, timeout |-> RESPONSE + CLAIM_MARGIN]}

Locked(t) == [status |-> "Open", initiator |-> peer, recipient |-> t.recipient,
              agreed |-> t.agreed, timeout |-> t.timeout]

HashlockKnown == store.swap # Null \/ "lock" \in sent \/ listing # "none"

PeerLocks ==
    /\ HashlockKnown
    /\ \/ \E t \in PeerTerms : /\ Lockable(head[theirs], t.timeout)
                              /\ Becomes(theirs, Locked(t))
       \/ /\ Lockable(head[mine], RESPONSE)
          /\ Becomes(mine, Locked([recipient |-> peer, agreed |-> FALSE,
                                   timeout |-> RESPONSE]))
    /\ UNCHANGED <<cast, now, deep, sent, credit, listing, store, page, careless, due>>

PeerAssigns ==
    /\ Assignable(head.i, peer)
    /\ \E to \in {me, peer} : head' = [head EXCEPT !.i.recipient = to]
    /\ UNCHANGED <<cast, now, deep, sent, credit, listing, store, page, careless, due>>

PeerClaims(l) ==
    /\ me = "taker" \/ "claim" \in sent
    /\ Claimable(head[l]) /\ Turns(l, "Claimed")
    /\ UNCHANGED <<cast, now, deep, sent, credit, listing, store, page, careless, due>>

\* Anyone may refund an expired escrow; only its initiator releases one.
PeerRefunds(l) ==
    /\ Refunds(head[l]) \/ Releases(head[l], peer)
    /\ Settles(l)
    /\ UNCHANGED <<cast, now, deep, sent, listing, store, page, careless, due>>

Confirm ==
    /\ deep # head[theirs]
    /\ deep' = head[theirs]
    /\ UNCHANGED <<cast, now, head, sent, credit, listing, store, page, careless, due>>

Reorg ==
    /\ deep # head[theirs] /\ head[theirs].initiator = peer
    /\ head[theirs].status = "Open"
    /\ Becomes(theirs, deep)
    /\ UNCHANGED <<cast, now, deep, sent, credit, listing, store, page, careless, due>>

\* A claim whose guard passed is approved and mined within the claim margin.
\* Nothing else holds the clock: a claim that was never asked for may come too
\* late.
ClaimsKeepUp ==
    ("claim" \in sent \/ At("claim")) /\ Claimable(head[theirs]) => now < due

Tick ==
    /\ now < MaxTime
    /\ ClaimsKeepUp
    /\ now' = now + 1
    /\ UNCHANGED <<cast, head, deep, sent, credit, listing, store, page, careless, due>>

-----------------------------------------------------------------------------
Posting ==
    \/ Post \/ LockApproved \/ \E rejected \in BOOLEAN : LockFails(rejected)
    \/ waitForEscrow
    \/ \E approves \in BOOLEAN : createPortableOrder(approves)
    \/ \E arrives, answered \in BOOLEAN : Publish(arrives, answered)
    \/ resumeSignedPost \/ resumeStagedPost \/ releaseStaged \/ discardStagedRecord
    \/ \E fails \in BOOLEAN : probeStaged(fails)

Reclaiming ==
    \/ releaseEscrow \/ Collect \/ onCleared
    \/ \E record \in {"stage", "order"} :
          \/ ReleaseApproved(record) \/ GiveUp(record)
          \/ \E fails \in BOOLEAN : PayoutChecked(record, fails)

Swapping ==
    \/ Match \/ RefreshHead \/ \E fails \in BOOLEAN : RefreshDeep(fails)
    \/ lockLeg \/ assignLeg \/ claimLeg \/ refundLeg \/ releaseLeg
    \/ Approve \/ Refuse \/ onDiscard \/ Reload

Outside ==
    \/ Mine \/ PeerLocks \/ PeerAssigns \/ Confirm \/ Reorg \/ Tick
    \/ \E l \in {"i", "r"} : PeerClaims(l) \/ PeerRefunds(l)

Next == Posting \/ Reclaiming \/ Swapping \/ Outside

Spec == Init /\ [][Next]_vars

-----------------------------------------------------------------------------

\* The browser pays without being paid in one case only: its escrow is claimed
\* by the counterparty and the escrow that was to pay it is gone only for a
\* taker none of whose claims was broadcast, and only a claim margin or more
\* after the responder timeout.  A maker never, and never a browser whose claim
\* passed the guard and went out.  The decisions are taken on readings that may
\* be stale (swapMachine.ts), and the claim's last check is SwapFlow's guard
\* before the broadcast.  The window a taker has to claim in ends at the
\* responder timeout: until then no cutoff stops its page.  It is not the margin
\* beyond it that config.ts speaks of, because the lock check and the cutoff
\* spend the same margin.
NotShorted ==
    LET paid == head[mine].initiator = me /\ head[mine].status = "Claimed"
        gone(leg) == \/ leg.status = "Refunded"
                     \/ leg.status = "Open" /\ now >= leg.timeout
    IN  /\ paid /\ gone(head[theirs]) =>
               /\ me = "taker" /\ "claim" \notin sent
               /\ now >= RESPONSE + CLAIM_MARGIN
        /\ me = "taker" /\ paid /\ now < RESPONSE =>
               ~claimCutoffBlocked(head[theirs].timeout, now)

\* The hashlock and the secret of an escrow that is open, or whose lock may
\* still be mined, are in local storage: staged before the lock is sent, then
\* in the order's handle, then in the active swap, through refused prompts,
\* lost answers, failed reads and reloads (PostOrderCard.tsx, MyOrderCard.tsx,
\* SwapFlow.tsx).  Only a user who discards a record before its lock was seen
\* to land can lose it.
EscrowRecoverable ==
    LET open == head[mine].initiator = me /\ head[mine].status = "Open"
        coming == "lock" \in sent /\ Lockable(head[mine], LockTimeout)
    IN  (open \/ coming) /\ ~careless =>
            store.stage \/ store.order \/ store.swap # Null
=============================================================================
