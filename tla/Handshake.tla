------------------------------ MODULE Handshake ------------------------------
(***************************************************************************)
(* How a maker and a taker agree on the terms of a swap through a book     *)
(* neither trusts: the order, the taker's proposal (FillIntent), and the   *)
(* maker's one terminal answer, a Fill or a Cancel.                        *)
(*                                                                         *)
(* Each side is one of two programs with its own signer and its own        *)
(* verifier: the browser (MyOrderCard, OrderBookPanel, AwaitHashlock,      *)
(* SwapFlow) or the headless one (the market maker's index.ts, the         *)
(* scripted taker).  `cast` says which play, and whether the maker or the  *)
(* book are hostile.  The documents are those of the signing modules; the  *)
(* state holds their parameters.  The clocks of all parties agree.         *)
(***************************************************************************)
EXTENDS ProtocolWire, FiniteSets

CONSTANTS
    Casts,               \* [maker, taker, listing, book, rival, faults, retained]: who
                         \* takes part, when a rival may ask, a bound on lost requests,
                         \* lost answers and reloads, and MAX_RETAINED_INTENTS
    RESPONSE,            \* SIGNED_FILL_RESPONSE_S, FILL_RESPONSE_TARGET_S
    RESPONDER_TIMEOUT,   \* RESPONDER_TIMEOUT_S, cfg.responderWindowS
    INITIATOR_TIMEOUT,   \* INITIATOR_TIMEOUT_S, cfg.initiatorWindowS
    PRELOCK_TIMEOUT,     \* what is left of a prelock's timeout when it is listed
    LOCK_RUNWAY,         \* cfg.lockRunwayS of the scripted taker
    GRACE, LINGER,       \* SIGNED_TERMINAL_GRACE_S, LOCKING_LINGER_S
    MIN_ORDER_RUNWAY,    \* cfg.minOrderRunwayS of the scripted taker
    MaxTime              \* bound on the clock

ASSUME HandshakeAssumption ==
    /\ {RESPONSE, RESPONDER_TIMEOUT, INITIATOR_TIMEOUT, PRELOCK_TIMEOUT, LOCK_RUNWAY,
        MIN_ORDER_RUNWAY, GRACE, LINGER, MaxTime} \subseteq Nat
    /\ \A c \in Casts : /\ c.maker \in {"browser", "headless", "hostile"}
                         /\ c.taker \in {"browser", "headless"}
                         /\ c.listing \in {"public", "private", "prelocked"}
    /\ \A c \in Casts : c.listing # "public" => c.maker # "headless"
    /\ \A c \in Casts : c.listing = "private" => c.taker # "headless" /\ c.rival = {}

\* A browser's draft leaves the taker its runway until the answer is due, and
\* its initiator side, or a prelock's runway, runs twice its responder side.
ASSUME DraftAssumption ==
    \A c \in Casts : c.maker = "browser" =>
        /\ RESPONSE + RESPONDER_RUNWAY < RESPONDER_TIMEOUT
        /\ 2 * RESPONDER_TIMEOUT <= INITIATOR_TIMEOUT
        /\ 2 * RESPONDER_TIMEOUT <= PRELOCK_RUNWAY

S == INSTANCE ServerSigning
M == INSTANCE MakerState
T == INSTANCE TakerState
B == INSTANCE BrowserSigning

VARIABLES
    now,
    cast,
    order,    \* the signed order, [order, auth, digest]
    book,     \* what the book knows of the order
    card,     \* the maker's saved handle of the order, or Null
    tab,      \* what the maker's page holds in memory
    swap,     \* the fill the maker goes into the swap with, or Null
    signed,   \* the terminal documents the maker's key has signed
    alice,    \* the taker's record
    faults

vars == <<now, cast, order, book, card, tab, swap, signed, alice, faults>>
makerVars == <<card, tab, swap, signed>>

\* A draft is which proposal a fill takes and the times it fixes.
Draft(i, t1, t2, respondBy) == [for |-> i, t1 |-> t1, t2 |-> t2, respondBy |-> respondBy]

-----------------------------------------------------------------------------
(* The documents.                                                          *)

Maker == "maker"
Nonce(x) == Text(<<"nonce", x>>, "lower")
Wallet(who) == Text(who, "mixed")        \* a checksummed address
Address(who) == Text(who, "lower")

OrderBody(c) ==
    [terms |-> "agreed", maker |-> Wallet(Maker),
     visibility |-> IF c.listing = "private" THEN "private" ELSE "public",
     allowedTaker |-> IF c.listing = "private" THEN Wallet("alice") ELSE Null,
     prelock |-> IF c.listing = "prelocked"
                 THEN [hashlock |-> Text(<<"prelock">>, "lower"), t1 |-> PRELOCK_TIMEOUT] ELSE Null]

OrderDoc(c) ==
    IF c.maker = "headless"
    THEN T!signOrderV1(Address(Maker), OrderBody(c), "makerToken", Nonce("order"), 0, Null)
    ELSE LET shareToken == IF c.listing = "private" THEN "shareToken" ELSE Null
             doc == B!signOrderV1(OrderBody(c), "makerToken", shareToken, Nonce("order"), 0)
         IN  IF B!verifyOrderCapabilities(doc.order, doc.auth, "makerToken", shareToken)
             THEN doc ELSE Null

\* What is listed is an order its maker signed: posting follows the signature.
ASSUME ListingAssumption == \A c \in Casts : OrderDoc(c) # Null

prelock == order.order.prelock
orderExpiry == order.auth.expiresAt
orderDigest == order.digest

\* pub() of a row without proposals.
OpenRow ==
    [id |-> deriveOrderV1Id(order.order.maker, order.auth.nonce),
     terms |-> order.order.terms, maker |-> order.order.maker,
     visibility |-> order.order.visibility, allowedTaker |-> order.order.allowedTaker,
     prelocked |-> prelock # Null,
     hashlock |-> IF prelock = Null THEN Null ELSE prelock.hashlock,
     initiatorTimeout |-> IF prelock = Null THEN Null ELSE prelock.t1,
     responderTimeout |-> Null, status |-> "open", taker |-> Null,
     released |-> FALSE, equivocated |-> FALSE,
     makerAuth |-> order.auth, orderDigest |-> orderDigest,
     fill |-> Null, fillAuth |-> Null, selectedIntent |-> Null,
     cancelProof |-> Null, cancelAuth |-> Null]

\* A proposal: who signed it, when, and the document, or Null for a signer
\* that refused.
Intent(who, at) ==
    [who |-> who, at |-> at,
     doc |-> IF who = "alice" /\ cast.taker = "headless"
             THEN T!signFillIntentV1(Address(who), order, <<"secret", who, at>>,
                                     Nonce(<<who, at>>), at)
             ELSE B!signFillIntentV1(Wallet(who), OpenRow, <<"secret", who, at>>,
                                     Nonce(<<who, at>>), at)]

intentExpiry(i) == i.doc.auth.expiresAt

\* The hashlock is fresh for every draft, which t1 tells apart, or the one of
\* the prelock.
FillBody(draft) ==
    LET chosen == draft.for.doc IN
    [orderDigest |-> orderDigest,
     intentDigest |-> B!intentDigest(chosen.intent, chosen.auth),
     taker |-> chosen.intent.taker, releaseCommitment |-> chosen.intent.releaseCommitment,
     hashlock |-> IF prelock = Null THEN M!sha256(draft.t1) ELSE prelock.hashlock,
     initiatorTimeout |-> draft.t1, responderTimeout |-> draft.t2]

\* A key in hostile hands signs what no signer of the project would.
RawFill(body, respondBy, nonce, issuedAt) ==
    LET unsigned == [issuedAt |-> issuedAt, expiresAt |-> respondBy, nonce |-> nonce]
    IN  [fill |-> body,
         auth |-> B!signProtocolAuth(Address(Maker), unsigned,
                                     B!fillDigest(body, order.auth, unsigned))]

FillDoc(draft, body, issuedAt) ==
    LET nonce == Nonce(<<draft.for.who, draft.for.at, issuedAt>>) IN
    CASE cast.maker = "headless" ->
            T!signFillV1(Address(Maker), body, order, draft.for.doc, draft.respondBy, nonce, issuedAt)
      [] cast.maker = "browser" ->
            B!signFillV1(body, OpenRow, draft.respondBy, nonce, issuedAt)
      [] cast.maker = "hostile" -> RawFill(body, draft.respondBy, nonce, issuedAt)

\* A fill: the draft, when it was signed, and the document or Null.
FillOf(draft, issuedAt) ==
    [for |-> draft.for, t1 |-> draft.t1, t2 |-> draft.t2, respondBy |-> draft.respondBy,
     issuedAt |-> issuedAt, doc |-> FillDoc(draft, FillBody(draft), issuedAt)]

\* A cancellation.
CancelOf(at) ==
    LET body == [orderDigest |-> orderDigest, reasonCode |-> 0] IN
    [at |-> at,
     doc |-> IF cast.maker = "headless"
             THEN T!signCancelV1(Address(Maker), body, order.auth.nonce, orderExpiry,
                                 Nonce("cancel"), at)
             ELSE B!signCancelV1(body, OpenRow, Nonce("cancel"), at)]

-----------------------------------------------------------------------------
(* The book, in short: OrderBook has it in full.                           *)

NewBook == [received |-> <<>>, dropped |-> {}, fill |-> Null, cancel |-> Null,
            released |-> FALSE, equivocated |-> FALSE]

status(b) == IF b.fill # Null THEN "locking"
             ELSE IF b.cancel # Null \/ now >= orderExpiry THEN "cancelled" ELSE "open"

gone(b) == IF b.fill # Null THEN now > b.fill.t1 + LINGER ELSE now > orderExpiry + GRACE

\* pub().
RowOf(b) ==
    LET base == [OpenRow EXCEPT !.status = status(b), !.released = b.released,
                                !.equivocated = b.equivocated]
        withCancel == IF b.cancel = Null THEN base
                      ELSE [base EXCEPT !.cancelProof = b.cancel.doc.cancel,
                                        !.cancelAuth = b.cancel.doc.auth]
        doc == b.fill.doc
    IN  IF b.fill = Null THEN withCancel
        ELSE [withCancel EXCEPT !.fill = doc.fill, !.fillAuth = doc.auth,
                                !.selectedIntent = b.fill.for.doc,
                                !.taker = doc.fill.taker, !.hashlock = doc.fill.hashlock,
                                !.initiatorTimeout = doc.fill.initiatorTimeout,
                                !.responderTimeout = doc.fill.responderTimeout]

\* submitFillIntent(): one live proposal for each taker.
AfterIntent(b, i) ==
    LET doc == i.doc IN
    IF /\ ~gone(b) /\ status(b) = "open" /\ ~b.equivocated
       /\ S!verifyFillIntentV1(doc.intent, doc.auth, order, now, FALSE)
       /\ prelock # Null => prelock.t1 - now >= PRELOCK_RUNWAY
       /\ \A j \in DOMAIN b.received \ b.dropped : j.who = i.who => intentExpiry(j) <= now
    THEN [b EXCEPT !.received = [j \in DOMAIN @ \cup {i} |-> IF j = i THEN now ELSE @[j]]]
    ELSE b

\* applyFill().
AfterFill(b, f) ==
    LET doc == f.doc  chosen == f.for.doc IN
    IF \/ gone(b) \/ doc = Null
       \/ ~S!verifyFillIntentV1(chosen.intent, chosen.auth, order, now, TRUE)
       \/ ~S!verifyFillV1(doc.fill, doc.auth, order, chosen, now, FALSE)
       \/ b.fill = f
    THEN b
    ELSE IF b.fill # Null \/ b.cancel # Null THEN [b EXCEPT !.equivocated = TRUE]
    ELSE [b EXCEPT !.fill = f, !.released = f.for \in b.dropped]

\* applySignedCancel().
AfterCancel(b, c) ==
    LET doc == c.doc IN
    IF \/ gone(b) \/ b.cancel = c
       \/ ~S!verifyCancelV1(doc.cancel, doc.auth, order, now, FALSE) THEN b
    ELSE IF b.fill # Null \/ b.cancel # Null THEN [b EXCEPT !.equivocated = TRUE]
    ELSE [b EXCEPT !.cancel = c]

\* releasePortable().
AfterRelease(b, i) ==
    IF gone(b) \/ (i \notin DOMAIN b.received /\ (b.fill = Null \/ b.fill.for # i)) THEN b
    ELSE [b EXCEPT !.dropped = @ \cup {i}, !.released = @ \/ (b.fill # Null /\ b.fill.for = i)]

\* listFillIntents().
listFillIntents == {i \in DOMAIN book.received \ book.dropped : intentExpiry(i) > now}

\* A request reaches the book and its answer comes back, or one of them does
\* not.
Deliveries == {"answered", "request lost", "answer lost"}
Send(delivery, after) ==
    /\ delivery # "answered" => faults < cast.faults
    /\ faults' = IF delivery = "answered" THEN faults ELSE faults + 1
    /\ book' = IF delivery = "request lost" THEN book ELSE after

-----------------------------------------------------------------------------
(* The maker's page: MyOrderCard.                                          *)

NewCard == [selected |-> Null, draft |-> Null, fill |-> Null, cancel |-> Null]
NewTab == [mounted |-> TRUE, proofSaved |-> FALSE, orphaned |-> FALSE,
           fillPrompt |-> Null, cancelPrompt |-> Null]

NoTake(phase) == [phase |-> phase, asked |-> {}, fill |-> Null, released |-> FALSE]

Init ==
    /\ now = 0
    /\ cast \in Casts
    /\ order = LET doc == OrderDoc(cast)
               IN  [order |-> doc.order, auth |-> doc.auth,
                    digest |-> S!orderDigest(doc.order, doc.auth)]
    /\ book = NewBook
    /\ card = NewCard
    /\ tab = NewTab
    /\ swap = Null
    /\ signed = [fills |-> {}, cancel |-> FALSE]
    /\ alice = NoTake("idle")
    /\ faults = 0

Browser == cast.maker = "browser"
close == card' = Null /\ tab' = [tab EXCEPT !.mounted = FALSE]

Candidate(i) == [intent |-> i.doc.intent, auth |-> i.doc.auth,
                 receivedAt |-> book.received[i], of |-> i]
Select(intents) ==
    {c.of : c \in B!selectEarliestFillIntent(RowOf(book), {Candidate(i) : i \in intents}, now)}

\* A saved selection is kept while it is valid, released or not.
Selection ==
    IF card.selected # Null /\ Select({card.selected}) # {} THEN {card.selected}
    ELSE Select(listFillIntents)

\* Mutated form, used to check that the properties can fail: a draft is good
\* for whatever proposal is selected.
canReuseDraft_Any(i) ==
    card.draft # Null /\ (card.fill # Null \/ card.draft.respondBy - now >= MIN_RESPONSE)

canReuseDraft(i) ==
    /\ card.draft # Null
    /\ card.draft.for = i
    /\ card.fill # Null \/ card.draft.respondBy - now >= MIN_RESPONSE

FreshDraft(i) ==
    Draft(i, IF prelock = Null THEN now + INITIATOR_TIMEOUT ELSE prelock.t1,
          now + RESPONDER_TIMEOUT, B!Earliest(now + RESPONSE, orderExpiry))

FreshDraftOk(i) ==
    /\ prelock # Null => prelock.t1 - now >= PRELOCK_RUNWAY
    /\ FreshDraft(i).respondBy - now >= MIN_RESPONSE

\* The poll found the order open or filled, and no attempt is under way.
MayMatch ==
    /\ Browser /\ tab.mounted /\ card # Null /\ tab.fillPrompt = Null
    /\ ~gone(book) /\ status(book) \in {"open", "locking"}
    /\ B!verifyOrderV1Auth(RowOf(book), now, TRUE)
    /\ ~book.equivocated /\ book.cancel = Null

\* startSignedSwap() up to the wallet's prompt: the selection and the draft
\* are saved first.
StartSignedSwap ==
    /\ MayMatch /\ status(book) = "open" /\ card.fill = Null
    /\ \E i \in Selection :
        LET draft == IF canReuseDraft(i) THEN card.draft ELSE FreshDraft(i)
            staged == [card EXCEPT !.selected = i, !.draft = draft]
        IN  /\ canReuseDraft(i) \/ FreshDraftOk(i)
            /\ card' = staged
            /\ \E fill \in {FillOf(draft, now)} :
                tab' = [tab EXCEPT !.fillPrompt =
                          IF fill.doc = Null THEN Null
                          ELSE [staged |-> staged, fill |-> fill]]
    /\ UNCHANGED <<now, cast, order, book, swap, signed, alice, faults>>

\* The answer to the published fill is verified like anybody's row.
TerminalOk(b, f) ==
    LET row == RowOf(b) IN
    /\ ~gone(b) /\ status(b) = "locking" /\ b.fill = f
    /\ ~b.released /\ ~b.equivocated /\ b.cancel = Null
    /\ B!verifyFillV1(row.fill, row.fillAuth, row, f.for.doc, now, TRUE)
    /\ now < f.respondBy

\* The signed fill is saved, published, and taken into the swap.
Publish(handle, delivery) ==
    LET after == AfterFill(book, handle.fill) IN
    /\ Send(delivery, after)
    /\ IF delivery = "answered" /\ TerminalOk(after, handle.fill)
       THEN /\ card' = Null
            /\ swap' = handle.fill
            /\ tab' = [tab EXCEPT !.mounted = FALSE, !.fillPrompt = Null]
       ELSE /\ card' = handle
            /\ swap' = swap
            /\ tab' = [tab EXCEPT !.proofSaved = TRUE, !.fillPrompt = Null]

\* The wallet answers; the handle is the one staged before the prompt.
ApproveFill(delivery) ==
    /\ tab.fillPrompt # Null
    /\ Publish([tab.fillPrompt.staged EXCEPT !.fill = tab.fillPrompt.fill], delivery)
    /\ signed' = [signed EXCEPT !.fills = @ \cup {tab.fillPrompt.fill}]
    /\ UNCHANGED <<now, cast, order, alice>>

RejectFill ==
    /\ tab.fillPrompt # Null
    /\ tab' = [tab EXCEPT !.fillPrompt = Null]
    /\ UNCHANGED <<now, cast, order, book, card, swap, signed, alice, faults>>

\* A later poll publishes the saved fill again.
RetryFill(delivery) ==
    /\ MayMatch /\ card.fill # Null
    /\ Publish(card, delivery)
    /\ UNCHANGED <<now, cast, order, signed, alice>>

PublishCancel(saved, delivery) ==
    LET after == AfterCancel(book, saved.cancel)
        row == RowOf(after)
    IN  /\ Send(delivery, after)
        /\ IF /\ prelock = Null
              /\ delivery = "answered" /\ ~gone(after) /\ after.cancel = saved.cancel
              /\ B!verifyCancelV1(row.cancelProof, row.cancelAuth, row, now, TRUE)
           THEN card' = Null /\ tab' = [tab EXCEPT !.mounted = FALSE, !.cancelPrompt = Null]
           ELSE card' = saved /\ tab' = [tab EXCEPT !.cancelPrompt = Null]

\* cancelListing() up to the wallet's prompt.  The button is off while a match
\* is under way; a match may start while this prompt is open.
ClickCancel(delivery) ==
    /\ Browser /\ tab.mounted /\ card # Null
    /\ ~gone(book) /\ status(book) = "open"
    /\ ~tab.proofSaved /\ ~tab.orphaned
    /\ tab.fillPrompt = Null /\ tab.cancelPrompt = Null
    /\ card.fill = Null
    /\ IF card.cancel = Null
       THEN /\ delivery = "answered"
            /\ \E c \in {CancelOf(now)} :
                /\ c.doc # Null
                /\ tab' = [tab EXCEPT !.cancelPrompt = [saved |-> card, cancel |-> c]]
            /\ UNCHANGED <<book, card, faults>>
       ELSE PublishCancel(card, delivery)
    /\ UNCHANGED <<now, cast, order, swap, signed, alice>>

\* The rest of cancelListing(): the handle as it was before the prompt is
\* saved with the proof.
ApproveCancel(delivery) ==
    /\ tab.cancelPrompt # Null
    /\ PublishCancel([tab.cancelPrompt.saved EXCEPT !.cancel = tab.cancelPrompt.cancel], delivery)
    /\ signed' = [signed EXCEPT !.cancel = TRUE]
    /\ UNCHANGED <<now, cast, order, swap, alice>>

RejectCancel ==
    /\ tab.cancelPrompt # Null
    /\ tab' = [tab EXCEPT !.cancelPrompt = Null]
    /\ UNCHANGED <<now, cast, order, book, card, swap, signed, alice, faults>>

\* Mutated form, used to check that the properties can fail: a listing that is
\* gone is taken for an outage.
Poll_GoneThrows ==
    /\ Browser /\ tab.mounted
    /\ ~gone(book) /\ status(book) = "cancelled"
    /\ IF prelock = Null THEN close
       ELSE tab' = [tab EXCEPT !.orphaned = TRUE] /\ UNCHANGED card
    /\ UNCHANGED <<now, cast, order, book, swap, signed, alice, faults>>

\* The poll's other branches: the listing ended.  A prelock's handle outlives
\* its listing.
Poll ==
    /\ Browser /\ tab.mounted
    /\ gone(book) \/ status(book) = "cancelled"
    /\ IF prelock = Null THEN close
       ELSE tab' = [tab EXCEPT !.orphaned = TRUE] /\ UNCHANGED card
    /\ UNCHANGED <<now, cast, order, book, swap, signed, alice, faults>>

\* "Close finished order", and the end of releaseEscrow().
CloseFinished ==
    /\ Browser /\ tab.mounted
    /\ IF prelock = Null THEN ~gone(book) /\ status(book) = "locking" /\ book.released
       ELSE tab.orphaned \/ book.released
    /\ close
    /\ UNCHANGED <<now, cast, order, book, swap, signed, alice, faults>>

Reload ==
    /\ Browser /\ faults < cast.faults
    /\ tab' = [NewTab EXCEPT !.mounted = card # Null,
                             !.proofSaved = card # Null /\ card.fill # Null]
    /\ tab' # tab
    /\ faults' = faults + 1
    /\ UNCHANGED <<now, cast, order, book, card, swap, signed, alice>>

-----------------------------------------------------------------------------
(* The market maker's part, in short: MakerOrder has it in full.           *)

Headless == cast.maker = "headless"
Undecided == card.fill = Null /\ card.cancel = Null

intentPriority(i) == IF i.at >= book.received[i] THEN i.at ELSE book.received[i]
earliestValidFillIntent ==
    LET valid == {i \in listFillIntents :
                    /\ i.at <= now
                    /\ T!verifyFillIntentV1(i.doc.intent, i.doc.auth, orderDigest,
                                            now, order.auth)}
    IN  {i \in valid : \A j \in valid : \/ intentPriority(i) < intentPriority(j)
                                        \/ intentPriority(i) = intentPriority(j) /\ i.at <= j.at}

\* The times are fixed when the proposal is selected.
HeadlessSelects ==
    /\ Headless /\ ~gone(book) /\ status(book) = "open" /\ Undecided
    /\ card.selected # Null => intentExpiry(card.selected) <= now
    /\ \E i \in earliestValidFillIntent :
        card' = [card EXCEPT !.selected = i,
                             !.draft = Draft(i, now + INITIATOR_TIMEOUT,
                                             now + RESPONDER_TIMEOUT, Null)]
    /\ UNCHANGED <<now, cast, order, book, tab, swap, signed, alice, faults>>

respondBy ==
    B!Earliest(now + B!Earliest(RESPONSE, RESPONDER_TIMEOUT - RESPONDER_RUNWAY - 1), orderExpiry)

\* Mutated form, used to check that the properties can fail: the signed fill
\* is saved when the book has answered.
PublishHeadless_SavedLate(record, delivery) ==
    LET after == AfterFill(book, record.fill) IN
    /\ Send(delivery, after)
    /\ card' = IF delivery = "answered" THEN record ELSE card
    /\ swap' = IF delivery = "answered" /\ after.fill = record.fill /\ ~after.released
                  /\ now < record.fill.respondBy
               THEN record.fill ELSE swap

PublishHeadless(record, delivery) ==
    LET after == AfterFill(book, record.fill) IN
    /\ Send(delivery, after)
    /\ card' = record
    /\ swap' = IF delivery = "answered" /\ after.fill = record.fill /\ ~after.released
                  /\ now < record.fill.respondBy
               THEN record.fill ELSE swap

\* The signed fill is saved before it is published; a fill the signer refuses
\* throws.
HeadlessSigns(delivery) ==
    /\ Headless /\ ~gone(book) /\ status(book) = "open" /\ Undecided /\ card.selected # Null
    /\ now < intentExpiry(card.selected)
    /\ respondBy - now >= MIN_RESPONSE
    /\ \E fill \in {FillOf([card.draft EXCEPT !.respondBy = respondBy], now)} :
        /\ fill.doc # Null
        /\ PublishHeadless([card EXCEPT !.fill = fill], delivery)
        /\ signed' = [signed EXCEPT !.fills = @ \cup {fill}]
    /\ UNCHANGED <<now, cast, order, tab, alice>>

HeadlessRepublishes ==
    /\ Headless /\ card.fill # Null /\ swap = Null /\ ~gone(book)
    /\ PublishHeadless(card, "answered")
    /\ UNCHANGED <<now, cast, order, tab, signed, alice>>

\* A drain, a reprice, or an order that expires too soon for a fill.
HeadlessCancels(delivery) ==
    /\ Headless /\ ~gone(book) /\ status(book) = "open" /\ card.fill = Null
    /\ \E c \in {IF card.cancel = Null THEN CancelOf(now) ELSE card.cancel} :
        /\ card' = [card EXCEPT !.cancel = c]
        /\ Send(delivery, AfterCancel(book, c))
    /\ signed' = [signed EXCEPT !.cancel = TRUE]
    /\ UNCHANGED <<now, cast, order, tab, swap, alice>>

-----------------------------------------------------------------------------
(* The rows a reader may be served.  A hostile book replays any state it    *)
(* can show a signature for, hides what is terminal, and alters fields.    *)

Quiet(b) == [b EXCEPT !.cancel = Null, !.equivocated = FALSE, !.released = FALSE]
Altered(row, i) ==
    IF row.fill = Null THEN {}
    ELSE {[row EXCEPT !.fill.responderTimeout = @ + 1, !.responderTimeout = @ + 1],
          [row EXCEPT !.fill.initiatorTimeout = @ - 1, !.initiatorTimeout = @ - 1],
          [row EXCEPT !.fill.taker = i.doc.intent.taker,
                      !.taker = i.doc.intent.taker, !.selectedIntent = i.doc]}

\* What a hostile maker may sign for proposal i, around every limit.
HostileFills(i) ==
    {FillOf(Draft(i, at + t1, at + t2, at + r), at) :
        at \in {t \in now - 1 .. now + CLOCK_SKEW + 1 : t >= 0},
        t1 \in {2 * RESPONDER_TIMEOUT - 1, INITIATOR_TIMEOUT, INITIATOR_WINDOW + 1,
                PRELOCK_TIMEOUT - now},
        t2 \in {RESPONDER_RUNWAY + 1, RESPONDER_TIMEOUT, RESPONDER_WINDOW + 1},
        r \in {MIN_RESPONSE - 1, RESPONSE, MAX_RESPONSE, MAX_RESPONSE + 1}}

Fills(i) == IF cast.maker = "hostile" THEN HostileFills(i)
            ELSE signed.fills

Served(i) ==
    IF cast.book = "honest" THEN {RowOf(book)}
    ELSE LET shown == {RowOf([Quiet(book) EXCEPT !.fill = f]) : f \in Fills(i)}
         IN  {OpenRow} \cup shown \cup
             IF cast.maker = "hostile" THEN {} ELSE UNION {Altered(row, i) : row \in shown}

\* The row is of a fill with these parameters.
FillIn(row, i) ==
    [for |-> i, t1 |-> row.fill.initiatorTimeout, t2 |-> row.fill.responderTimeout,
     respondBy |-> row.fillAuth.expiresAt, issuedAt |-> row.fillAuth.issuedAt,
     doc |-> [fill |-> row.fill, auth |-> row.fillAuth]]

-----------------------------------------------------------------------------
(* The takers.                                                             *)

Own == alice.asked
Latest == CHOOSE i \in Own : \A j \in Own : i.at >= j.at
LiveProposal == Own # {} /\ intentExpiry(Latest) > now

RecoveryOf(i) ==
    LET doc == i.doc IN
    [orderDigest |-> orderDigest, intent |-> doc,
     intentDigest |-> IF cast.taker = "headless"
                      THEN T!computeFillIntentDigest(doc.intent, doc.auth)
                      ELSE B!intentDigest(doc.intent, doc.auth)]

\* The record is dropped, its secrets with it.
Quits == alice' = NoTake("gone")

\* Somebody else wants the order too.
RivalAsks ==
    /\ now \in cast.rival
    /\ \A j \in DOMAIN book.received : j.who # "rival"
    /\ \E i \in {Intent("rival", now)} :
        /\ i.doc # Null
        /\ book' = AfterIntent(book, i)
    /\ book' # book
    /\ UNCHANGED <<now, cast, order, makerVars, alice, faults>>

\* The browser: take() up to the wallet's prompt.
AliceSigns ==
    /\ cast.taker = "browser" /\ alice.phase = "idle"
    /\ ~gone(book) /\ status(book) = "open"
    /\ \E i \in {Intent("alice", now)} :
        /\ i.doc # Null
        /\ alice' = [alice EXCEPT !.phase = "signing", !.asked = {i}]
    /\ UNCHANGED <<now, cast, order, book, makerVars, faults>>

\* The wallet answered: the record is saved, then the proposal sent.
AliceAsks(delivery) ==
    /\ alice.phase = "signing"
    /\ IF B!buildSignedTakerSwap(OpenRow, Wallet("alice"), Latest.doc, now) = Null
       THEN /\ alice' = [alice EXCEPT !.phase = "idle", !.asked = {}]
            /\ delivery = "answered" /\ UNCHANGED <<book, faults>>
       ELSE /\ alice' = [alice EXCEPT !.phase = "asked"]
            /\ Send(delivery, AfterIntent(book, Latest))
    /\ UNCHANGED <<now, cast, order, makerVars>>

\* AwaitHashlock replays the proposal while it is live.
AliceReplays ==
    /\ cast.taker = "browser" /\ alice.phase = "asked" /\ LiveProposal
    /\ book' = AfterIntent(book, Latest)
    /\ book' # book
    /\ UNCHANGED <<now, cast, order, makerVars, alice, faults>>

\* releaseTake(): nobody waits for the answer.
AliceAborts(delivery) ==
    /\ Quits
    /\ Send(delivery, AfterRelease(book, Latest))
    /\ UNCHANGED <<now, cast, order, makerVars>>

\* AwaitHashlock's poll.
AlicePolls(delivery) ==
    /\ cast.taker = "browser" /\ alice.phase = "asked"
    /\ IF gone(book) \/ (cast.book = "honest" /\ status(book) = "cancelled")
       THEN AliceAborts(delivery)
       ELSE LET verdict(row) == B!verifyTakerFill(row, RecoveryOf(Latest), now)
                expired(row) == row.status = "open" /\ now > intentExpiry(Latest) + 1
                unsafe(row) == \/ expired(row) \/ verdict(row) = "blocked"
                               \/ verdict(row) = "none" /\ row.status = "locking"
            IN  \/ /\ \E row \in Served(Latest) : unsafe(row)
                   /\ AliceAborts(delivery)
                \/ /\ delivery = "answered"
                   /\ \E row \in Served(Latest) :
                        /\ ~expired(row) /\ verdict(row) = "fund"
                        /\ alice' = [alice EXCEPT !.phase = "ready", !.fill = FillIn(row, Latest)]
                   /\ UNCHANGED <<now, cast, order, book, makerVars, faults>>

\* The user leaves.
AliceLeaves(delivery) ==
    /\ cast.taker = "browser" /\ alice.phase \in {"asked", "ready"}
    /\ AliceAborts(delivery)

\* What the scripted taker has on disk.
selectedOwn(take) ==
    IF take.fill # Null THEN take.fill.for
    ELSE CHOOSE i \in take.asked : \A j \in take.asked : i.at >= j.at

IntentEntry(take, i) ==
    [intentDigest |-> T!computeFillIntentDigest(i.doc.intent, i.doc.auth),
     intent |-> i.doc.intent, auth |-> i.doc.auth,
     releaseSecret |-> <<"secret", i.who, i.at>>, submittedAt |-> i.at,
     releasedAt |-> IF take.released /\ i = selectedOwn(take) THEN i.at ELSE Null]

TakerRecord(take) ==
    LET verified == [signed |-> [order |-> order.order, auth |-> order.auth],
                     orderDigest |-> orderDigest]
        fresh == T!newTakerSwapRecord(OpenRow.id, verified, Address("alice"))
        taken == [fresh EXCEPT !.intents = {IntentEntry(take, i) : i \in take.asked},
                               !.releaseObserved = take.released]
        fill == take.fill.doc
    IN  IF take.fill = Null THEN taken
        ELSE [taken EXCEPT !.selectedIntentDigest = fill.fill.intentDigest,
                           !.fill = fill, !.fillAcknowledged = TRUE,
                           !.fillDigest = T!computeFillDigest(fill.fill, order.auth, fill.auth)]

\* upsert(): on disk before anything is sent.
Stores(take) ==
    /\ T!MayUpsert(TakerRecord(take), Address("alice"), cast.retained)
    /\ alice' = take

\* A proposal is kept while it may be filled or released; the others go first.
Retained(i) ==
    LET all == Own \cup {i}
        mustKeep == {j \in all : j = i \/ intentExpiry(j) > now}
        room == cast.retained - Cardinality(mustKeep)
    IN  mustKeep \cup {j \in all \ mustKeep :
                         Cardinality({k \in all \ mustKeep : k.at > j.at}) < room}

\* The operator's limits are met and the funds are there.
takeBoundsIssue == orderExpiry - now < MIN_ORDER_RUNWAY

MayBegin == alice.phase = "idle" /\ ~takeBoundsIssue

\* The scripted taker: begin() and propose().  A proposal that ran out is
\* followed by another.
Proposes(delivery) ==
    /\ cast.taker = "headless"
    /\ ~gone(book) /\ status(book) = "open"
    /\ T!verifyMakerOrder(RowOf(book), now, FALSE) # Null
    /\ MayBegin \/ alice.phase = "asked"
    /\ ~alice.released /\ ~LiveProposal
    /\ \E i \in {Intent("alice", now)} :
        /\ i.doc # Null
        /\ Stores([alice EXCEPT !.phase = "asked", !.asked = Retained(i)])
        /\ Send(delivery, AfterIntent(book, i))
    /\ UNCHANGED <<now, cast, order, makerVars>>

\* release(): persisted before the book is told, and not told again.
Releases(delivery) ==
    /\ IF delivery = "answered" THEN Quits ELSE Stores([alice EXCEPT !.released = TRUE])
    /\ Send(delivery, AfterRelease(book, selectedOwn(alice)))
    /\ UNCHANGED <<now, cast, order, makerVars>>

Abandons(delivery) ==
    /\ cast.taker = "headless" /\ alice.phase \in {"asked", "ready"} /\ ~alice.released
    /\ Releases(delivery)

\* A cancellation counts when it verifies, or when the book gives none.
Cancelled(row) ==
    /\ row.status = "cancelled"
    /\ row.cancelProof = Null \/ T!verifyMakerCancel(row, orderDigest, now)

\* A pass of step() that does not fund: observeRelease(), observeFill(), and
\* the branches of decideTaker() that end an unfunded take.
EndsUnfunded ==
    \/ alice.released \/ gone(book)
    \/ cast.book = "honest" /\ (Cancelled(RowOf(book)) \/ book.released)

\* The rows that show a fill, and the proposal of ours it selected.
Filled == {row \in Served(Latest) : row.status = "locking" /\ T!parseBookOrderRow(row)}
OwnSelected(row) == {i \in Own : T!sameSignedIntent(row.selectedIntent, i.doc)}
VerdictOn(row, i) == T!verifyMakerFill(row, RecoveryOf(i), now)

StepEnds ==
    /\ cast.taker = "headless" /\ alice.phase \in {"asked", "ready"}
    /\ \/ EndsUnfunded
       \/ alice.phase = "asked" /\ \E row \in Filled : OwnSelected(row) = {}
    /\ Quits
    /\ UNCHANGED <<now, cast, order, book, makerVars, faults>>

StepAcknowledges ==
    /\ cast.taker = "headless" /\ alice.phase = "asked" /\ ~EndsUnfunded
    /\ \E row \in Filled : \E i \in OwnSelected(row) :
        /\ VerdictOn(row, i) = "fund"
        /\ Stores([alice EXCEPT !.phase = "ready", !.fill = FillIn(row, i)])
    /\ UNCHANGED <<now, cast, order, book, makerVars, faults>>

StepReleases(delivery) ==
    /\ cast.taker = "headless" /\ alice.phase = "asked" /\ ~EndsUnfunded
    /\ \E row \in Filled : \E i \in OwnSelected(row) : VerdictOn(row, i) = "blocked"
    /\ Releases(delivery)

\* The maker's escrow stands on the fill's hashlock.
MakerLocked == cast.maker = "hostile" \/ swap = alice.fill

\* The browser verifies the fill again; the scripted taker trusts its record.
Fundable(row) ==
    IF cast.taker = "browser"
    THEN /\ B!verifyTakerFill(row, RecoveryOf(alice.fill.for), now) = "fund"
         /\ FillIn(row, alice.fill.for) = alice.fill
    ELSE ~alice.released /\ ~row.released /\ row.status # "cancelled"
         /\ now + LOCK_RUNWAY < alice.fill.t2

AliceFunds ==
    /\ alice.phase = "ready" /\ MakerLocked
    /\ ~gone(book) /\ \E row \in Served(alice.fill.for) : Fundable(row)
    /\ alice' = [alice EXCEPT !.phase = "funded"]
    /\ UNCHANGED <<now, cast, order, book, makerVars, faults>>

Tick ==
    /\ now < MaxTime
    /\ now' = now + 1
    /\ UNCHANGED <<cast, order, book, makerVars, alice, faults>>

MakerActs(delivery) ==
    \/ ApproveFill(delivery) \/ RetryFill(delivery)
    \/ ClickCancel(delivery) \/ ApproveCancel(delivery)
    \/ HeadlessSigns(delivery) \/ HeadlessCancels(delivery)

TakerActs(delivery) ==
    \/ AliceAsks(delivery) \/ AlicePolls(delivery) \/ AliceLeaves(delivery)
    \/ Proposes(delivery) \/ Abandons(delivery) \/ StepReleases(delivery)

Next ==
    \/ \E delivery \in Deliveries : MakerActs(delivery) \/ TakerActs(delivery)
    \/ StartSignedSwap \/ RejectFill \/ RejectCancel \/ Poll \/ CloseFinished \/ Reload
    \/ HeadlessSelects \/ HeadlessRepublishes
    \/ RivalAsks \/ AliceSigns \/ AliceReplays \/ AliceFunds
    \/ StepEnds \/ StepAcknowledges \/ Tick

\* The page polls every 4 seconds, and time passes.
Spec == Init /\ [][Next]_vars /\ WF_vars(Tick) /\ WF_vars(Poll)

-----------------------------------------------------------------------------
(* Properties.                                                             *)

\* What a verifier of the book makes of a fill at the time it was signed.
BookAccepts(f) ==
    LET doc == f.doc  chosen == f.for.doc IN
    /\ S!verifyFillIntentV1(chosen.intent, chosen.auth, order, f.issuedAt, FALSE)
    /\ S!verifyFillV1(doc.fill, doc.auth, order, chosen, f.issuedAt, FALSE)

BothTakersAccept(f) ==
    LET b == [NewBook EXCEPT !.fill = f]  row == [RowOf(b) EXCEPT !.status = "locking"]
        chosen == f.for.doc
    IN  /\ B!verifyFillV1(row.fill, row.fillAuth, row, chosen, f.issuedAt, FALSE)
        /\ row.visibility = "public" =>
              T!verifyMakerFill(row, RecoveryOf(f.for), f.issuedAt) = "fund"

\* verifyMakerFill() and verifyTakerFill(): what a taker funds is a fill of
\* its own proposal that the maker signed and the book would have taken, whose
\* initiator side runs twice as long, and whose responder side still leaves
\* the claim its runway when the answer is due.  It holds against a hostile
\* maker and a book that alters and replays rows.
FundsSafely ==
    alice.phase \in {"ready", "funded"} =>
        LET f == alice.fill IN
        /\ f.for \in Own
        /\ cast.maker # "hostile" => f \in signed.fills
        /\ f.t2 - f.respondBy > RESPONDER_RUNWAY
        /\ f.t1 - f.issuedAt >= 2 * (f.t2 - f.issuedAt)
        /\ prelock # Null => f.t1 = prelock.t1
        /\ S!verifyFillV1(f.doc.fill, f.doc.auth, order, f.for.doc,
                          f.issuedAt, TRUE)

\* The signers of protocol-signing.ts and orderSigning.ts sign nothing that
\* the book or either taker refuses, save one case: the browser signs a saved
\* draft again after the prelock's runway was crossed.
SignedIsAccepted ==
    [][\A f \in signed'.fills \ signed.fills :
          (prelock # Null => prelock.t1 - f.issuedAt >= PRELOCK_RUNWAY) =>
              /\ S!verifyOrderV1(order.order, order.auth, order.auth.issuedAt, FALSE)
              /\ BookAccepts(f) /\ BothTakersAccept(f)]_vars

\* startSignedSwap() and advance(): a taker that holds a fill and a maker that
\* went into the swap hold the same one, whatever was lost, reloaded or
\* replayed, unless the maker signed a cancellation beside it.
AgreeOnFill ==
    /\ swap # Null /\ alice.phase \in {"ready", "funded"}
    /\ swap.for \in Own /\ ~signed.cancel
    => swap = alice.fill

\* What the market maker has on disk, whatever it has heard of its fill.
MakerRecord(acknowledged, released) ==
    LET proofOf(saved) == IF saved = Null THEN Null ELSE saved.doc
        chosen == card.selected
    IN  [id |-> OpenRow.id, terms |-> order.order.terms, token |-> "makerToken", createdAt |-> 0,
         preimage |-> IF chosen = Null THEN Null ELSE card.draft.t1,
         hashlock |-> IF chosen = Null THEN Null ELSE M!sha256(card.draft.t1),
         initiatorTimeout |-> IF chosen = Null THEN Null ELSE card.draft.t1,
         responderTimeout |-> IF chosen = Null THEN Null ELSE card.draft.t2,
         taker |-> IF chosen = Null THEN Null ELSE chosen.doc.intent.taker,
         protocol |->
            [order |-> order.order, orderAuth |-> order.auth, orderDigest |-> orderDigest,
             selectedIntent |->
                IF chosen = Null THEN Null
                ELSE [intentDigest |-> M!computeFillIntentDigest(chosen.doc.intent,
                                                                 chosen.doc.auth),
                      intent |-> chosen.doc.intent, auth |-> chosen.doc.auth,
                      receivedAt |-> chosen.at],
             fillProof |-> proofOf(card.fill), cancelProof |-> proofOf(card.cancel),
             fillAcknowledged |-> acknowledged, releaseObserved |-> released]]

\* StateFile and TakerStateFile: a start authenticates whatever the daemon or
\* the scripted taker has written, however late it comes, so an escrow or a
\* secret is never locked up behind a record the signers made and the parsers
\* refuse.  One record is known to be refused: the cancellation of an order
\* whose proposal ran out after it was selected.
RecordsLoad ==
    /\ cast.maker = "headless" /\ (card.selected = Null \/ card.cancel = Null) =>
          \A acknowledged, released \in BOOLEAN :
              (acknowledged => card.fill # Null) /\ (released => acknowledged) =>
                  M!Hydrates(MakerRecord(acknowledged, released))
    /\ cast.taker = "headless" /\ alice.asked # {} =>
          T!Hydrates(TakerRecord(alice), Address("alice"), cast.retained)

\* The poll of MyOrderCard: the maker's card leaves the screen, or shows that
\* a prelocked escrow is left to release.
CardCloses == cast.maker = "browser" ~> (~tab.mounted \/ tab.orphaned)

=============================================================================
