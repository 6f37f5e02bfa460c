----------------------------- MODULE MakerOrder -----------------------------
(***************************************************************************)
(* The life of one portable order of the maker daemon: the signed listing, *)
(* the selection of a taker's proposal, the terminal decision (a signed    *)
(* fill or a signed cancellation) and the record's retirement, against the *)
(* order book it publishes to (marketmaker/src/index.ts, state.ts,         *)
(* orderbook.ts, admission.ts, drain.ts; server/src/store.ts).             *)
(*                                                                         *)
(* Only `disk` and the book survive a crash of the daemon.  `pass` is the  *)
(* running advance(): one step per stretch between two awaits, or between  *)
(* two writes of the state file.  A request whose answer does not come     *)
(* stays in `net` and may reach the book at any later time, or never.      *)
(***************************************************************************)
EXTENDS Integers, FiniteSets

CONSTANTS
    Null,
    Intents,          \* the proposals takers may submit
    Expiry,           \* the order's signed expiresAt
    IntentLife,       \* how long a proposal stays valid
    MinResponse,      \* 60: the shortest response window of a fill
    MinRemaining,     \* MIN_REMAINING_LIFETIME_S
    ResponseWindow,   \* FILL_RESPONSE_TARGET_S, or what the windows leave of it
    InitiatorWindow, ResponderWindow,
    TerminalGrace,    \* SIGNED_TERMINAL_GRACE_S
    LockingLinger,    \* LOCKING_LINGER_S
    ResendAfter, ClaimSafety, LockGrace,
    SponsorClaims, SponsorMargin, MaxCreditAttempts, CreditParkAfter,
    CreditRetryCap,
    BookBusy,         \* whether somebody reads the book at every tick
    MaxTime,          \* bound on the clock
    MaxFaults,        \* bound on crashes, thrown passes and unanswered requests
    MaxSecrets        \* bound on generated secrets

ASSUME OrderAssumption ==
    /\ {Expiry, IntentLife, MinResponse, MinRemaining, ResponseWindow, InitiatorWindow,
        ResponderWindow, TerminalGrace, LockingLinger, ResendAfter,
        ClaimSafety, LockGrace, MaxTime, MaxFaults, MaxSecrets} \subseteq Nat
    /\ Expiry <= InitiatorWindow + LockingLinger
    /\ ResponseWindow < ResponderWindow
    /\ InitiatorWindow >= 2 * ResponderWindow
    /\ MinRemaining > 0
    /\ BookBusy \in BOOLEAN
    /\ Null \notin Int

P == INSTANCE MakerPolicy

\* A signed fill, and the record of the order in the state file.
Fills == [secret : Int \cup {Null}, intent : Intents \cup {Null},
          selectedAt : Int \cup {Null}, respondBy : Int]

Records == [sel : Intents \cup {Null}, secret : Int \cup {Null},
            selectedAt : Int \cup {Null}, fill : Fills \cup {Null},
            cancel : BOOLEAN, fillAcknowledged : BOOLEAN,
            releaseObserved : BOOLEAN, lockSentAt : Int \cup {Null}]

ASSUME NullAssumption ==
    Null \notin Intents /\ Null \notin Fills /\ Null \notin Records

VARIABLES
    now,
    up,         \* the daemon is running
    drain,      \* MM_DRAIN of the running configuration
    disk,       \* the order's record in the state file, or Null
    pass,       \* where advance() is, and the book view it holds
    book,       \* the order's row on the book
    proposals,  \* proposals the book holds: each Null or its arrival
    walked,     \* proposals whose release secret is public
    net,        \* requests that may still reach the book
    published,  \* terminal proofs that ever left the process
    minted,     \* secrets generated so far
    locks,      \* lock transactions broadcast
    legs,       \* per secret, the status of our escrow
    faults

vars == <<now, up, drain, disk, pass, book, proposals, walked, net, published,
          minted, locks, legs, faults>>
bookVars == <<book, proposals, walked>>
chainVars == <<locks, legs>>

Secrets == 1 .. MaxSecrets

NewRecord == [sel |-> Null, secret |-> Null, selectedAt |-> Null,
              fill |-> Null, cancel |-> FALSE, fillAcknowledged |-> FALSE,
              releaseObserved |-> FALSE, lockSentAt |-> Null]

NoRow == [status |-> "absent", fill |-> Null, cancelProof |-> FALSE,
          updatedAt |-> 0]

Idle == [at |-> "idle", view |-> Null, released |-> FALSE, fill |-> Null]
At(where) == [Idle EXCEPT !.at = where]

\* refill() has signed the listing and written it to the state file.
Init ==
    /\ now = 0
    /\ up = TRUE
    /\ drain = FALSE
    /\ disk = NewRecord
    /\ pass = At("create")
    /\ book = NoRow
    /\ proposals = [i \in Intents |-> Null]
    /\ walked = {}
    /\ net = {}
    /\ published = {}
    /\ minted = 0
    /\ locks = {}
    /\ legs = [s \in Secrets |-> "None"]
    /\ faults = 0

-----------------------------------------------------------------------------
(* The book.  Every access sweeps first.                                   *)

\* Mutated form, used to check that the properties can fail.
CanPurgeCancelled_Early(row) == now - row.updatedAt > TerminalGrace

\* A cancelled row outlives the order's own validity, so that a late create
\* cannot bring the order back.
CanPurgeCancelled(row) ==
    now > Expiry + TerminalGrace /\ now - row.updatedAt > TerminalGrace

CanPurgeLocking(row) ==
    now > row.fill.selectedAt + InitiatorWindow + LockingLinger

Swept(row) ==
    IF row.status = "open" /\ now >= Expiry
    THEN [row EXCEPT !.status = "cancelled", !.updatedAt = now]
    ELSE IF \/ row.status = "cancelled" /\ CanPurgeCancelled(row)
            \/ row.status = "locking" /\ CanPurgeLocking(row)
    THEN NoRow
    ELSE row

\* createInternal(): an exact replay returns the existing row.
AfterCreate(row) ==
    IF row.status = "absent" /\ now + MinRemaining <= Expiry
    THEN [NoRow EXCEPT !.status = "open", !.updatedAt = now] ELSE row

\* applyFill() and applySignedCancel(): the first terminal proof wins.  A
\* cancellation is not asked for an open row, only for one without a proof.
AfterFill(row, fill) ==
    IF row.status = "open" /\ now < fill.respondBy
    THEN [row EXCEPT !.status = "locking", !.fill = fill, !.updatedAt = now]
    ELSE row

AfterCancel(row) ==
    IF /\ row.status # "absent" /\ row.fill = Null /\ ~row.cancelProof
       /\ now < Expiry
    THEN [row EXCEPT !.status = "cancelled", !.cancelProof = TRUE,
                     !.updatedAt = now]
    ELSE row

\* What the book makes of a request.
Applied(row, req) ==
    CASE req.kind = "create" -> AfterCreate(row)
      [] req.kind = "fill"   -> AfterFill(row, req.fill)
      [] req.kind = "cancel" -> AfterCancel(row)

Create == [kind |-> "create", fill |-> Null]
Fill(fill) == [kind |-> "fill", fill |-> fill]
Cancel == [kind |-> "cancel", fill |-> Null]

\* A request the daemon gave up on reaches the book after all.
Delivered(req) ==
    /\ book' = Applied(Swept(book), req)
    /\ net' = net \ {req}
    /\ UNCHANGED <<now, up, drain, disk, pass, proposals, walked, published,
                   minted, chainVars, faults>>

\* Anyone's read of the book sweeps it.
BookSweeps ==
    /\ Swept(book) # book
    /\ book' = Swept(book)
    /\ UNCHANGED <<now, up, drain, disk, pass, proposals, walked, net,
                   published, minted, chainVars, faults>>

SubmitIntent(i) ==
    /\ Swept(book).status = "open"
    /\ proposals[i] = Null
    /\ proposals' = [proposals EXCEPT ![i] = now]
    /\ UNCHANGED <<now, up, drain, disk, pass, book, walked, net, published,
                   minted, chainVars, faults>>

\* releasePortable(): of a proposal, or of the fill that selected it.
TakerWalksAway(i) ==
    /\ proposals[i] # Null
    /\ Swept(book).status # "absent"
    /\ walked' = walked \cup {i}
    /\ UNCHANGED <<now, up, drain, disk, pass, book, proposals, net, published,
                   minted, chainVars, faults>>

intentExpiresAt(i) ==
    IF proposals[i] + IntentLife < Expiry THEN proposals[i] + IntentLife ELSE Expiry

\* listFillIntents() and earliestValidFillIntent(): first come, unreleased,
\* unexpired.
Candidates ==
    {i \in Intents : /\ Swept(book).status = "open"
                     /\ proposals[i] # Null
                     /\ i \notin walked
                     /\ intentExpiresAt(i) > now}
Earliest == {i \in Candidates : \A j \in Candidates : proposals[i] <= proposals[j]}

-----------------------------------------------------------------------------
(* The daemon: advance(), one step per await.                              *)

persist(rec) == disk' = rec
retire == disk' = Null

iStateOf(rec) ==
    LET st == legs[rec.secret]
    IN  [status |-> st, initiator |-> "maker", recipient |-> "taker",
         token |-> "agreed", amount |-> "agreed", revealed |-> FALSE,
         timeout |-> IF st = "None" THEN 0 ELSE rec.selectedAt + InitiatorWindow]

canRetireExpiredUnfundedQuote(rec) ==
    now >= Expiry /\ rec.sel = Null /\ rec.fill = Null /\ ~rec.cancel

\* Mutated form, used to check that the properties can fail: 404 is an error
\* like any other.
Authentic_GoneThrows(rec, row) ==
    \/ row.status = "open"
    \/ row.status = "locking" /\ rec.fill # Null /\ row.fill = rec.fill
    \/ row.status = "cancelled" /\ rec.fill = Null /\ rec.cancel /\ row.cancelProof

\* getSigned(): a row is believed only if it shows the order open, or the
\* very terminal proof the record holds.
Authentic(rec, row) ==
    \/ row.status \in {"absent", "open"}
    \/ row.status = "locking" /\ rec.fill # Null /\ row.fill = rec.fill
    \/ row.status = "cancelled" /\ rec.fill = Null /\ rec.cancel /\ row.cancelProof

StatusOf(row) == IF row.status = "absent" THEN "gone" ELSE row.status
Released(row) == row.fill # Null /\ row.fill.intent \in walked

\* persistAuthenticatedFillObservation(): sticky.
Observed(rec, row) ==
    IF rec.fill # Null /\ row.status = "locking"
    THEN [rec EXCEPT !.fillAcknowledged = TRUE,
                     !.releaseObserved = @ \/ Released(row)]
    ELSE rec

\* A pass over a pure quote that has expired asks nobody.
MakerRetiresExpired ==
    /\ up /\ pass.at = "idle" /\ disk # Null
    /\ canRetireExpiredUnfundedQuote(disk)
    /\ retire
    /\ UNCHANGED <<now, up, drain, pass, bookVars, net, published, minted,
                   chainVars, faults>>

\* Any other pass reads the book first.
MakerReads(bookUp) ==
    LET row == Swept(book) IN
    /\ up /\ pass.at = "idle" /\ disk # Null
    /\ ~canRetireExpiredUnfundedQuote(disk)
    /\ \/ /\ ~bookUp
          /\ pass' = [At("read") EXCEPT !.view = "unavailable"]
          /\ UNCHANGED <<book, disk>>
       \/ /\ bookUp
          /\ book' = row
          /\ IF Authentic(disk, row)
             THEN /\ pass' = [At("read") EXCEPT !.view = StatusOf(row),
                                              !.released = Released(row)]
                  /\ persist(Observed(disk, row))
             ELSE UNCHANGED <<pass, disk>>
    /\ UNCHANGED <<now, up, drain, proposals, walked, net, published, minted,
                   chainVars, faults>>

\* The input of decide() once no book branch applies.
PolicyInput(rec, iState, rStatus) ==
    [bookStatus |-> IF rec.fill # Null \/ pass.view = "unavailable"
                    THEN "locking" ELSE pass.view,
     released |-> pass.released \/ (rec.fill # Null /\ now >= rec.fill.respondBy),
     managed |-> [preimage |-> rec.secret, hashlock |-> rec.secret,
                  initiatorTimeout |-> IF rec.secret = Null THEN Null
                                       ELSE rec.selectedAt + InitiatorWindow,
                  responderTimeout |-> IF rec.secret = Null THEN Null
                                       ELSE rec.selectedAt + ResponderWindow,
                  announcedAt |-> rec.selectedAt,
                  fillAcknowledged |-> rec.fillAcknowledged,
                  releaseObserved |-> rec.releaseObserved,
                  lockSentAt |-> rec.lockSentAt, claimSentAt |-> Null,
                  sponsorSentAt |-> Null, refundSentAt |-> Null,
                  withdrawSentAt |-> Null, withdrawAttempts |-> 0,
                  withdrawFirstRejectedAt |-> Null, pushSentAt |-> Null,
                  pushAttempts |-> 0, pushFirstRejectedAt |-> Null],
     iState |-> iState,
     rState |-> [NoRow EXCEPT !.status = rStatus], rConfirmed |-> Null,
     expectedRecipient |-> "maker", expectedToken |-> "agreed",
     expectedAmount |-> "agreed", ourInitiator |-> "maker",
     takerOnInitiatorLeg |-> "taker", nowS |-> now,
     ourResponderCredit |-> 0, ourInitiatorCredit |-> 0, takerCredit |-> 0]

\* What advance() does with the book's answer and the legs it read, in the
\* order of its branches.  `reprice` says that the mid has drifted.
Branch(rec, iState, rStatus, reprice) ==
    LET goesOn == P!canContinueWithoutBook(rec, iState)
        undecided == rec.fill = Null /\ ~rec.cancel
    IN  IF pass.view = "unavailable" /\ ~goesOn THEN "throw"
        ELSE IF now >= Expiry /\ undecided /\ ~goesOn THEN "retire"
        ELSE IF pass.view = "gone" /\ undecided /\ rec.sel = Null THEN "create"
        ELSE IF rec.cancel
             THEN CASE pass.view = "cancelled" -> "retire"
                    [] pass.view = "gone"      -> "wait"
                    [] pass.view = "open"      -> "cancel"
                    [] OTHER                   -> "throw"
        ELSE IF rec.fill # Null /\ pass.view = "open" THEN "fill"
        ELSE IF undecided /\ pass.view = "open"
             THEN IF drain \/ reprice THEN "giveUp" ELSE "select"
        ELSE P!decide(PolicyInput(rec, iState, rStatus))

\* A selection whose proposal ran out is dropped, secret included.
Deselected(rec) ==
    IF rec.sel # Null /\ intentExpiresAt(rec.sel) <= now
    THEN [rec EXCEPT !.sel = Null, !.secret = Null, !.selectedAt = Null]
    ELSE rec

\* cancelManaged(): the proof reaches the state file before the network.
CancelSigned(rec) == [rec EXCEPT !.cancel = TRUE]

MakerDecides(iOk, rStatus, reprice) ==
    LET branch == Branch(disk, IF iOk THEN iStateOf(disk) ELSE Null, rStatus,
                         reprice)
        rec == IF branch = "select" THEN Deselected(disk)
               ELSE IF branch = "giveUp" THEN CancelSigned(disk) ELSE disk
    IN  /\ pass.at = "read"
        /\ IF branch \in {"retire", "finish", "abort"} THEN retire ELSE persist(rec)
        /\ pass' = CASE branch \in {"create", "cancel", "lock"} -> At(branch)
                     [] branch = "fill" -> [At("fill") EXCEPT !.fill = rec.fill]
                     [] branch = "giveUp" -> At("cancel or gone")
                     [] branch = "select" ->
                            At(IF rec.sel = Null THEN "intents" ELSE "sign")
                     [] OTHER -> Idle
        /\ UNCHANGED <<now, up, drain, bookVars, net, published, minted,
                       chainVars, faults>>

\* The generated secret and the chosen proposal reach the disk first.
MakerSelects ==
    /\ pass.at = "intents"
    /\ book' = Swept(book)
    /\ \/ /\ Candidates = {}
          /\ pass' = Idle
          /\ UNCHANGED <<disk, minted>>
       \/ \E i \in Earliest :
             /\ minted < MaxSecrets
             /\ minted' = minted + 1
             /\ persist([disk EXCEPT !.sel = i, !.secret = minted + 1,
                                     !.selectedAt = now])
             /\ pass' = At("sign")
    /\ UNCHANGED <<now, up, drain, proposals, walked, net, published, chainVars,
                   faults>>

respondBy == IF now + ResponseWindow < Expiry THEN now + ResponseWindow ELSE Expiry

FillOf(rec) == [secret |-> rec.secret, intent |-> rec.sel,
                selectedAt |-> rec.selectedAt, respondBy |-> respondBy]

\* Mutated form, used to check that the properties can fail: the proof is
\* published from memory.
FillSigned_NotPersisted(rec) == rec

\* The exact fill reaches the disk before any network send.
FillSigned(rec) == [rec EXCEPT !.fill = FillOf(rec)]

MakerSigns ==
    /\ pass.at = "sign"
    /\ \/ /\ now >= intentExpiresAt(disk.sel)
          /\ pass' = Idle
          /\ UNCHANGED disk
       \/ /\ now < intentExpiresAt(disk.sel)
          /\ respondBy - now < MinResponse
          /\ persist(CancelSigned(disk))
          /\ pass' = At("cancel")
       \/ /\ now < intentExpiresAt(disk.sel)
          /\ respondBy - now >= MinResponse
          /\ persist(FillSigned(disk))
          /\ pass' = [At("fill") EXCEPT !.fill = FillOf(disk)]
    /\ UNCHANGED <<now, up, drain, bookVars, net, published, minted, chainVars,
                   faults>>
-----------------------------------------------------------------------------
(* The requests of a pass.  Answered, or given up on: then the request may *)
(* still be under way.                                                     *)

Request == CASE pass.at = "create" -> Create
             [] pass.at \in {"cancel", "cancel or gone"} -> Cancel
             [] pass.at = "fill" -> Fill(pass.fill)

Requesting == pass.at \in {"create", "cancel", "cancel or gone", "fill"}

PublishedWith(req) == IF req.kind = "create" THEN published ELSE published \cup {req}

\* The answer is a row; the record changes only if that row shows what was
\* asked for.  404 is OrderGoneError.
RequestAnswered ==
    LET row == Applied(Swept(book), Request) IN
    /\ Requesting
    /\ book' = row
    /\ published' = PublishedWith(Request)
    /\ pass' = Idle
    /\ CASE pass.at = "create" -> UNCHANGED disk
         [] pass.at = "fill" ->
               IF row.status = "locking" /\ row.fill = pass.fill
               THEN persist(Observed([disk EXCEPT !.fill = pass.fill], row))
               ELSE UNCHANGED disk
         [] OTHER ->
               IF \/ row.status = "cancelled" /\ row.cancelProof
                  \/ row.status = "absent" /\ pass.at = "cancel or gone"
               THEN retire
               ELSE UNCHANGED disk
    /\ UNCHANGED <<now, up, drain, proposals, walked, net, minted, chainVars, faults>>

RequestUnanswered ==
    /\ Requesting
    /\ faults < MaxFaults
    /\ faults' = faults + 1
    /\ net' = net \cup {Request}
    /\ published' = PublishedWith(Request)
    /\ pass' = Idle
    /\ UNCHANGED <<now, up, drain, disk, bookVars, minted, chainVars>>

\* The last walk-away check, the marker, the send.
MakerLocks(bookUp) ==
    LET row == Swept(book)
        seen == IF bookUp THEN Observed(disk, row) ELSE disk
        stop == \/ now >= disk.fill.respondBy
                \/ seen.releaseObserved
                \/ bookUp /\ disk.lockSentAt = Null /\ row.status # "locking"
        lock == [secret |-> disk.secret, timeout |-> disk.selectedAt + InitiatorWindow]
    IN  /\ pass.at = "lock"
        /\ pass' = Idle
        /\ book' = IF bookUp THEN row ELSE book
        /\ IF bookUp /\ ~Authentic(disk, row)
           THEN UNCHANGED <<disk, locks, faults>>
           ELSE IF stop
           THEN persist(seen) /\ UNCHANGED <<locks, faults>>
           ELSE /\ persist([seen EXCEPT !.lockSentAt = now])
                /\ \/ locks' = locks \cup {lock} /\ faults' = faults
                   \/ locks' = locks /\ faults < MaxFaults /\ faults' = faults + 1
        /\ UNCHANGED <<now, up, drain, proposals, walked, net, published, minted,
                       legs>>

\* Any other error, a refused write of the state file included, ends the
\* pass and leaves the record.
PassThrows ==
    /\ pass.at # "idle"
    /\ faults < MaxFaults
    /\ faults' = faults + 1
    /\ pass' = Idle
    /\ UNCHANGED <<now, up, drain, disk, bookVars, net, published, minted, chainVars>>

-----------------------------------------------------------------------------
(* The process, the chain and the clock.                                   *)

Crash ==
    /\ up
    /\ faults < MaxFaults
    /\ faults' = faults + 1
    /\ up' = FALSE
    /\ pass' = Idle
    /\ UNCHANGED <<now, drain, disk, bookVars, net, published, minted, chainVars>>

\* The operator stops the daemon between two passes and starts it draining.
StopForDrain ==
    /\ up /\ ~drain /\ pass.at = "idle"
    /\ up' = FALSE
    /\ drain' = TRUE
    /\ UNCHANGED <<now, disk, pass, bookVars, net, published, minted, chainVars,
                   faults>>

\* parseProtocol(): what the state file may say of the order.
Loadable(rec) ==
    rec # Null =>
        /\ ~(rec.fill # Null /\ rec.cancel)
        /\ rec.fill # Null => rec.sel # Null
        /\ rec.fillAcknowledged => rec.fill # Null
        /\ rec.releaseObserved => rec.fillAcknowledged
        /\ rec.sel # Null => rec.secret # Null
        /\ rec.fill # Null => rec.fill.secret = rec.secret
        /\ ~(rec.cancel /\ rec.sel # Null)

\* The constructor of StateFile refuses a record it cannot parse.
Restart ==
    /\ ~up
    /\ Loadable(disk)
    /\ up' = TRUE
    /\ UNCHANGED <<now, drain, disk, pass, bookVars, net, published, minted,
                   chainVars, faults>>

LockMines(l) ==
    /\ legs[l.secret] = "None"
    /\ now < l.timeout
    /\ legs' = [legs EXCEPT ![l.secret] = "Open"]
    /\ UNCHANGED <<now, up, drain, disk, pass, bookVars, net, published, minted,
                   locks, faults>>

\* How an escrow settles is AtomicSwap's subject.
LegSettles(l) ==
    /\ legs[l.secret] = "Open"
    /\ legs' = [legs EXCEPT ![l.secret] =
                    IF now < l.timeout THEN "Claimed" ELSE "Refunded"]
    /\ UNCHANGED <<now, up, drain, disk, pass, bookVars, net, published, minted,
                   locks, faults>>

Tick ==
    /\ now < MaxTime
    /\ BookBusy => Swept(book) = book
    /\ now' = now + 1
    /\ UNCHANGED <<up, drain, disk, pass, bookVars, net, published, minted,
                   chainVars, faults>>

-----------------------------------------------------------------------------

\* decide() tells no more of the taker's leg apart: it is unused, open or
\* settled.  Without a secret neither leg is read.
LegReads == IF disk # Null /\ disk.secret # Null
            THEN BOOLEAN \X {"None", "Open", "Claimed"} ELSE {<<FALSE, "None">>}

\* The drift of the mid matters to an open listing only.
Drifts == IF pass.view = "open" THEN BOOLEAN ELSE {FALSE}

Pass ==
    \/ MakerRetiresExpired
    \/ \E bookUp \in BOOLEAN : MakerReads(bookUp) \/ MakerLocks(bookUp)
    \/ \E read \in LegReads, reprice \in Drifts :
          MakerDecides(read[1], read[2], reprice)
    \/ MakerSelects \/ MakerSigns \/ RequestAnswered

Next ==
    \/ Pass \/ RequestUnanswered \/ PassThrows
    \/ Crash \/ StopForDrain \/ Restart
    \/ \E req \in net : Delivered(req)
    \/ BookSweeps
    \/ \E i \in Intents : SubmitIntent(i) \/ TakerWalksAway(i)
    \/ \E l \in locks : LockMines(l) \/ LegSettles(l)
    \/ Tick

Spec == Init /\ [][Next]_vars

\* A supervisor restarts the daemon, ticks keep coming, outages of the book
\* and of the nodes end, and a read finds the taker's leg unused once nothing
\* was locked for it.  A request given up on need never arrive.
FairSpec ==
    /\ Spec
    /\ WF_vars(Tick) /\ WF_vars(Restart) /\ WF_vars(BookSweeps)
    /\ WF_vars(MakerRetiresExpired) /\ SF_vars(MakerReads(TRUE))
    /\ WF_vars(pass.at = "read" /\ Pass)
    /\ SF_vars(/\ pass.at = "read" /\ pass.view # "unavailable"
               /\ <<TRUE, "None">> \in LegReads
               /\ MakerDecides(TRUE, "None", FALSE))
    /\ WF_vars(MakerSelects) /\ WF_vars(MakerSigns)
    /\ WF_vars(\E bookUp \in BOOLEAN : MakerLocks(bookUp))
    /\ WF_vars(RequestAnswered)

-----------------------------------------------------------------------------
(* Properties.                                                             *)

\* Whatever crashes, timeouts and late deliveries happen, at most one terminal
\* artifact of the order ever leaves the process: one exact fill or the
\* cancellation.  Two of them are what the book records as equivocation
\* (index.ts, "never sign the opposite terminal action").
OneTerminalDecision == Cardinality(published) <= 1

\* A row takers can propose to is one the daemon still manages: a record is
\* never retired while its listing is, or can again become, open
\* (index.ts, the "ghost row" of a failed reprice cancel).
NoGhostListing ==
    disk = Null =>
        /\ Swept(book).status # "open"
        /\ \A req \in net : Applied(Swept(book), req).status # "open"

\* As long as an escrow funded by the daemon is open, or its transaction can
\* still be mined, the state file holds the secret and terms that settle it.
SecretKept ==
    \A l \in locks :
        legs[l.secret] = "Open" \/ (legs[l.secret] = "None" /\ now < l.timeout)
            => /\ disk # Null /\ disk.secret = l.secret
               /\ disk.selectedAt + InitiatorWindow = l.timeout

\* A fill that was signed is settled one way or the other: the daemon ends up
\* funding it or drops the record; it never waits on it forever.
FillResolves ==
    disk # Null /\ disk.fill # Null
        ~> disk = Null \/ disk.lockSentAt # Null

=============================================================================
