----------------------------- MODULE AtomicSwap -----------------------------
(***************************************************************************)
(* One matched swap, from the published fill to the end: the two escrow    *)
(* legs, the maker daemon (marketmaker/src/index.ts, policy.ts) and the    *)
(* scripted taker (taker.ts, taker-policy.ts), each either honest, running *)
(* that code, or hostile, calling the contracts as it likes.               *)
(*                                                                         *)
(* A leg is the escrow record under the swap's hashlock with the           *)
(* transitions that AtomicEscrow gives it (HTLCv3 is shown to implement    *)
(* them).  `head` is what getSwapState reads, `deep` what                  *)
(* getConfirmedSwapState reads; a reorganisation takes head back to deep.  *)
(* Transactions of the honest parties are broadcast, and mined later,      *)
(* again after a reorganisation, or never.                                 *)
(*                                                                         *)
(* A pass of either program reads, decides, and then acts.  The two halves *)
(* are separate steps: time, the chains and the book move in between, and  *)
(* a crash keeps only what was persisted.                                  *)
(***************************************************************************)
EXTENDS Integers, FiniteSets

CONSTANTS
    Null, Nobody,
    Casts,              \* who takes part in the swap, and on which terms:
                        \*   honest   which of {"maker", "taker"} run the code
                        \*   t1, t2   the signed initiator, responder timeouts
                        \*   locks    what a hostile party may lock: [by, leg,
                        \*            to, token, amount, timeout]
    RespondBy,          \* the signed fill's response deadline
    ResendAfter,
    MakerClaimSafety, TakerClaimSafety,
    LockGrace, SponsorClaims, SponsorMargin,
    LockRunway, SubmitMargin,
    MaxCreditAttempts, CreditParkAfter, CreditRetryCap,
    Final,              \* a broadcast claim is irreversible within this time
    MaxReorgs,          \* bound on reorganisations
    MaxFaults           \* bound on crashes and lost sends

\* The ordering the book enforces on signed fills, the taker's start-up
\* check (with room for one retry per fault or reorg), and the finality
\* policy's hard client invariant: a claim goes out early enough to become
\* irreversible.
ASSUME TimingAssumption ==
    /\ {RespondBy, ResendAfter, MakerClaimSafety, TakerClaimSafety,
        LockGrace, SponsorMargin, LockRunway, SubmitMargin, Final,
        MaxReorgs, MaxFaults} \subseteq Nat
    /\ \A c \in Casts : /\ c.t1 \in Nat /\ c.t2 \in Nat
                       /\ c.t1 >= 2 * c.t2 /\ c.t1 > ResendAfter
    /\ SubmitMargin + MaxReorgs + MaxFaults * (ResendAfter + 1) < TakerClaimSafety
    /\ Final <= SubmitMargin
    /\ Final <= MakerClaimSafety

ASSUME PartyAssumption ==
    /\ SponsorClaims \in BOOLEAN
    /\ Null \notin Int
    /\ \A c \in Casts :
         /\ c.honest \subseteq {"maker", "taker"}
         /\ c.locks \subseteq
              [by : {"maker", "taker", "third"} \ c.honest, leg : {"i", "r"},
               to : {"maker", "taker", "third", Nobody}, token : {"agreed", "other"},
               amount : {"agreed", "other"}, timeout : Nat]

M == INSTANCE MakerPolicy WITH ClaimSafety <- MakerClaimSafety
T == INSTANCE TakerPolicy WITH ClaimSafety <- TakerClaimSafety

Legs == {"i", "r"}
Parties == {"maker", "taker", "third"}
Statuses == {"None", "Open", "Claimed", "Refunded"}

\* What getSwap may return of a leg.
Escrows == [status : Statuses,
            initiator : Parties \cup {Nobody}, recipient : Parties \cup {Nobody},
            token : {"agreed", "other"}, amount : {"agreed", "other"},
            timeout : Nat, revealed : BOOLEAN]

ASSUME NullAssumption ==
    /\ Nobody \notin Parties
    /\ Null \notin Escrows
    /\ Null \notin [initiatorTimeout : Nat, responderTimeout : Nat]
    /\ Null \notin {"claimed", "refunded", "uneven", "aborted", "released", "known"}

VARIABLES
    cast,      \* the cast of this swap, which never changes
    now,       \* wall clock and block time
    head,      \* each leg at the chain head
    deep,      \* each leg at confirmation depth
    sent,      \* transactions the honest parties have broadcast
    secret,    \* "private" or "public": who can know the preimage
    walked,    \* the book shows the take as released
    maker,     \* the maker's persisted record and what it is doing
    taker,     \* the taker's persisted record and what it is doing
    polled,    \* the honest taker has read the chains in this time unit
    reorgs,
    faults

vars == <<cast, now, head, deep, sent, secret, walked, maker, taker, polled,
          reorgs, faults>>
chainVars == <<head, deep, sent, secret>>

Honest == cast.honest
Hostile == Parties \ Honest
T1 == cast.t1
T2 == cast.t2

\* The clock is bounded by the last deadline.
MaxTime == T1
Times == 0 .. MaxTime

NoEscrow == [status |-> "None", initiator |-> Nobody, recipient |-> Nobody,
             token |-> "agreed", amount |-> "agreed", timeout |-> 0,
             revealed |-> FALSE]

Escrow(by, to, token, amount, timeout) ==
    [status |-> "Open", initiator |-> by, recipient |-> to, token |-> token,
     amount |-> amount, timeout |-> timeout, revealed |-> FALSE]

\* What the signed order and fill say each leg must hold.
Agreed(leg) == IF leg = "i" THEN Escrow("maker", "taker", "agreed", "agreed", T1)
                            ELSE Escrow("taker", "maker", "agreed", "agreed", T2)

Plan(leg) == [recipient |-> Agreed(leg).recipient, token |-> "agreed",
              amount |-> "agreed"]

\* The fill has been published, acknowledged and persisted on both sides.
Init ==
    /\ cast \in Casts
    /\ now = 0
    /\ head = [l \in Legs |-> NoEscrow]
    /\ deep = [l \in Legs |-> NoEscrow]
    /\ sent = {}
    /\ secret = "private"
    /\ walked = FALSE
    /\ maker = [tracked |-> TRUE, doing |-> "none", releaseObserved |-> FALSE,
                lockSentAt |-> Null, claimSentAt |-> Null,
                sponsorSentAt |-> Null, refundSentAt |-> Null]
    /\ taker = [outcome |-> Null, doing |-> "none", releasedAt |-> Null,
                releaseObserved |-> FALSE, lockSentAt |-> Null,
                claimSentAt |-> Null, refundSentAt |-> Null]
    /\ polled = FALSE
    /\ reorgs = 0
    /\ faults = 0

-----------------------------------------------------------------------------
(* The legs.                                                               *)

CanLock(l, timeout) == head[l].status = "None" /\ timeout > now
CanClaim(l) == /\ head[l].status = "Open"
               /\ head[l].recipient # Nobody
               /\ now < head[l].timeout
CanRefund(l) == head[l].status = "Open" /\ now >= head[l].timeout

Claimed(l) == [head EXCEPT ![l].status = "Claimed", ![l].revealed = TRUE]
Refunded(l) == [head EXCEPT ![l].status = "Refunded"]

Tx(by, op, leg, at) == [by |-> by, op |-> op, leg |-> leg, at |-> at]

\* A transaction of an honest party is included in a block.
Mine(tx) ==
    /\ \/ /\ tx.op = "lock"
          /\ CanLock(tx.leg, Agreed(tx.leg).timeout)
          /\ head' = [head EXCEPT ![tx.leg] = Agreed(tx.leg)]
       \/ tx.op = "claim" /\ CanClaim(tx.leg) /\ head' = Claimed(tx.leg)
       \/ tx.op = "refund" /\ CanRefund(tx.leg) /\ head' = Refunded(tx.leg)
    /\ UNCHANGED <<now, deep, sent, secret, walked, maker, taker, polled,
                   reorgs, faults>>

Confirm(l) ==
    /\ deep[l] # head[l]
    /\ deep' = [deep EXCEPT ![l] = head[l]]
    /\ UNCHANGED <<now, head, sent, secret, walked, maker, taker, polled,
                   reorgs, faults>>

\* A claim of an honest party that has had `Final` time units.
FinalClaim(l) ==
    \E tx \in sent : tx.op = "claim" /\ tx.leg = l /\ now >= tx.at + Final

\* Blocks above the confirmation depth are replaced.
Reorg(l) ==
    /\ reorgs < MaxReorgs
    /\ deep[l] # head[l]
    /\ ~(head[l].status = "Claimed" /\ FinalClaim(l))
    /\ head' = [head EXCEPT ![l] = deep[l]]
    /\ reorgs' = reorgs + 1
    /\ UNCHANGED <<now, deep, sent, secret, walked, maker, taker, polled, faults>>

-----------------------------------------------------------------------------
(* Hostile parties, and third parties: the hashlock is public, so anyone   *)
(* may lock under it first.                                                *)

HostileLock(e) ==
    /\ CanLock(e.leg, e.timeout)
    /\ head' = [head EXCEPT ![e.leg] =
                    Escrow(e.by, e.to, e.token, e.amount, e.timeout)]
    /\ UNCHANGED <<now, deep, sent, secret, walked, maker, taker, polled,
                   reorgs, faults>>

HostileAssign(l) ==
    /\ head[l].status = "Open"
    /\ head[l].initiator \in Hostile
    /\ head[l].recipient = Nobody
    /\ now < head[l].timeout
    /\ \E to \in {"maker", "taker"} : head' = [head EXCEPT ![l].recipient = to]
    /\ UNCHANGED <<now, deep, sent, secret, walked, maker, taker, polled,
                   reorgs, faults>>

HostileClaim(l) ==
    /\ secret = "public" \/ "maker" \in Hostile
    /\ CanClaim(l)
    /\ head' = Claimed(l)
    /\ secret' = "public"
    /\ UNCHANGED <<now, deep, sent, walked, maker, taker, polled, reorgs, faults>>

\* refund() is open to anyone; release() to the initiator of an unassigned
\* escrow.
HostileRefund(l) ==
    /\ \/ CanRefund(l)
       \/ /\ head[l].status = "Open"
          /\ head[l].recipient = Nobody
          /\ head[l].initiator \in Hostile
    /\ head' = Refunded(l)
    /\ UNCHANGED <<now, deep, sent, secret, walked, maker, taker, polled,
                   reorgs, faults>>

HostileWalkAway ==
    /\ "taker" \in Hostile
    /\ ~walked
    /\ walked' = TRUE
    /\ UNCHANGED <<now, chainVars, maker, taker, polled, reorgs, faults>>

-----------------------------------------------------------------------------
(* The maker daemon.                                                       *)

\* Mutated form, used to check that the properties can fail: the trust gate
\* reads the head.
getConfirmedSwapState_AtHead(l) == head[l]

getSwapState(l) == head[l]
getConfirmedSwapState(l) == deep[l]

\* A read returns the leg's state, or null when the RPC fails.
legStateOrNull(s, ok) == IF ok THEN s ELSE Null

\* What a send marker records.
nowS == now

fillResponseExpired == now >= RespondBy

MakerInput(iState, rState, rConfirmed, bookUp) ==
    [bookStatus |-> "locking",
     released |-> (bookUp /\ walked) \/ fillResponseExpired,
     managed |-> [preimage |-> "known", hashlock |-> "known",
                  initiatorTimeout |-> T1, responderTimeout |-> T2,
                  announcedAt |-> 0, fillAcknowledged |-> TRUE,
                  releaseObserved |-> maker.releaseObserved,
                  lockSentAt |-> maker.lockSentAt,
                  claimSentAt |-> maker.claimSentAt,
                  sponsorSentAt |-> maker.sponsorSentAt,
                  refundSentAt |-> maker.refundSentAt,
                  withdrawSentAt |-> Null, withdrawAttempts |-> 0,
                  withdrawFirstRejectedAt |-> Null,
                  pushSentAt |-> Null, pushAttempts |-> 0,
                  pushFirstRejectedAt |-> Null],
     iState |-> iState, rState |-> rState, rConfirmed |-> rConfirmed,
     expectedRecipient |-> "maker", expectedToken |-> "agreed",
     expectedAmount |-> "agreed", ourInitiator |-> "maker",
     takerOnInitiatorLeg |-> "taker", nowS |-> now,
     ourResponderCredit |-> 0, ourInitiatorCredit |-> 0, takerCredit |-> 0]

MakerIdle == "maker" \in Honest /\ maker.tracked /\ maker.doing = "none"

\* advance(): read the book and the legs, persist a release that was seen,
\* decide.  Retiring the record is part of the pass.
MakerPasses(iOk, rOk, cOk, bookUp) ==
    LET x == MakerInput(legStateOrNull(getSwapState("i"), iOk),
                        legStateOrNull(getSwapState("r"), rOk),
                        legStateOrNull(getConfirmedSwapState("r"), cOk), bookUp)
        decision == M!decide(x)
    IN  /\ MakerIdle
        /\ maker' = [maker EXCEPT
              !.releaseObserved = @ \/ (bookUp /\ walked),
              !.doing = IF decision \in {"lock", "claim", "sponsor", "refund"}
                        THEN decision ELSE "none",
              !.tracked = decision \notin {"finish", "abort"}]
        /\ UNCHANGED <<now, chainVars, walked, taker, polled, reorgs, faults>>

\* The pass goes wrong between the decision and the broadcast: a crash, or
\* a send that throws.
Broadcast(tx) ==
    \/ sent' = sent \cup {tx} /\ faults' = faults
    \/ sent' = sent /\ faults < MaxFaults /\ faults' = faults + 1

\* The final walk-away check against a fresh read of the book, the marker,
\* the send.
MakerLocks(bookUp) ==
    LET stop == \/ fillResponseExpired
                \/ maker.releaseObserved
                \/ bookUp /\ walked
    IN  /\ maker.doing = "lock"
        /\ maker' = [maker EXCEPT
              !.doing = "none",
              !.releaseObserved = @ \/ (bookUp /\ walked),
              !.lockSentAt = IF stop THEN @ ELSE nowS]
        /\ IF stop THEN UNCHANGED <<sent, faults>>
                   ELSE Broadcast(Tx("maker", "lock", "i", 0))
        /\ UNCHANGED <<now, head, deep, secret, walked, taker, polled, reorgs>>

\* The simulation at the head and the cutoff on the escrow's own deadline,
\* read again just before the secret goes out.
PreflightPasses(l, margin) ==
    CanClaim(l) /\ now < head[l].timeout - margin

MakerClaims ==
    /\ maker.doing = "claim"
    /\ IF PreflightPasses("r", MakerClaimSafety)
       THEN /\ maker' = [maker EXCEPT !.doing = "none", !.claimSentAt = nowS]
            /\ Broadcast(Tx("maker", "claim", "r", now))
            /\ secret' = IF sent' = sent THEN secret ELSE "public"
       ELSE /\ maker' = [maker EXCEPT !.doing = "none"]
            /\ UNCHANGED <<sent, faults, secret>>
    /\ UNCHANGED <<now, head, deep, walked, taker, polled, reorgs>>

\* A courtesy claim of the maker's own lock for the taker.
MakerSponsors ==
    /\ maker.doing = "sponsor"
    /\ maker' = [maker EXCEPT !.doing = "none", !.sponsorSentAt = nowS]
    /\ IF PreflightPasses("i", SponsorMargin)
       THEN Broadcast(Tx("maker", "claim", "i", now))
       ELSE UNCHANGED <<sent, faults>>
    /\ UNCHANGED <<now, head, deep, secret, walked, taker, polled, reorgs>>

MakerRefunds ==
    /\ maker.doing = "refund"
    /\ maker' = [maker EXCEPT !.doing = "none", !.refundSentAt = nowS]
    /\ Broadcast(Tx("maker", "refund", "i", 0))
    /\ UNCHANGED <<now, head, deep, secret, walked, taker, polled, reorgs>>

\* Restart: everything but the record is gone.
MakerCrashes ==
    /\ maker.doing # "none"
    /\ faults < MaxFaults
    /\ faults' = faults + 1
    /\ maker' = [maker EXCEPT !.doing = "none"]
    /\ UNCHANGED <<now, chainVars, walked, taker, polled, reorgs>>

-----------------------------------------------------------------------------
(* The scripted taker.                                                     *)

TakerInput(iState, iConfirmed, rState, bookUp, abandon) ==
    [bookStatus |-> "locking",
     released |-> taker.releaseObserved \/ (bookUp /\ walked),
     cancelled |-> FALSE, prelocked |-> FALSE,
     fill |-> [initiatorTimeout |-> T1, responderTimeout |-> T2],
     record |-> [fillAcknowledged |-> TRUE, intentSubmittedAt |-> 0,
                 releaseSentAt |-> taker.releasedAt,
                 lockSentAt |-> taker.lockSentAt,
                 claimSentAt |-> taker.claimSentAt,
                 refundSentAt |-> taker.refundSentAt,
                 withdrawSentAt |-> Null],
     plans |-> [initiator |-> Plan("i"), responder |-> Plan("r")],
     iState |-> iState, iConfirmed |-> iConfirmed, rState |-> rState,
     ourResponderAddress |-> "taker", intentPending |-> Null,
     abandonRequested |-> abandon, nowS |-> now,
     initiatorCredit |-> 0, responderCredit |-> 0]

TakerIdle == "taker" \in Honest /\ taker.outcome = Null /\ taker.doing = "none"

\* The outcome settle() records for a finished take.
FinishedAs(iStatus, rStatus) ==
    IF iStatus = "Claimed" THEN IF rStatus = "Refunded" THEN "uneven" ELSE "claimed"
    ELSE IF rStatus = "Refunded" THEN "refunded" ELSE "uneven"

\* step(): read, observe a release, decide.  Settling the record is part of
\* the pass.
TakerPasses(iOk, cOk, rOk, bookUp, abandon) ==
    LET x == TakerInput(legStateOrNull(getSwapState("i"), iOk),
                        legStateOrNull(getConfirmedSwapState("i"), cOk),
                        legStateOrNull(getSwapState("r"), rOk), bookUp, abandon)
        decision == T!decideTaker(x)
    IN  /\ TakerIdle
        /\ taker' = [taker EXCEPT
              !.releaseObserved = @ \/ (bookUp /\ walked),
              !.doing = IF decision \in {"lock", "claim", "refund", "release"}
                        THEN decision ELSE "none",
              !.outcome = CASE decision = "finish" ->
                                 FinishedAs(head["i"].status, head["r"].status)
                            [] decision = "abort" -> "aborted"
                            [] OTHER -> Null]
        /\ polled' = (polled \/ (iOk /\ cOk /\ rOk))
        /\ UNCHANGED <<now, chainVars, walked, maker, reorgs, faults>>

TakerLocks ==
    /\ taker.doing = "lock"
    /\ taker' = [taker EXCEPT !.doing = "none", !.lockSentAt = nowS]
    /\ Broadcast(Tx("taker", "lock", "r", 0))
    /\ UNCHANGED <<now, head, deep, secret, walked, maker, polled, reorgs>>

TakerClaims ==
    /\ taker.doing = "claim"
    /\ IF PreflightPasses("i", SubmitMargin)
       THEN /\ taker' = [taker EXCEPT !.doing = "none", !.claimSentAt = nowS]
            /\ Broadcast(Tx("taker", "claim", "i", now))
       ELSE /\ taker' = [taker EXCEPT !.doing = "none"]
            /\ UNCHANGED <<sent, faults>>
    /\ UNCHANGED <<now, head, deep, secret, walked, maker, polled, reorgs>>

TakerRefunds ==
    /\ taker.doing = "refund"
    /\ taker' = [taker EXCEPT !.doing = "none", !.refundSentAt = nowS]
    /\ Broadcast(Tx("taker", "refund", "r", 0))
    /\ UNCHANGED <<now, head, deep, secret, walked, maker, polled, reorgs>>

\* release(): the walk-away is persisted, published, and the take settled.
\* A publication that throws leaves the persisted half.
TakerReleases ==
    /\ taker.doing = "release"
    /\ \/ /\ walked' = TRUE
          /\ taker' = [taker EXCEPT !.doing = "none", !.releasedAt = nowS,
                                    !.releaseObserved = TRUE,
                                    !.outcome = "released"]
          /\ UNCHANGED faults
       \/ /\ faults < MaxFaults
          /\ faults' = faults + 1
          /\ taker' = [taker EXCEPT !.doing = "none", !.releasedAt = nowS,
                                    !.releaseObserved = TRUE]
          /\ UNCHANGED walked
    /\ UNCHANGED <<now, chainVars, maker, polled, reorgs>>

TakerCrashes ==
    /\ taker.doing # "none"
    /\ faults < MaxFaults
    /\ faults' = faults + 1
    /\ taker' = [taker EXCEPT !.doing = "none"]
    /\ UNCHANGED <<now, chainVars, walked, maker, polled, reorgs>>

-----------------------------------------------------------------------------
(* Time.                                                                   *)

\* A claim whose finality time is up is in a block, unless the contract
\* would refuse it.
ClaimsKeepUp ==
    \A tx \in sent : tx.op = "claim" /\ now >= tx.at + Final => ~CanClaim(tx.leg)

\* The taker makes one complete pass with working reads per time unit, and
\* a claim it decided on goes out in the same unit.
TakerKeepsUp ==
    TakerIdle \/ taker.doing # "none" => polled /\ taker.doing # "claim"

Tick ==
    /\ now < MaxTime
    /\ ClaimsKeepUp
    /\ TakerKeepsUp
    /\ now' = now + 1
    /\ polled' = FALSE
    /\ UNCHANGED <<chainVars, walked, maker, taker, reorgs, faults>>

\* At the bound of the clock every deadline has passed and only the age of
\* the send markers still matters: each becomes as old as it can be.
Aged(marker) == IF marker = Null THEN Null ELSE 0

Later ==
    /\ now = MaxTime
    /\ maker' = [maker EXCEPT !.lockSentAt = Aged(@), !.claimSentAt = Aged(@),
                              !.sponsorSentAt = Aged(@), !.refundSentAt = Aged(@)]
    /\ taker' = [taker EXCEPT !.lockSentAt = Aged(@), !.claimSentAt = Aged(@),
                              !.refundSentAt = Aged(@)]
    /\ UNCHANGED <<now, chainVars, walked, polled, reorgs, faults>>

-----------------------------------------------------------------------------

\* Before a walk-away the book has nothing to tell.
BookReads == IF walked THEN BOOLEAN ELSE {TRUE}

MakerActs ==
    \/ \E bookUp \in BookReads : MakerLocks(bookUp)
    \/ MakerClaims \/ MakerSponsors \/ MakerRefunds

TakerActs == TakerLocks \/ TakerClaims \/ TakerRefunds \/ TakerReleases

HostileActs ==
    \/ \E e \in cast.locks : HostileLock(e)
    \/ \E l \in Legs : HostileAssign(l) \/ HostileClaim(l) \/ HostileRefund(l)
    \/ HostileWalkAway

Step ==
    \/ \E tx \in sent : Mine(tx)
    \/ \E l \in Legs : Confirm(l) \/ Reorg(l)
    \/ \E a, b, c \in BOOLEAN, bookUp \in BookReads : MakerPasses(a, b, c, bookUp)
    \/ \E a, b, c, abandon \in BOOLEAN, bookUp \in BookReads :
          TakerPasses(a, b, c, bookUp, abandon)
    \/ MakerActs \/ MakerCrashes
    \/ TakerActs \/ TakerCrashes
    \/ HostileActs
    \/ Tick \/ Later

Next == Step /\ UNCHANGED cast

Spec == Init /\ [][Next]_vars

-----------------------------------------------------------------------------
(* Properties.                                                             *)

\* An escrow on a leg is the one its honest funder made.
Funded(s, leg) == s.initiator = Agreed(leg).initiator /\ s.status # "None"

\* The leg has paid its agreed amount to p.
PaidTo(s, p) == /\ s.status = "Claimed"
                /\ s.recipient = p
                /\ s.token = "agreed"
                /\ s.amount = "agreed"

\* A claim already broadcast will still be accepted.
ClaimOnItsWay(p, l) ==
    /\ head[l].status = "Open"
    /\ head[l].recipient = p
    /\ head[l].token = "agreed" /\ head[l].amount = "agreed"
    /\ \E tx \in sent : /\ tx.op = "claim" /\ tx.leg = l
                        /\ now < head[l].timeout
                        /\ now <= tx.at + Final

(* An honest maker never pays without being paid: once its own escrow has  *)
(* been claimed, the taker's escrow has paid it the agreed asset and       *)
(* amount, or its broadcast claim is still good, whatever the taker locks, *)
(* when the chains reorganise and when the daemon crashes.                 *)
MakerNotShorted ==
    ("maker" \in Honest /\ Funded(head["i"], "i") /\ head["i"].status = "Claimed")
        => PaidTo(head["r"], "maker") \/ ClaimOnItsWay("maker", "r")

(* An honest taker never pays without being able to collect: once its own  *)
(* escrow has been claimed, the maker's escrow has paid it, or a claim is  *)
(* on its way, or the claim window is still open for its next pass.        *)
TakerNotShorted ==
    (/\ "taker" \in Honest /\ taker.outcome = Null
     /\ Funded(head["r"], "r") /\ head["r"].status = "Claimed")
        => \/ PaidTo(head["i"], "taker")
           \/ ClaimOnItsWay("taker", "i")
           \/ /\ head["i"].status = "Open"
              /\ head["i"].recipient = "taker"
              /\ head["i"].token = "agreed" /\ head["i"].amount = "agreed"
              /\ now < head["i"].timeout - SubmitMargin

(* The record of a swap is only given up when nothing of its owner's is    *)
(* left on chain or can still get there: a retired maker has no open       *)
(* escrow and no lock that could still be mined, and neither has a retired *)
(* taker.                                                                  *)
RetiredLeavesNothing ==
    \A p \in Honest : (IF p = "maker" THEN ~maker.tracked ELSE taker.outcome # Null)
        => LET leg == IF p = "maker" THEN "i" ELSE "r" IN
           /\ ~(head[leg].status = "Open" /\ head[leg].initiator = p)
           /\ ~\E tx \in sent : /\ tx.op = "lock" /\ tx.leg = leg
                                /\ CanLock(leg, Agreed(leg).timeout)

-----------------------------------------------------------------------------
(* Both programs are supervised and poll for ever, a broadcast transaction *)
(* that the contract accepts is mined in the end, and time passes.         *)

Fairness ==
    /\ WF_vars(MakerPasses(TRUE, TRUE, TRUE, TRUE) /\ UNCHANGED cast)
    /\ WF_vars(TakerPasses(TRUE, TRUE, TRUE, TRUE, FALSE) /\ UNCHANGED cast)
    /\ WF_vars(MakerActs /\ UNCHANGED cast)
    /\ WF_vars(TakerActs /\ UNCHANGED cast)
    /\ WF_vars((\E tx \in sent : Mine(tx)) /\ UNCHANGED cast)
    /\ WF_vars(Tick /\ UNCHANGED cast) /\ WF_vars(Later /\ UNCHANGED cast)
    /\ \A l \in Legs : WF_vars(Confirm(l) /\ UNCHANGED cast)

FairSpec == Spec /\ Fairness

OwnEscrowOpen(p, l) == head[l].status = "Open" /\ head[l].initiator = p

(* No escrow of an honest party stays open: the swap completes or the      *)
(* funds come back, through lost sends, crashes and failing reads.         *)
EscrowsSettle ==
    /\ "maker" \in Honest => (OwnEscrowOpen("maker", "i") ~> ~OwnEscrowOpen("maker", "i"))
    /\ "taker" \in Honest => (OwnEscrowOpen("taker", "r") ~> ~OwnEscrowOpen("taker", "r"))

=============================================================================
