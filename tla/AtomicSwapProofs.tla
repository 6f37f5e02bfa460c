--------------------------- MODULE AtomicSwapProofs ---------------------------
(***************************************************************************)
(* Neither honest party of a swap pays without being paid, for all timings *)
(* that satisfy TimingAssumption and every choice of hostile escrows, with *)
(* any number of reorganisations, crashes and lost sends up to the bounds. *)
(***************************************************************************)
EXTENDS AtomicSwap, TLAPS

Txs == [by : {"maker", "taker"}, op : {"lock", "claim", "refund"}, leg : Legs,
        at : Nat]

Markers == Nat \cup {Null}

MakerRecords ==
    [tracked : BOOLEAN, doing : {"none", "lock", "claim", "sponsor", "refund"},
     releaseObserved : BOOLEAN, lockSentAt : Markers, claimSentAt : Markers,
     sponsorSentAt : Markers, refundSentAt : Markers]

TakerRecords ==
    [outcome : {Null, "claimed", "refunded", "uneven", "aborted", "released"},
     doing : {"none", "lock", "claim", "refund", "release"}, releasedAt : Markers,
     releaseObserved : BOOLEAN, lockSentAt : Markers, claimSentAt : Markers,
     refundSentAt : Markers]

TypeOK ==
    /\ cast \in Casts
    /\ now \in Nat
    /\ head \in [Legs -> Escrows] /\ deep \in [Legs -> Escrows]
    /\ sent \subseteq Txs
    /\ maker \in MakerRecords /\ taker \in TakerRecords
    /\ reorgs \in 0 .. MaxReorgs /\ faults \in 0 .. MaxFaults

-----------------------------------------------------------------------------
(* The chains: what is confirmed stays.                                    *)

\* h is the escrow d, perhaps assigned or settled since.
Continues(d, h) ==
    /\ h.status # "None"
    /\ h.initiator = d.initiator /\ h.token = d.token /\ h.amount = d.amount
    /\ h.timeout = d.timeout
    /\ d.recipient # Nobody => h.recipient = d.recipient

Confirmed(d, h) ==
    /\ d.status # "None" => Continues(d, h)
    /\ d.status \in {"Claimed", "Refunded"} => h = d

\* An escrow that has a payee is refunded after its timeout only.
RefundedLate(h) ==
    h.status = "Refunded" /\ h.recipient # Nobody => now >= h.timeout

\* A claim publishes the preimage.
Told(h) == h.status = "Claimed" => h.revealed

ChainsAgree ==
    \A l \in Legs : /\ Confirmed(deep[l], head[l]) /\ RefundedLate(head[l])
                    /\ Told(head[l]) /\ Told(deep[l])

-----------------------------------------------------------------------------
(* The maker.                                                              *)

\* The escrow s pays p what was agreed.
Pays(s, p) == s.recipient = p /\ s.token = "agreed" /\ s.amount = "agreed"

ClaimsOn(l) == {tx \in sent : tx.op = "claim" /\ tx.leg = l}

\* The maker funds an escrow's claim only after it is buried.
MakerTrusts ==
    maker.doing = "claim" => deep["r"].status # "None" /\ Pays(deep["r"], "maker")

\* The preimage is known to nobody before the maker's claim is out.
SecretOut ==
    \/ secret = "public"
    \/ \E l \in Legs : head[l].status = "Claimed" \/ head[l].revealed
                       \/ deep[l].status = "Claimed" \/ deep[l].revealed
    \/ \E tx \in sent : tx.op = "claim"
    \/ maker.doing = "sponsor" \/ taker.doing = "claim"

SecretHeld == SecretOut => ClaimsOn("r") # {}

\* The maker's claim collects: it was mined, or will be before the timeout.
MakerCollects ==
    ClaimsOn("r") # {} =>
        /\ deep["r"].status # "None" /\ Pays(deep["r"], "maker")
        /\ \A tx \in ClaimsOn("r") : tx.at + Final < head["r"].timeout
        /\ \/ head["r"].status = "Claimed"
           \/ /\ head["r"].status = "Open"
              /\ \E tx \in ClaimsOn("r") : now <= tx.at + Final

MakerInv == "maker" \in Honest => MakerTrusts /\ SecretHeld /\ MakerCollects

-----------------------------------------------------------------------------
(* The taker.                                                              *)

\* The maker's escrow, as the taker checked it before it funded its own.
Ample(s) == s.status # "None" /\ Pays(s, "taker") /\ s.timeout >= T2 + TakerClaimSafety

TakerLocked == \E tx \in sent : tx.op = "lock" /\ tx.leg = "r"

TakerTrusts == taker.doing = "lock" \/ TakerLocked => Ample(deep["i"])

\* An escrow of the taker on its leg is the one it sent.
OwnEscrow(s) ==
    s.status # "None" /\ s.initiator = "taker" => TakerLocked /\ s.timeout = T2

TakersOwn == OwnEscrow(head["r"]) /\ OwnEscrow(deep["r"])

TakerClaimsSent == {tx \in sent : tx.op = "claim" /\ tx.by = "taker"}

\* A claim marker without a claim stands for a send that was lost.
MarkerTold ==
    /\ \A tx \in sent : tx.at <= now
    /\ \A tx \in TakerClaimsSent : tx.leg = "i"
    /\ taker.claimSentAt # Null =>
          /\ taker.claimSentAt <= now
          /\ TakerClaimsSent = {} => faults >= 1

\* The last moment at which a claim can still be due: one unit is lost to a
\* reorganisation, one retry interval to a fault.
Spacing == ResendAfter + 1
DueBy == T2 + reorgs + faults * Spacing

\* The preimage is out and the taker has not claimed yet: it is in time, and
\* will be when it has polled.  A claim of somebody else that may be
\* reorganised away costs one more unit.
Latest == IF head["i"].status = "Claimed" THEN DueBy + 1 ELSE DueBy

Waiting ==
    /\ now <= Latest
    /\ polled /\ taker.doing # "claim" => now < Latest
    /\ taker.doing = "claim" => now <= DueBy
    /\ taker.claimSentAt # Null => taker.claimSentAt + Spacing <= DueBy

\* The taker has claimed, in time.
Claiming ==
    \E tx \in TakerClaimsSent :
        /\ tx.at <= DueBy
        /\ head["i"].status = "Open" => now <= DueBy \/ now <= tx.at + Final

\* The taker's escrow has paid the maker.
TakerPaid ==
    taker.outcome = Null /\ head["r"].status = "Claimed" /\ head["r"].initiator = "taker"

\* The maker's escrow is open for the taker's claim, or has been claimed.
Due == /\ head["i"].status \in {"Open", "Claimed"}
       /\ IF TakerClaimsSent = {} THEN Waiting ELSE Claiming

TakerCollects == TakerPaid => Due

TakerInv ==
    "taker" \in Honest => TakerTrusts /\ TakersOwn /\ MarkerTold /\ TakerCollects

-----------------------------------------------------------------------------
(* The retired records.                                                    *)

LockSent(l) == \E tx \in sent : tx.op = "lock" /\ tx.leg = l

\* Nothing of p's is left on its leg: it is over, taken by somebody else, or
\* was never funded.
Over(l, p) == \/ head[l].status \in {"Claimed", "Refunded"}
              \/ head[l].status # "None" /\ head[l].initiator # p
              \/ ~LockSent(l)

Sent(l, p) == head[l].status # "None" /\ head[l].initiator = p => LockSent(l)

MakerRetires ==
    /\ Sent("i", "maker")
    /\ maker.lockSentAt = Null => ~LockSent("i")
    /\ ~maker.tracked => maker.doing = "none" /\ Over("i", "maker")

TakerRetires ==
    /\ Sent("r", "taker")
    /\ taker.lockSentAt = Null => ~LockSent("r")
    /\ taker.doing = "release" => taker.lockSentAt = Null
    /\ taker.outcome # Null => taker.doing = "none" /\ Over("r", "taker")

RetiredInv == /\ "maker" \in Honest => MakerRetires
              /\ "taker" \in Honest => TakerRetires

-----------------------------------------------------------------------------
(* The constants and the cast.                                             *)

LEMMA ConstantFacts ==
    /\ RespondBy \in Nat /\ ResendAfter \in Nat /\ MakerClaimSafety \in Nat
    /\ TakerClaimSafety \in Nat /\ LockGrace \in Nat /\ SponsorMargin \in Nat
    /\ LockRunway \in Nat /\ SubmitMargin \in Nat /\ Final \in Nat
    /\ MaxReorgs \in Nat /\ MaxFaults \in Nat
    /\ Final <= SubmitMargin /\ Final <= MakerClaimSafety
BY TimingAssumption

LEMMA CastFacts ==
    ASSUME cast \in Casts
    PROVE  /\ T1 \in Nat /\ T2 \in Nat /\ T2 <= T1
           /\ Honest \subseteq {"maker", "taker"}
           /\ \A l \in Legs : Agreed(l) \in Escrows /\ Agreed(l).status = "Open"
           /\ Agreed("i").initiator = "maker" /\ Agreed("i").timeout = T1
           /\ Agreed("r").initiator = "taker" /\ Agreed("r").timeout = T2
           /\ NoEscrow \in Escrows
           /\ \A e \in cast.locks :
                 /\ e.by \notin Honest
                 /\ Escrow(e.by, e.to, e.token, e.amount, e.timeout) \in Escrows
<1>1. T1 \in Nat /\ T2 \in Nat /\ T2 <= T1
  BY TimingAssumption DEF T1, T2
<1>2. Honest \subseteq {"maker", "taker"}
  BY PartyAssumption DEF Honest
<1>3. \A l \in Legs : Agreed(l) \in Escrows /\ Agreed(l).status = "Open"
  BY <1>1 DEF Agreed, Escrow, Escrows, Parties, Statuses
<1>4. /\ Agreed("i").initiator = "maker" /\ Agreed("i").timeout = T1
      /\ Agreed("r").initiator = "taker" /\ Agreed("r").timeout = T2
  BY DEF Agreed, Escrow
<1>5. NoEscrow \in Escrows
  BY DEF NoEscrow, Escrows, Parties, Statuses
<1>6. ASSUME NEW e \in cast.locks
      PROVE  /\ e.by \notin Honest
             /\ Escrow(e.by, e.to, e.token, e.amount, e.timeout) \in Escrows
  <2>1. e \in [by : Parties \ cast.honest, leg : Legs,
                to : Parties \cup {Nobody}, token : {"agreed", "other"},
                amount : {"agreed", "other"}, timeout : Nat]
    BY PartyAssumption DEF Parties, Legs
  <2> QED BY <2>1 DEF Escrow, Escrows, Statuses, Honest
<1> QED BY <1>1, <1>2, <1>3, <1>4, <1>5, <1>6

-----------------------------------------------------------------------------
(* What a step does to a leg.                                              *)

Kept(l) == head'[l] = head[l] /\ deep'[l] = deep[l]

Locked(l) ==
    /\ head[l].status = "None" /\ deep'[l] = deep[l]
    /\ \/ /\ \E tx \in sent : tx.op = "lock" /\ tx.leg = l
          /\ head'[l] = Agreed(l)
       \/ \E e \in cast.locks :
             head'[l] = Escrow(e.by, e.to, e.token, e.amount, e.timeout)

Assigned(l) ==
    /\ head[l].status = "Open" /\ head[l].recipient = Nobody /\ deep'[l] = deep[l]
    /\ \E to \in {"maker", "taker"} : head'[l] = [head[l] EXCEPT !.recipient = to]

Collected(l) ==
    /\ CanClaim(l) /\ deep'[l] = deep[l]
    /\ head'[l] = [head[l] EXCEPT !.status = "Claimed", !.revealed = TRUE]
    /\ secret = "public" \/ "maker" \notin Honest \/ ClaimsOn(l) # {}

Returned(l) ==
    /\ head[l].status = "Open" /\ deep'[l] = deep[l]
    /\ now >= head[l].timeout \/ head[l].recipient = Nobody
    /\ head'[l] = [head[l] EXCEPT !.status = "Refunded"]

Buried(l) == head'[l] = head[l] /\ deep'[l] = head[l]

Replaced(l) ==
    /\ ~(head[l].status = "Claimed" /\ FinalClaim(l))
    /\ head'[l] = deep[l] /\ deep'[l] = deep[l]
    /\ reorgs' = reorgs + 1

Moves(l) == \/ Kept(l) \/ Locked(l) \/ Assigned(l) \/ Collected(l)
            \/ Returned(l) \/ Buried(l) \/ Replaced(l)

\* A block changes nothing that the programs hold.
Outside ==
    /\ UNCHANGED <<cast, now, sent, maker, taker, polled, faults>>
    /\ "maker" \in Honest => secret' = secret
    /\ reorgs' \in {reorgs, reorgs + 1} /\ reorgs' <= MaxReorgs

Block ==
    /\ Outside
    /\ head' \in [Legs -> Escrows] /\ deep' \in [Legs -> Escrows]
    /\ \A l \in Legs : Moves(l)

Chain ==
    \/ \E tx \in sent : Mine(tx)
    \/ \E l \in Legs : Confirm(l) \/ Reorg(l)
    \/ \E e \in cast.locks : HostileLock(e)
    \/ \E l \in Legs : HostileAssign(l) \/ HostileClaim(l) \/ HostileRefund(l)

\* One leg moves and the other stays.
LEMMA OneLegMoves ==
    ASSUME TypeOK, Outside, NEW l \in Legs, Moves(l), NEW s \in Escrows,
           \/ head' = [head EXCEPT ![l] = s] /\ deep' = deep
           \/ deep' = [deep EXCEPT ![l] = s] /\ head' = head
    PROVE  Block
<1>1. head' \in [Legs -> Escrows] /\ deep' \in [Legs -> Escrows]
  BY DEF TypeOK
<1>2. ASSUME NEW k \in Legs, k # l PROVE Kept(k)
  BY <1>2 DEF TypeOK, Kept
<1> QED BY <1>1, <1>2 DEF Moves, Block

\* A leg that is read and changed is an escrow.
LEMMA EscrowEdits ==
    ASSUME NEW s \in Escrows
    PROVE  /\ [s EXCEPT !.status = "Claimed", !.revealed = TRUE] \in Escrows
           /\ [s EXCEPT !.status = "Refunded"] \in Escrows
           /\ \A to \in {"maker", "taker"} : [s EXCEPT !.recipient = to] \in Escrows
BY DEF Escrows, Statuses, Parties

LEMMA HeadEdits ==
    ASSUME TypeOK, NEW l \in Legs
    PROVE  /\ Claimed(l) =
                [head EXCEPT ![l] = [head[l] EXCEPT !.status = "Claimed", !.revealed = TRUE]]
           /\ Refunded(l) = [head EXCEPT ![l] = [head[l] EXCEPT !.status = "Refunded"]]
<1>1. head \in [Legs -> Escrows]
  BY DEF TypeOK
<1>2. head[l] \in Escrows
  BY <1>1
<1> QED BY <1>1, <1>2 DEF Claimed, Refunded, Escrows

LEMMA ChainBlocks ==
    ASSUME TypeOK, Chain, cast' = cast
    PROVE  Block
<1> USE ConstantFacts, CastFacts
<1>t. /\ head \in [Legs -> Escrows] /\ deep \in [Legs -> Escrows]
      /\ \A l \in Legs : head[l] \in Escrows /\ deep[l] \in Escrows
      /\ cast \in Casts /\ sent \subseteq Txs /\ reorgs \in 0 .. MaxReorgs
  BY DEF TypeOK
<1>1. ASSUME NEW tx \in sent, Mine(tx)
      PROVE  Block
  <2>1. tx.leg \in Legs
    BY <1>t DEF Txs
  <2>u. deep' = deep
    BY <1>1 DEF Mine
  <2>o. Outside
    BY <1>1, <1>t DEF Mine, Outside
  <2>2. CASE tx.op = "lock" /\ head[tx.leg].status = "None"
             /\ head' = [head EXCEPT ![tx.leg] = Agreed(tx.leg)]
    <3>1. Locked(tx.leg)
      BY <2>1, <2>2, <2>u, <1>t DEF Locked
    <3>2. Moves(tx.leg)
      BY <3>1 DEF Moves
    <3> QED BY <3>2, <2>1, <2>2, <2>u, <2>o, <1>t, OneLegMoves
  <2>3. CASE tx.op = "claim" /\ CanClaim(tx.leg) /\ head' = Claimed(tx.leg)
    <3>1. head' = [head EXCEPT ![tx.leg] =
                     [head[tx.leg] EXCEPT !.status = "Claimed", !.revealed = TRUE]]
      BY <2>1, <2>3, HeadEdits
    <3>2. ClaimsOn(tx.leg) # {}
      BY <2>3 DEF ClaimsOn
    <3>3. Collected(tx.leg)
      BY <3>1, <3>2, <2>1, <2>3, <2>u, <1>t DEF Collected
    <3>4. [head[tx.leg] EXCEPT !.status = "Claimed", !.revealed = TRUE] \in Escrows
      BY <2>1, <1>t, EscrowEdits
    <3>5. Moves(tx.leg)
      BY <3>3 DEF Moves
    <3> QED BY <3>1, <3>4, <3>5, <2>1, <2>u, <2>o, <1>t, OneLegMoves
  <2>4. CASE tx.op = "refund" /\ CanRefund(tx.leg) /\ head' = Refunded(tx.leg)
    <3>1. head' = [head EXCEPT ![tx.leg] = [head[tx.leg] EXCEPT !.status = "Refunded"]]
      BY <2>1, <2>4, HeadEdits
    <3>2. Returned(tx.leg)
      BY <3>1, <2>1, <2>4, <2>u, <1>t DEF Returned, CanRefund
    <3>3. [head[tx.leg] EXCEPT !.status = "Refunded"] \in Escrows
      BY <2>1, <1>t, EscrowEdits
    <3>4. Moves(tx.leg)
      BY <3>2 DEF Moves
    <3> QED BY <3>1, <3>3, <3>4, <2>1, <2>u, <2>o, <1>t, OneLegMoves
  <2> QED BY <1>1, <2>2, <2>3, <2>4 DEF Mine, CanLock
<1>2. ASSUME NEW l \in Legs, Confirm(l)
      PROVE  Block
  <2>1. Buried(l)
    BY <1>2, <1>t DEF Confirm, Buried
  <2>2. /\ head' = head
        /\ deep' = [deep EXCEPT ![l] = head[l]]
    BY <1>2 DEF Confirm
  <2>o. Outside
    BY <1>2, <1>t DEF Confirm, Outside
  <2>m. Moves(l)
    BY <2>1 DEF Moves
  <2> QED BY <2>1, <2>2, <2>o, <2>m, <1>t, OneLegMoves
<1>3. ASSUME NEW l \in Legs, Reorg(l)
      PROVE  Block
  <2>1. Replaced(l)
    BY <1>3, <1>t DEF Reorg, Replaced
  <2>2. /\ deep' = deep
        /\ head' = [head EXCEPT ![l] = deep[l]]
    BY <1>3 DEF Reorg
  <2>o. Outside
    BY <1>3, <1>t DEF Reorg, Outside
  <2>m. Moves(l)
    BY <2>1 DEF Moves
  <2> QED BY <2>1, <2>2, <2>o, <2>m, <1>t, OneLegMoves
<1>4. ASSUME NEW e \in cast.locks, HostileLock(e)
      PROVE  Block
  <2>1. e.leg \in Legs
    BY <1>t, PartyAssumption DEF Legs
  <2>2. /\ deep' = deep
        /\ head' = [head EXCEPT ![e.leg] =
                        Escrow(e.by, e.to, e.token, e.amount, e.timeout)]
        /\ head[e.leg].status = "None"
    BY <1>4 DEF HostileLock, CanLock
  <2>3. Locked(e.leg)
    BY <2>1, <2>2, <1>t DEF Locked
  <2>4. Escrow(e.by, e.to, e.token, e.amount, e.timeout) \in Escrows
    BY <1>t
  <2>o. Outside
    BY <1>4, <1>t DEF HostileLock, Outside
  <2>m. Moves(e.leg)
    BY <2>3 DEF Moves
  <2> QED BY <2>1, <2>2, <2>3, <2>4, <2>o, <2>m, <1>t, OneLegMoves
<1>5. ASSUME NEW l \in Legs, HostileAssign(l)
      PROVE  Block
  <2>1. /\ deep' = deep
        /\ head[l].status = "Open" /\ head[l].recipient = Nobody
    BY <1>5 DEF HostileAssign
  <2>2. PICK to \in {"maker", "taker"} : head' = [head EXCEPT ![l].recipient = to]
    BY <1>5 DEF HostileAssign
  <2>3. head' = [head EXCEPT ![l] = [head[l] EXCEPT !.recipient = to]]
    BY <2>2, <1>t
  <2>4. [head[l] EXCEPT !.recipient = to] \in Escrows
    BY <1>t, EscrowEdits
  <2>5. Assigned(l)
    BY <2>1, <2>3, <1>t DEF Assigned
  <2>o. Outside
    BY <1>5, <1>t DEF HostileAssign, Outside
  <2>m. Moves(l)
    BY <2>5 DEF Moves
  <2> QED BY <2>1, <2>3, <2>4, <2>5, <2>o, <2>m, <1>t, OneLegMoves
<1>6. ASSUME NEW l \in Legs, HostileClaim(l)
      PROVE  Block
  <2>1. /\ deep' = deep
        /\ CanClaim(l) /\ head' = Claimed(l)
        /\ secret = "public" \/ "maker" \notin Honest
    BY <1>6 DEF HostileClaim, Hostile
  <2>2. head' = [head EXCEPT ![l] =
                   [head[l] EXCEPT !.status = "Claimed", !.revealed = TRUE]]
    BY <2>1, HeadEdits
  <2>3. [head[l] EXCEPT !.status = "Claimed", !.revealed = TRUE] \in Escrows
    BY <1>t, EscrowEdits
  <2>4. Collected(l)
    BY <2>1, <2>2, <1>t DEF Collected
  <2>o. Outside
    BY <1>6, <1>t DEF HostileClaim, Hostile, Outside
  <2>m. Moves(l)
    BY <2>4 DEF Moves
  <2> QED BY <2>1, <2>2, <2>3, <2>4, <2>o, <2>m, <1>t, OneLegMoves
<1>7. ASSUME NEW l \in Legs, HostileRefund(l)
      PROVE  Block
  <2>1. /\ deep' = deep
        /\ head[l].status = "Open" /\ head' = Refunded(l)
        /\ now >= head[l].timeout \/ head[l].recipient = Nobody
    BY <1>7 DEF HostileRefund, CanRefund
  <2>2. head' = [head EXCEPT ![l] = [head[l] EXCEPT !.status = "Refunded"]]
    BY <2>1, HeadEdits
  <2>3. [head[l] EXCEPT !.status = "Refunded"] \in Escrows
    BY <1>t, EscrowEdits
  <2>4. Returned(l)
    BY <2>1, <2>2, <1>t DEF Returned
  <2>o. Outside
    BY <1>7, <1>t DEF HostileRefund, Outside
  <2>m. Moves(l)
    BY <2>4 DEF Moves
  <2> QED BY <2>1, <2>2, <2>3, <2>4, <2>o, <2>m, <1>t, OneLegMoves
<1> QED BY <1>1, <1>2, <1>3, <1>4, <1>5, <1>6, <1>7 DEF Chain

-----------------------------------------------------------------------------
(* A block keeps the chains in agreement.                                  *)

LEMMA LegAgrees ==
    ASSUME NEW h \in Escrows, NEW d \in Escrows, NEW h1 \in Escrows,
           Confirmed(d, h), Told(h), Told(d)
    PROVE  /\ h.status = "None" /\ h1.status = "Open"
                => Confirmed(d, h1) /\ Told(h1)
           /\ \A to \in {"maker", "taker"} :
                h.status = "Open" /\ h.recipient = Nobody /\ h1 = [h EXCEPT !.recipient = to]
                => Confirmed(d, h1) /\ Told(h1)
           /\ h.status = "Open" /\ h1 = [h EXCEPT !.status = "Claimed", !.revealed = TRUE]
                => Confirmed(d, h1) /\ Told(h1)
           /\ h.status = "Open" /\ h1 = [h EXCEPT !.status = "Refunded"]
                => Confirmed(d, h1) /\ Told(h1)
           /\ Confirmed(h, h) /\ Confirmed(d, d)
<1>1. h.status = "None" => d.status = "None"
  BY DEF Confirmed, Continues, Escrows, Statuses
<1>2. h.status = "None" /\ h1.status = "Open" => Confirmed(d, h1) /\ Told(h1)
  BY <1>1 DEF Confirmed, Told
<1>3. ASSUME NEW to \in {"maker", "taker"}, h.status = "Open", h.recipient = Nobody,
             h1 = [h EXCEPT !.recipient = to]
      PROVE  Confirmed(d, h1) /\ Told(h1)
  BY <1>3 DEF Confirmed, Continues, Told, Escrows
<1>4. ASSUME h.status = "Open", h1 = [h EXCEPT !.status = "Claimed", !.revealed = TRUE]
      PROVE  Confirmed(d, h1) /\ Told(h1)
  BY <1>4 DEF Confirmed, Continues, Told, Escrows
<1>5. ASSUME h.status = "Open", h1 = [h EXCEPT !.status = "Refunded"]
      PROVE  Confirmed(d, h1) /\ Told(h1)
  BY <1>5 DEF Confirmed, Continues, Told, Escrows
<1>6. Confirmed(h, h) /\ Confirmed(d, d)
  BY DEF Confirmed, Continues
<1> QED BY <1>2, <1>3, <1>4, <1>5, <1>6

LEMMA LegRefundedLate ==
    ASSUME NEW t \in Nat, NEW h \in Escrows, NEW d \in Escrows, NEW h1 \in Escrows,
           Confirmed(d, h),
           h.status = "Refunded" /\ h.recipient # Nobody => t >= h.timeout,
           \/ h1 = h
           \/ h1.status = "Open"
           \/ h.status = "Open" /\ h1 = [h EXCEPT !.status = "Claimed", !.revealed = TRUE]
           \/ /\ h.status = "Open" /\ h1 = [h EXCEPT !.status = "Refunded"]
              /\ t >= h.timeout \/ h.recipient = Nobody
           \/ h1 = d
    PROVE  h1.status = "Refunded" /\ h1.recipient # Nobody => t >= h1.timeout
BY DEF Confirmed, Continues, Escrows

LEMMA BlockAgrees ==
    ASSUME TypeOK, ChainsAgree, Block
    PROVE  ChainsAgree'
<1> SUFFICES ASSUME NEW l \in Legs
             PROVE  /\ Confirmed(deep'[l], head'[l]) /\ RefundedLate(head[l])'
                    /\ Told(head'[l]) /\ Told(deep'[l])
  BY DEF ChainsAgree
<1>1. /\ head[l] \in Escrows /\ deep[l] \in Escrows /\ now \in Nat /\ cast \in Casts
      /\ head'[l] \in Escrows /\ deep'[l] \in Escrows /\ Moves(l) /\ now' = now
  BY DEF TypeOK, Block, Outside
<1>2. /\ Confirmed(deep[l], head[l]) /\ RefundedLate(head[l])
      /\ Told(head[l]) /\ Told(deep[l])
  BY DEF ChainsAgree
<1>3. ASSUME \/ head'[l] = head[l]
             \/ head'[l].status = "Open"
             \/ Collected(l) \/ Returned(l) \/ Replaced(l)
      PROVE  RefundedLate(head[l])'
  <2>1. \/ head'[l] = head[l]
        \/ head'[l].status = "Open"
        \/ /\ head[l].status = "Open"
           /\ head'[l] = [head[l] EXCEPT !.status = "Claimed", !.revealed = TRUE]
        \/ /\ head[l].status = "Open" /\ head'[l] = [head[l] EXCEPT !.status = "Refunded"]
           /\ now >= head[l].timeout \/ head[l].recipient = Nobody
        \/ head'[l] = deep[l]
    BY <1>3 DEF Collected, Returned, Replaced, CanClaim
  <2> QED BY <2>1, <1>1, <1>2, LegRefundedLate DEF RefundedLate
<1>4. CASE Kept(l)
  BY <1>1, <1>2, <1>3, <1>4 DEF Kept
<1>5. CASE Locked(l)
  <2>a. Agreed(l).status = "Open"
    BY <1>1, CastFacts
  <2>e. \A e : Escrow(e.by, e.to, e.token, e.amount, e.timeout).status = "Open"
    BY DEF Escrow
  <2>1. head'[l].status = "Open" /\ head[l].status = "None" /\ deep'[l] = deep[l]
    BY <1>5, <2>a, <2>e DEF Locked
  <2> QED BY <2>1, <1>1, <1>2, <1>3, LegAgrees
<1>6. CASE Assigned(l)
  <2>1. head'[l].status = "Open" /\ deep'[l] = deep[l]
    BY <1>1, <1>6 DEF Assigned, Escrows
  <2> QED BY <2>1, <1>1, <1>2, <1>3, <1>6, LegAgrees DEF Assigned
<1>7. CASE Collected(l)
  BY <1>1, <1>2, <1>3, <1>7, LegAgrees DEF Collected, CanClaim
<1>8. CASE Returned(l)
  BY <1>1, <1>2, <1>3, <1>8, LegAgrees DEF Returned
<1>9. CASE Buried(l)
  BY <1>1, <1>2, <1>3, <1>9, LegAgrees DEF Buried
<1>10. CASE Replaced(l)
  BY <1>1, <1>2, <1>3, <1>10, LegAgrees DEF Replaced
<1> QED BY <1>1, <1>4, <1>5, <1>6, <1>7, <1>8, <1>9, <1>10 DEF Moves

\* What the leg that a party trusts can still do: it is claimed, or refunded
\* after its timeout, or goes back to the open escrow that is buried.
LEMMA TrustedLeg ==
    ASSUME TypeOK, ChainsAgree, Block, NEW l \in Legs, NEW p \in {"maker", "taker"},
           deep[l].status # "None", Pays(deep[l], p)
    PROVE  /\ Pays(head[l], p) /\ Pays(deep'[l], p) /\ Pays(head'[l], p)
           /\ deep'[l].status # "None" /\ head[l].status # "None"
           /\ head[l].timeout = deep[l].timeout /\ head'[l].timeout = deep[l].timeout
           /\ deep'[l].timeout = deep[l].timeout
           /\ \/ head'[l].status = head[l].status
              \/ head[l].status = "Open" /\ head'[l].status = "Claimed"
              \/ /\ head[l].status = "Open" /\ head'[l].status = "Refunded"
                 /\ now >= head[l].timeout
              \/ Replaced(l) /\ head'[l].status = "Open"
<1>1. /\ head[l] \in Escrows /\ deep[l] \in Escrows
      /\ head'[l] \in Escrows /\ deep'[l] \in Escrows /\ Moves(l)
  BY DEF TypeOK, Block
<1>2. Confirmed(deep[l], head[l])
  BY DEF ChainsAgree
<1>3. p # Nobody
  BY NullAssumption DEF Parties
<1>4. /\ Pays(head[l], p) /\ head[l].status # "None"
      /\ head[l].timeout = deep[l].timeout /\ head[l].recipient # Nobody
      /\ deep[l].status # "Open" => head[l] = deep[l]
  BY <1>1, <1>2, <1>3 DEF Confirmed, Continues, Pays, Escrows, Statuses
<1>5. CASE Kept(l)
  BY <1>4, <1>5 DEF Kept
<1>6. CASE Locked(l)
  BY <1>4, <1>6 DEF Locked
<1>7. CASE Assigned(l)
  BY <1>4, <1>7 DEF Assigned
<1>8. CASE Collected(l)
  <2>1. /\ Pays(head'[l], p) /\ head'[l].timeout = head[l].timeout
        /\ head'[l].status = "Claimed" /\ head[l].status = "Open" /\ deep'[l] = deep[l]
    BY <1>1, <1>4, <1>8 DEF Collected, CanClaim, Pays, Escrows
  <2> QED BY <2>1, <1>4
<1>9. CASE Returned(l)
  <2>1. /\ Pays(head'[l], p) /\ head'[l].timeout = head[l].timeout
        /\ head'[l].status = "Refunded" /\ head[l].status = "Open" /\ deep'[l] = deep[l]
        /\ now >= head[l].timeout
    BY <1>1, <1>4, <1>9 DEF Returned, Pays, Escrows
  <2> QED BY <2>1, <1>4
<1>10. CASE Buried(l)
  BY <1>4, <1>10 DEF Buried
<1>11. CASE Replaced(l)
  BY <1>4, <1>11 DEF Replaced
<1> QED BY <1>1, <1>5, <1>6, <1>7, <1>8, <1>9, <1>10, <1>11 DEF Moves

-----------------------------------------------------------------------------
(* A step of a program changes its own record and broadcasts at most one   *)
(* transaction.                                                            *)

Sends(tx) == sent' = sent \/ sent' = sent \cup {tx}

Faulty == faults' \in {faults, faults + 1} /\ faults' <= MaxFaults

MakerSends ==
    \/ sent' = sent
    \/ \E tx \in Txs : /\ sent' = sent \cup {tx}
                       /\ tx.by = "maker" /\ tx.at <= now
                       /\ tx.op = "lock" => tx.leg = "i"

MakerSide ==
    /\ UNCHANGED <<cast, now, head, deep, taker, polled, reorgs>>
    /\ Faulty /\ MakerSends
    /\ maker' \in MakerRecords

TakerSends ==
    \/ sent' = sent
    \/ \E tx \in Txs : sent' = sent \cup {tx} /\ tx.by = "taker" /\ tx.at <= now

TakerSide ==
    /\ UNCHANGED <<cast, now, head, deep, secret, maker, reorgs>>
    /\ Faulty /\ TakerSends
    /\ taker' \in TakerRecords

MakerProgram ==
    \/ \E a, b, c \in BOOLEAN, bookUp \in BookReads : MakerPasses(a, b, c, bookUp)
    \/ MakerActs \/ MakerCrashes

TakerProgram ==
    \/ \E a, b, c, abandon \in BOOLEAN, bookUp \in BookReads :
          TakerPasses(a, b, c, bookUp, abandon)
    \/ TakerActs \/ TakerCrashes

LEMMA Broadcasts ==
    ASSUME TypeOK, NEW tx, Broadcast(tx)
    PROVE  Sends(tx) /\ Faulty
BY ConstantFacts DEF TypeOK, Broadcast, Sends, Faulty

LEMMA NoFault ==
    ASSUME TypeOK, faults' = faults
    PROVE  Faulty
BY ConstantFacts DEF TypeOK, Faulty

LEMMA OneFault ==
    ASSUME TypeOK, faults < MaxFaults, faults' = faults + 1
    PROVE  Faulty
BY ConstantFacts DEF TypeOK, Faulty

LEMMA TxTypes ==
    ASSUME TypeOK
    PROVE  /\ \A by \in {"maker", "taker"}, op \in {"lock", "claim", "refund"},
                 l \in Legs, at \in {0, now} :
                 /\ Tx(by, op, l, at) \in Txs
                 /\ Tx(by, op, l, at).by = by /\ Tx(by, op, l, at).op = op
                 /\ Tx(by, op, l, at).leg = l /\ Tx(by, op, l, at).at = at
                 /\ Tx(by, op, l, at).at <= now
BY DEF TypeOK, Txs, Tx

LEMMA MakerSteps ==
    ASSUME TypeOK, MakerProgram, cast' = cast
    PROVE  MakerSide
<1>t. maker \in MakerRecords /\ now \in Nat
  BY DEF TypeOK
<1>n. now \in Markers
  BY <1>t DEF Markers
<1>1. ASSUME NEW a \in BOOLEAN, NEW b \in BOOLEAN, NEW c \in BOOLEAN,
             NEW bookUp \in BookReads, MakerPasses(a, b, c, bookUp)
      PROVE  MakerSide
  <2>1. /\ UNCHANGED <<now, head, deep, taker, polled, reorgs>>
        /\ sent' = sent /\ faults' = faults
    BY <1>1 DEF MakerPasses, chainVars
  <2>2. maker' \in MakerRecords
    <3> DEFINE x == MakerInput(legStateOrNull(getSwapState("i"), a),
                               legStateOrNull(getSwapState("r"), b),
                               legStateOrNull(getConfirmedSwapState("r"), c), bookUp)
               seen == maker.releaseObserved \/ (bookUp /\ walked)
               does == IF M!decide(x) \in {"lock", "claim", "sponsor", "refund"}
                       THEN M!decide(x) ELSE "none"
               keeps == M!decide(x) \notin {"finish", "abort"}
    <3>1. maker' = [maker EXCEPT !.releaseObserved = seen, !.doing = does, !.tracked = keeps]
      BY <1>1 DEF MakerPasses
    <3>2. /\ seen \in BOOLEAN /\ keeps \in BOOLEAN
          /\ does \in {"none", "lock", "claim", "sponsor", "refund"}
      OBVIOUS
    <3> HIDE DEF seen, does, keeps
    <3> QED BY <3>1, <3>2, <1>t DEF MakerRecords
  <2> QED BY <2>1, <2>2, NoFault DEF MakerSide, MakerSends
<1>2. ASSUME NEW bookUp \in BookReads, MakerLocks(bookUp)
      PROVE  MakerSide
  <2>1. UNCHANGED <<now, head, deep, taker, polled, reorgs>>
    BY <1>2 DEF MakerLocks
  <2>2. maker' \in MakerRecords
    <3> DEFINE seen == maker.releaseObserved \/ (bookUp /\ walked)
               stop == \/ fillResponseExpired \/ maker.releaseObserved
                       \/ bookUp /\ walked
               mark == IF stop THEN maker.lockSentAt ELSE now
    <3>1. maker' = [maker EXCEPT !.doing = "none", !.releaseObserved = seen,
                                 !.lockSentAt = mark]
      BY <1>2 DEF MakerLocks, nowS
    <3>2. seen \in BOOLEAN /\ mark \in Markers
      BY <1>t, <1>n DEF MakerRecords
    <3> HIDE DEF seen, stop, mark
    <3> QED BY <3>1, <3>2, <1>t DEF MakerRecords
  <2>3. \/ sent' = sent /\ faults' = faults
        \/ Broadcast(Tx("maker", "lock", "i", 0))
    BY <1>2 DEF MakerLocks
  <2>4. Faulty /\ MakerSends
    BY <2>3, Broadcasts, NoFault, TxTypes DEF MakerSends, Sends, Legs
  <2> QED BY <2>1, <2>2, <2>4 DEF MakerSide
<1>3. ASSUME MakerClaims
      PROVE  MakerSide
  <2>1. UNCHANGED <<now, head, deep, taker, polled, reorgs>>
    BY <1>3 DEF MakerClaims
  <2>2. maker' \in MakerRecords
    BY <1>3, <1>t, <1>n DEF MakerClaims, nowS, MakerRecords
  <2>3. \/ sent' = sent /\ faults' = faults
        \/ Broadcast(Tx("maker", "claim", "r", now))
    BY <1>3 DEF MakerClaims
  <2>4. Faulty /\ MakerSends
    BY <2>3, Broadcasts, NoFault, TxTypes DEF MakerSends, Sends, Legs
  <2> QED BY <2>1, <2>2, <2>4 DEF MakerSide
<1>4. ASSUME MakerSponsors
      PROVE  MakerSide
  <2>1. UNCHANGED <<now, head, deep, taker, polled, reorgs>>
    BY <1>4 DEF MakerSponsors
  <2>2. maker' \in MakerRecords
    BY <1>4, <1>t, <1>n DEF MakerSponsors, nowS, MakerRecords
  <2>3. \/ sent' = sent /\ faults' = faults
        \/ Broadcast(Tx("maker", "claim", "i", now))
    BY <1>4 DEF MakerSponsors
  <2>4. Faulty /\ MakerSends
    BY <2>3, Broadcasts, NoFault, TxTypes DEF MakerSends, Sends, Legs
  <2> QED BY <2>1, <2>2, <2>4 DEF MakerSide
<1>5. ASSUME MakerRefunds
      PROVE  MakerSide
  <2>1. UNCHANGED <<now, head, deep, taker, polled, reorgs>>
    BY <1>5 DEF MakerRefunds
  <2>2. maker' \in MakerRecords
    BY <1>5, <1>t, <1>n DEF MakerRefunds, nowS, MakerRecords
  <2>3. Broadcast(Tx("maker", "refund", "i", 0))
    BY <1>5 DEF MakerRefunds
  <2>4. Faulty /\ MakerSends
    BY <2>3, Broadcasts, TxTypes DEF MakerSends, Sends, Legs
  <2> QED BY <2>1, <2>2, <2>4 DEF MakerSide
<1>6. ASSUME MakerCrashes
      PROVE  MakerSide
  <2>1. UNCHANGED <<now, head, deep, sent, taker, polled, reorgs>>
    BY <1>6 DEF MakerCrashes, chainVars
  <2>2. maker' \in MakerRecords
    BY <1>6, <1>t DEF MakerCrashes, MakerRecords
  <2>3. Faulty
    BY <1>6, OneFault DEF MakerCrashes
  <2> QED BY <2>1, <2>2, <2>3 DEF MakerSide, MakerSends
<1> QED BY <1>1, <1>2, <1>3, <1>4, <1>5, <1>6 DEF MakerProgram, MakerActs

LEMMA TakerSteps ==
    ASSUME TypeOK, TakerProgram, cast' = cast
    PROVE  TakerSide
<1>t. taker \in TakerRecords /\ now \in Nat
  BY DEF TypeOK
<1>n. now \in Markers
  BY <1>t DEF Markers
<1>1. ASSUME NEW a \in BOOLEAN, NEW b \in BOOLEAN, NEW c \in BOOLEAN,
             NEW abandon \in BOOLEAN, NEW bookUp \in BookReads,
             TakerPasses(a, b, c, bookUp, abandon)
      PROVE  TakerSide
  <2>1. /\ UNCHANGED <<now, head, deep, secret, maker, reorgs>>
        /\ sent' = sent /\ faults' = faults
    BY <1>1 DEF TakerPasses, chainVars
  <2>2. taker' \in TakerRecords
    <3> DEFINE x == TakerInput(legStateOrNull(getSwapState("i"), a),
                               legStateOrNull(getConfirmedSwapState("i"), b),
                               legStateOrNull(getSwapState("r"), c), bookUp, abandon)
               seen == taker.releaseObserved \/ (bookUp /\ walked)
               does == IF T!decideTaker(x) \in {"lock", "claim", "refund", "release"}
                       THEN T!decideTaker(x) ELSE "none"
               ends == CASE T!decideTaker(x) = "finish" ->
                              FinishedAs(head["i"].status, head["r"].status)
                         [] T!decideTaker(x) = "abort" -> "aborted"
                         [] OTHER -> Null
    <3>1. taker' = [taker EXCEPT !.releaseObserved = seen, !.doing = does, !.outcome = ends]
      BY <1>1 DEF TakerPasses
    <3>2. /\ seen \in BOOLEAN
          /\ does \in {"none", "lock", "claim", "refund", "release"}
      OBVIOUS
    <3>3. ends \in {Null, "claimed", "refunded", "uneven", "aborted", "released"}
      BY DEF FinishedAs
    <3> HIDE DEF seen, does, ends
    <3> QED BY <3>1, <3>2, <3>3, <1>t DEF TakerRecords
  <2> QED BY <2>1, <2>2, NoFault DEF TakerSide, TakerSends
<1>2. ASSUME TakerLocks
      PROVE  TakerSide
  <2>1. UNCHANGED <<now, head, deep, secret, maker, reorgs>>
    BY <1>2 DEF TakerLocks
  <2>2. taker' \in TakerRecords
    BY <1>2, <1>t, <1>n DEF TakerLocks, nowS, TakerRecords
  <2>3. Broadcast(Tx("taker", "lock", "r", 0))
    BY <1>2 DEF TakerLocks
  <2>4. Faulty /\ TakerSends
    BY <2>3, Broadcasts, TxTypes DEF TakerSends, Sends, Legs
  <2> QED BY <2>1, <2>2, <2>4 DEF TakerSide
<1>3. ASSUME TakerClaims
      PROVE  TakerSide
  <2>1. UNCHANGED <<now, head, deep, secret, maker, reorgs>>
    BY <1>3 DEF TakerClaims
  <2>2. taker' \in TakerRecords
    BY <1>3, <1>t, <1>n DEF TakerClaims, nowS, TakerRecords
  <2>3. \/ sent' = sent /\ faults' = faults
        \/ Broadcast(Tx("taker", "claim", "i", now))
    BY <1>3 DEF TakerClaims
  <2>4. Faulty /\ TakerSends
    BY <2>3, Broadcasts, NoFault, TxTypes DEF TakerSends, Sends, Legs
  <2> QED BY <2>1, <2>2, <2>4 DEF TakerSide
<1>4. ASSUME TakerRefunds
      PROVE  TakerSide
  <2>1. UNCHANGED <<now, head, deep, secret, maker, reorgs>>
    BY <1>4 DEF TakerRefunds
  <2>2. taker' \in TakerRecords
    BY <1>4, <1>t, <1>n DEF TakerRefunds, nowS, TakerRecords
  <2>3. Broadcast(Tx("taker", "refund", "r", 0))
    BY <1>4 DEF TakerRefunds
  <2>4. Faulty /\ TakerSends
    BY <2>3, Broadcasts, TxTypes DEF TakerSends, Sends, Legs
  <2> QED BY <2>1, <2>2, <2>4 DEF TakerSide
<1>5. ASSUME TakerReleases
      PROVE  TakerSide
  <2>1. UNCHANGED <<now, head, deep, sent, secret, maker, reorgs>>
    BY <1>5 DEF TakerReleases, chainVars
  <2>2. taker' \in TakerRecords
    BY <1>5, <1>t, <1>n DEF TakerReleases, nowS, TakerRecords
  <2>3. Faulty
    BY <1>5, NoFault, OneFault DEF TakerReleases
  <2> QED BY <2>1, <2>2, <2>3 DEF TakerSide, TakerSends
<1>6. ASSUME TakerCrashes
      PROVE  TakerSide
  <2>1. UNCHANGED <<now, head, deep, sent, secret, maker, reorgs>>
    BY <1>6 DEF TakerCrashes, chainVars
  <2>2. taker' \in TakerRecords
    BY <1>6, <1>t DEF TakerCrashes, TakerRecords
  <2>3. Faulty
    BY <1>6, OneFault DEF TakerCrashes
  <2> QED BY <2>1, <2>2, <2>3 DEF TakerSide, TakerSends
<1> QED BY <1>1, <1>2, <1>3, <1>4, <1>5, <1>6 DEF TakerProgram, TakerActs

-----------------------------------------------------------------------------
(* Types.                                                                  *)

LEMMA StepKinds ==
    ASSUME Next
    PROVE  /\ cast' = cast
           /\ \/ Chain \/ MakerProgram \/ TakerProgram \/ HostileWalkAway
              \/ Tick \/ Later
BY DEF Next, Step, Chain, MakerProgram, TakerProgram, HostileActs

LEMMA InitTypeOK ==
    ASSUME Init
    PROVE  TypeOK /\ ChainsAgree
<1>1. NoEscrow \in Escrows
  BY DEF Init, NoEscrow, Escrows, Parties, Statuses
<1>2. /\ cast \in Casts /\ now \in Nat /\ sent \subseteq Txs
      /\ head \in [Legs -> Escrows] /\ deep \in [Legs -> Escrows]
      /\ reorgs \in 0 .. MaxReorgs /\ faults \in 0 .. MaxFaults
  BY <1>1, ConstantFacts DEF Init
<1>3. maker \in MakerRecords
  BY DEF Init, MakerRecords, Markers
<1>4. taker \in TakerRecords
  BY DEF Init, TakerRecords, Markers
<1>5. ChainsAgree
  <2>1. \A l \in Legs : head[l] = NoEscrow /\ deep[l] = NoEscrow
    BY DEF Init
  <2>2. Confirmed(NoEscrow, NoEscrow) /\ RefundedLate(NoEscrow) /\ Told(NoEscrow)
    BY DEF Confirmed, RefundedLate, Told, NoEscrow
  <2> QED BY <2>1, <2>2 DEF ChainsAgree
<1> QED BY <1>2, <1>3, <1>4, <1>5 DEF TypeOK

LEMMA TypeStep ==
    ASSUME TypeOK, Next
    PROVE  TypeOK'
<1> USE ConstantFacts
<1>1. CASE Chain
  <2>1. Block
    BY <1>1, StepKinds, ChainBlocks
  <2> QED BY <2>1 DEF TypeOK, Block, Outside
<1>2. CASE MakerProgram
  <2>1. MakerSide
    BY <1>2, StepKinds, MakerSteps
  <2>2. faults' \in 0 .. MaxFaults /\ sent' \subseteq Txs
    BY <2>1 DEF TypeOK, MakerSide, Faulty, MakerSends
  <2> QED BY <2>1, <2>2 DEF TypeOK, MakerSide
<1>3. CASE TakerProgram
  <2>1. TakerSide
    BY <1>3, StepKinds, TakerSteps
  <2>2. faults' \in 0 .. MaxFaults /\ sent' \subseteq Txs
    BY <2>1 DEF TypeOK, TakerSide, Faulty, TakerSends
  <2> QED BY <2>1, <2>2 DEF TypeOK, TakerSide
<1>4. CASE HostileWalkAway
  BY <1>4, StepKinds DEF TypeOK, HostileWalkAway, chainVars
<1>5. CASE Tick
  BY <1>5, StepKinds DEF TypeOK, Tick, chainVars
<1>6. CASE Later
  <2>1. \A m \in Markers : Aged(m) \in Markers
    BY DEF Aged, Markers
  <2>2. maker' \in MakerRecords
    BY <1>6, <2>1 DEF TypeOK, Later, MakerRecords
  <2>3. taker' \in TakerRecords
    BY <1>6, <2>1 DEF TypeOK, Later, TakerRecords
  <2> QED BY <1>6, <2>2, <2>3, StepKinds DEF TypeOK, Later, chainVars
<1> QED BY <1>1, <1>2, <1>3, <1>4, <1>5, <1>6, StepKinds

LEMMA AgreeStep ==
    ASSUME TypeOK, ChainsAgree, Next
    PROVE  ChainsAgree'
<1>1. CASE Chain
  BY <1>1, StepKinds, ChainBlocks, BlockAgrees
<1>2. ASSUME head' = head, deep' = deep, now' = now \/ now' = now + 1
      PROVE  ChainsAgree'
  <2>1. ASSUME NEW l \in Legs PROVE RefundedLate(head[l])'
    <3>1. RefundedLate(head[l]) /\ head[l] \in Escrows /\ now \in Nat
      BY DEF ChainsAgree, TypeOK
    <3>2. head[l].timeout \in Nat
      BY <3>1 DEF Escrows
    <3> QED BY <1>2, <3>1, <3>2 DEF RefundedLate
  <2> QED BY <1>2, <2>1 DEF ChainsAgree
<1>3. CASE MakerProgram
  BY <1>2, <1>3, StepKinds, MakerSteps DEF MakerSide
<1>4. CASE TakerProgram
  BY <1>2, <1>4, StepKinds, TakerSteps DEF TakerSide
<1>5. CASE HostileWalkAway
  BY <1>2, <1>5 DEF HostileWalkAway, chainVars
<1>6. CASE Tick
  BY <1>2, <1>6 DEF Tick, chainVars
<1>7. CASE Later
  BY <1>2, <1>7 DEF Later, chainVars
<1> QED BY <1>1, <1>3, <1>4, <1>5, <1>6, <1>7, StepKinds

-----------------------------------------------------------------------------
(* The maker is not shorted.                                               *)

\* What decide() has seen when it claims, and when it sponsors.
LEMMA MakerDecides ==
    ASSUME NEW iState, NEW rState, NEW rConfirmed, NEW bookUp
    PROVE  LET d == M!decide(MakerInput(iState, rState, rConfirmed, bookUp)) IN
           /\ d = "claim" => /\ rConfirmed # Null /\ rConfirmed.status = "Open"
                             /\ Pays(rConfirmed, "maker")
           /\ d = "sponsor" => rConfirmed # Null /\ rConfirmed.status = "Claimed"
<1> DEFINE x == MakerInput(iState, rState, rConfirmed, bookUp)
<1>1. /\ x.rConfirmed = rConfirmed /\ x.expectedRecipient = "maker"
      /\ x.expectedToken = "agreed" /\ x.expectedAmount = "agreed"
  BY DEF MakerInput
<1> HIDE DEF x
<1>2. M!decide(x) = "claim" => M!ClaimDue(x)
  BY DEF M!decide
<1>3. M!decide(x) = "sponsor" => M!SponsorDue(x)
  BY DEF M!decide
<1>4. M!ClaimDue(x) => /\ rConfirmed # Null /\ rConfirmed.status = "Open"
                       /\ Pays(rConfirmed, "maker")
  BY <1>1 DEF M!ClaimDue, M!ResponderLockOk, Pays
<1>5. M!SponsorDue(x) => rConfirmed # Null /\ rConfirmed.status = "Claimed"
  BY <1>1 DEF M!SponsorDue
<1> QED BY <1>2, <1>3, <1>4, <1>5 DEF x

\* The maker's invariant only moves with its claim, the preimage and time.
LEMMA MakerUnmoved ==
    ASSUME MakerInv, cast' = cast, head' = head, deep' = deep, now' = now,
           ClaimsOn("r")' = ClaimsOn("r"),
           "maker" \in Honest => MakerTrusts' /\ (SecretOut' => SecretOut)
    PROVE  MakerInv'
<1> SUFFICES ASSUME "maker" \in Honest
             PROVE  MakerTrusts' /\ SecretHeld' /\ MakerCollects'
  BY DEF MakerInv, Honest
<1>1. MakerTrusts'
  OBVIOUS
<1>2. SecretHeld'
  BY DEF MakerInv, SecretHeld
<1>3. MakerCollects'
  BY DEF MakerInv, MakerCollects
<1> QED BY <1>1, <1>2, <1>3

LEMMA MakerInvBlock ==
    ASSUME TypeOK, ChainsAgree, MakerInv, Block
    PROVE  MakerInv'
<1> SUFFICES ASSUME "maker" \in Honest
             PROVE  MakerTrusts' /\ SecretHeld' /\ MakerCollects'
  BY DEF MakerInv, Honest, Block, Outside
<1>i. MakerTrusts /\ SecretHeld /\ MakerCollects
  BY DEF MakerInv
<1>u. /\ cast' = cast /\ now' = now /\ sent' = sent /\ maker' = maker
      /\ taker' = taker /\ secret' = secret
  BY DEF Block, Outside
<1>c. ClaimsOn("r")' = ClaimsOn("r")
  BY <1>u DEF ClaimsOn
<1>r. "r" \in Legs /\ "maker" \in {"maker", "taker"}
  BY DEF Legs
<1>1. MakerTrusts'
  BY <1>i, <1>u, <1>r, TrustedLeg DEF MakerTrusts
<1>2. SecretHeld'
  <2>1. ASSUME NEW l \in Legs,
               \/ head'[l].status = "Claimed" \/ head'[l].revealed
               \/ deep'[l].status = "Claimed" \/ deep'[l].revealed
        PROVE  SecretOut
    <3>1. /\ head[l] \in Escrows /\ deep[l] \in Escrows /\ Moves(l) /\ cast \in Casts
      BY DEF TypeOK, Block
    <3>2. CASE Kept(l)
      BY <2>1, <3>2 DEF Kept, SecretOut
    <3>3. CASE Locked(l)
      <4>1. Agreed(l).status = "Open" /\ ~Agreed(l).revealed
        BY DEF Agreed, Escrow
      <4>2. \A e : LET s == Escrow(e.by, e.to, e.token, e.amount, e.timeout) IN
                   s.status = "Open" /\ ~s.revealed
        BY DEF Escrow
      <4>3. head'[l].status = "Open" /\ ~head'[l].revealed /\ deep'[l] = deep[l]
        BY <3>3, <4>1, <4>2 DEF Locked
      <4> QED BY <2>1, <4>3 DEF SecretOut
    <3>4. CASE Assigned(l)
      <4>1. /\ head'[l].status = head[l].status /\ head'[l].revealed = head[l].revealed
            /\ deep'[l] = deep[l]
        BY <3>1, <3>4 DEF Assigned, Escrows
      <4> QED BY <2>1, <4>1 DEF SecretOut
    <3>5. CASE Collected(l)
      BY <3>5 DEF Collected, SecretOut, ClaimsOn
    <3>6. CASE Returned(l)
      <4>1. /\ head'[l].status = "Refunded" /\ head'[l].revealed = head[l].revealed
            /\ deep'[l] = deep[l]
        BY <3>1, <3>6 DEF Returned, Escrows
      <4> QED BY <2>1, <4>1 DEF SecretOut
    <3>7. CASE Buried(l)
      BY <2>1, <3>7 DEF Buried, SecretOut
    <3>8. CASE Replaced(l)
      BY <2>1, <3>8 DEF Replaced, SecretOut
    <3> QED BY <3>1, <3>2, <3>3, <3>4, <3>5, <3>6, <3>7, <3>8 DEF Moves
  <2>2. SecretOut' => SecretOut
    BY <2>1, <1>u DEF SecretOut
  <2> QED BY <2>2, <1>i, <1>c DEF SecretHeld
<1>3. MakerCollects'
  <2> SUFFICES ASSUME ClaimsOn("r") # {}
               PROVE  /\ deep'["r"].status # "None" /\ Pays(deep'["r"], "maker")
                      /\ \A tx \in ClaimsOn("r") : tx.at + Final < head'["r"].timeout
                      /\ \/ head'["r"].status = "Claimed"
                         \/ /\ head'["r"].status = "Open"
                            /\ \E tx \in ClaimsOn("r") : now <= tx.at + Final
    BY <1>c, <1>u DEF MakerCollects
  <2>1. /\ deep["r"].status # "None" /\ Pays(deep["r"], "maker")
        /\ \A tx \in ClaimsOn("r") : tx.at + Final < head["r"].timeout
        /\ \/ head["r"].status = "Claimed"
           \/ /\ head["r"].status = "Open"
              /\ \E tx \in ClaimsOn("r") : now <= tx.at + Final
    BY <1>i DEF MakerCollects
  <2>2. /\ deep'["r"].status # "None" /\ Pays(deep'["r"], "maker")
        /\ head'["r"].timeout = head["r"].timeout
        /\ \/ head'["r"].status = head["r"].status
           \/ head["r"].status = "Open" /\ head'["r"].status = "Claimed"
           \/ /\ head["r"].status = "Open" /\ head'["r"].status = "Refunded"
              /\ now >= head["r"].timeout
           \/ Replaced("r") /\ head'["r"].status = "Open"
    BY <2>1, <1>r, TrustedLeg
  <2>t. /\ now \in Nat /\ Final \in Nat /\ head["r"].timeout \in Nat
        /\ \A tx \in ClaimsOn("r") : tx.at \in Nat
    BY <1>r, ConstantFacts DEF TypeOK, ClaimsOn, Txs, Escrows
  <2>3. CASE head["r"].status = "Claimed" /\ Replaced("r")
    <3>1. \A tx \in ClaimsOn("r") : now <= tx.at + Final
      BY <2>3, <2>t DEF Replaced, FinalClaim, ClaimsOn
    <3> QED BY <2>1, <2>2, <2>3, <3>1
  <2>4. CASE head["r"].status = "Open"
    <3>1. now < head["r"].timeout
      BY <2>1, <2>4, <2>t
    <3> QED BY <2>1, <2>2, <2>4, <2>t, <3>1
  <2> QED BY <2>1, <2>2, <2>3, <2>4
<1> QED BY <1>1, <1>2, <1>3

\* What decideTaker() has seen when it claims, and when it funds its escrow.
LEMMA TakerDecides ==
    ASSUME NEW iState, NEW iConfirmed, NEW rState, NEW bookUp, NEW abandon
    PROVE  LET d == T!decideTaker(TakerInput(iState, iConfirmed, rState, bookUp, abandon)) IN
           /\ d = "claim" => /\ rState # Null /\ rState.revealed
                             /\ iState # Null /\ iState.status = "Open"
           /\ d = "lock" => iConfirmed # Null /\ Ample(iConfirmed)
<1> DEFINE x == TakerInput(iState, iConfirmed, rState, bookUp, abandon)
<1>1. /\ x.rState = rState /\ x.iState = iState /\ x.iConfirmed = iConfirmed
      /\ x.plans.initiator = [recipient |-> "taker", token |-> "agreed", amount |-> "agreed"]
      /\ x.fill.responderTimeout = T2
  BY DEF TakerInput, Plan, Agreed, Escrow
<1> HIDE DEF x
<1>2. T!decideTaker(x) = "claim" => T!ClaimDue(x)
  BY DEF T!decideTaker, T!Unfunded, T!Unfilled, T!Funding
<1>3. T!ClaimDue(x) => /\ rState # Null /\ rState.revealed
                       /\ iState # Null /\ iState.status = "Open"
  BY <1>1 DEF T!ClaimDue, T!revealed, T!MakerEscrowOpen
<1> DEFINE m == T!checkMakerLock(iConfirmed, x.plans.initiator, T2, x.prelocked)
<1>4. T!decideTaker(x) = "lock"
        => m \notin {"absent", "awaiting-assign", "settled", "mismatch"}
  BY <1>1 DEF T!decideTaker, T!Unfunded, T!Unfilled, T!Funding
<1>5. m \notin {"absent", "awaiting-assign", "settled", "mismatch"}
        => iConfirmed # Null /\ Ample(iConfirmed)
  BY <1>1 DEF T!checkMakerLock, T!ClaimWindowAfterOurs, Ample, Pays
<1> QED BY <1>2, <1>3, <1>4, <1>5 DEF x

\* The taker decides to claim and to lock in a pass, and acts only on that.
LEMMA TakerActsOnPass ==
    ASSUME TypeOK, TakerProgram
    PROVE  /\ taker'.doing = "claim" => head["r"].revealed /\ head["i"].status = "Open"
           /\ taker'.doing = "lock" => Ample(deep["i"])
           /\ \A tx \in sent' \ sent :
                 /\ tx.op = "claim" => tx.leg = "i" /\ taker.doing = "claim"
                 /\ tx.op = "lock" => taker.doing = "lock"
<1>t. taker \in TakerRecords
  BY DEF TypeOK
<1>1. ASSUME NEW a \in BOOLEAN, NEW b \in BOOLEAN, NEW c \in BOOLEAN,
             NEW abandon \in BOOLEAN, NEW bookUp \in BookReads,
             TakerPasses(a, b, c, bookUp, abandon)
      PROVE  /\ taker'.doing = "claim" => head["r"].revealed /\ head["i"].status = "Open"
             /\ taker'.doing = "lock" => Ample(deep["i"])
             /\ sent' = sent
  <2> DEFINE i == legStateOrNull(getSwapState("i"), a)
             d == legStateOrNull(getConfirmedSwapState("i"), b)
             r == legStateOrNull(getSwapState("r"), c)
             decision == T!decideTaker(TakerInput(i, d, r, bookUp, abandon))
  <2>1. taker'.doing = (IF decision \in {"lock", "claim", "refund", "release"}
                        THEN decision ELSE "none") /\ sent' = sent
    BY <1>1, <1>t DEF TakerPasses, TakerRecords, chainVars
  <2>2. /\ i # Null => i = head["i"]
        /\ d # Null => d = deep["i"]
        /\ r # Null => r = head["r"]
    BY DEF legStateOrNull, getSwapState, getConfirmedSwapState
  <2>3. /\ decision = "claim" => /\ r # Null /\ r.revealed
                                 /\ i # Null /\ i.status = "Open"
        /\ decision = "lock" => d # Null /\ Ample(d)
    BY TakerDecides
  <2> HIDE DEF i, d, r, decision
  <2> QED BY <2>1, <2>2, <2>3
<1>2. ASSUME \/ TakerLocks \/ TakerClaims \/ TakerRefunds \/ TakerReleases
             \/ TakerCrashes
      PROVE  taker'.doing = "none"
  BY <1>2, <1>t DEF TakerLocks, TakerClaims, TakerRefunds, TakerReleases, TakerCrashes,
                    TakerRecords
<1>3. ASSUME TakerLocks
      PROVE  taker.doing = "lock" /\ \A tx \in sent' \ sent : tx.op = "lock"
  BY <1>3 DEF TakerLocks, Broadcast, Tx
<1>4. ASSUME TakerClaims
      PROVE  taker.doing = "claim" /\ \A tx \in sent' \ sent : tx.op = "claim" /\ tx.leg = "i"
  BY <1>4 DEF TakerClaims, Broadcast, Tx
<1>5. ASSUME TakerRefunds
      PROVE  \A tx \in sent' \ sent : tx.op = "refund"
  BY <1>5 DEF TakerRefunds, Broadcast, Tx
<1>6. ASSUME TakerReleases \/ TakerCrashes
      PROVE  sent' = sent
  BY <1>6 DEF TakerReleases, TakerCrashes, chainVars
<1> QED BY <1>1, <1>2, <1>3, <1>4, <1>5, <1>6 DEF TakerProgram, TakerActs

LEMMA MakerInvTaker ==
    ASSUME TypeOK, MakerInv, TakerProgram, cast' = cast
    PROVE  MakerInv'
<1>1. /\ head' = head /\ deep' = deep /\ now' = now /\ maker' = maker
      /\ secret' = secret /\ sent \subseteq sent'
  BY TakerSteps DEF TakerSide, TakerSends
<1>2. /\ taker'.doing = "claim" => head["r"].revealed
      /\ \A tx \in sent' \ sent : tx.op = "claim" => tx.leg = "i" /\ taker.doing = "claim"
  BY TakerActsOnPass
<1>3. ClaimsOn("r")' = ClaimsOn("r")
  BY <1>1, <1>2 DEF ClaimsOn
<1>4. SecretOut' => SecretOut
  <2>1. (\E tx \in sent' : tx.op = "claim") => (\E tx \in sent : tx.op = "claim") \/ taker.doing = "claim"
    BY <1>2
  <2>2. taker'.doing = "claim" => \E l \in Legs : head[l].revealed
    BY <1>2 DEF Legs
  <2> QED BY <1>1, <2>1, <2>2 DEF SecretOut
<1>5. "maker" \in Honest => MakerTrusts'
  BY <1>1 DEF MakerInv, MakerTrusts
<1> QED BY <1>1, <1>3, <1>4, <1>5, MakerUnmoved

\* The maker claims what it trusts, early enough.
LEMMA MakerInvClaims ==
    ASSUME TypeOK, ChainsAgree, MakerInv, MakerClaims, cast' = cast, maker'.doing = "none"
    PROVE  MakerInv'
<1> SUFFICES ASSUME "maker" \in Honest
             PROVE  MakerTrusts' /\ SecretHeld' /\ MakerCollects'
  BY DEF MakerInv, Honest
<1>i. MakerTrusts /\ SecretHeld /\ MakerCollects
  BY DEF MakerInv
<1>u. /\ now' = now /\ head' = head /\ deep' = deep /\ taker' = taker
      /\ maker.doing = "claim"
  BY DEF MakerClaims
<1>1. MakerTrusts'
  BY DEF MakerTrusts
<1>2. CASE sent' = sent
  <2>1. secret' = secret
    BY <1>2 DEF MakerClaims
  <2>2. SecretOut' => SecretOut
    BY <1>2, <1>u, <2>1 DEF SecretOut
  <2>3. ClaimsOn("r")' = ClaimsOn("r")
    BY <1>2 DEF ClaimsOn
  <2> QED BY <1>1, <1>u, <2>2, <2>3, MakerUnmoved DEF MakerInv, Honest
<1>3. CASE sent' # sent
  <2> DEFINE tx == Tx("maker", "claim", "r", now)
  <2>1. PreflightPasses("r", MakerClaimSafety) /\ sent' = sent \cup {tx}
    BY <1>3 DEF MakerClaims, Broadcast
  <2>2. tx.op = "claim" /\ tx.leg = "r" /\ tx.at = now
    BY DEF Tx
  <2>3. ClaimsOn("r")' = ClaimsOn("r") \cup {tx}
    BY <2>1, <2>2 DEF ClaimsOn
  <2> HIDE DEF tx
  <2>4. SecretHeld'
    BY <2>3 DEF SecretHeld
  <2>5. deep["r"].status # "None" /\ Pays(deep["r"], "maker")
    BY <1>i, <1>u DEF MakerTrusts
  <2>6. /\ now \in Nat /\ Final \in Nat /\ head["r"].timeout \in Nat
        /\ MakerClaimSafety \in Nat /\ Final <= MakerClaimSafety
    BY ConstantFacts DEF TypeOK, Legs, Escrows
  <2>7. /\ head["r"].status = "Open"
        /\ now + Final < head["r"].timeout /\ now <= now + Final
    BY <2>1, <2>6 DEF PreflightPasses, CanClaim
  <2>8. \A t \in ClaimsOn("r") : t.at + Final < head["r"].timeout
    BY <1>i DEF MakerCollects
  <2>9. MakerCollects'
    <3>1. \A t \in ClaimsOn("r") \cup {tx} : t.at + Final < head["r"].timeout
      BY <2>2, <2>7, <2>8
    <3>2. \E t \in ClaimsOn("r") \cup {tx} : now <= t.at + Final
      BY <2>2, <2>7
    <3> QED BY <1>u, <2>3, <2>5, <2>7, <3>1, <3>2 DEF MakerCollects
  <2> QED BY <1>1, <2>4, <2>9
<1> QED BY <1>2, <1>3

LEMMA MakerInvMaker ==
    ASSUME TypeOK, ChainsAgree, MakerInv, MakerProgram, cast' = cast
    PROVE  MakerInv'
<1>t. maker \in MakerRecords
  BY DEF TypeOK
<1>u. head' = head /\ deep' = deep /\ now' = now /\ taker' = taker
  BY MakerSteps DEF MakerSide
<1>1. ASSUME NEW a \in BOOLEAN, NEW b \in BOOLEAN, NEW c \in BOOLEAN,
             NEW bookUp \in BookReads, MakerPasses(a, b, c, bookUp)
      PROVE  MakerInv'
  <2> DEFINE i == legStateOrNull(getSwapState("i"), a)
             r == legStateOrNull(getSwapState("r"), b)
             d == legStateOrNull(getConfirmedSwapState("r"), c)
             decision == M!decide(MakerInput(i, r, d, bookUp))
  <2>1. /\ maker'.doing = (IF decision \in {"lock", "claim", "sponsor", "refund"}
                           THEN decision ELSE "none")
        /\ sent' = sent /\ secret' = secret
    BY <1>1, <1>t DEF MakerPasses, MakerRecords, chainVars
  <2>2. d # Null => d = deep["r"]
    BY DEF legStateOrNull, getConfirmedSwapState
  <2>3. /\ decision = "claim" => /\ d # Null /\ d.status = "Open" /\ Pays(d, "maker")
        /\ decision = "sponsor" => d # Null /\ d.status = "Claimed"
    BY MakerDecides
  <2> HIDE DEF i, r, d, decision
  <2>4. MakerTrusts'
    BY <1>u, <2>1, <2>2, <2>3 DEF MakerTrusts
  <2>5. maker'.doing = "sponsor" => \E l \in Legs : deep[l].status = "Claimed"
    BY <2>1, <2>2, <2>3 DEF Legs
  <2>6. SecretOut' => SecretOut
    BY <1>u, <2>1, <2>5 DEF SecretOut
  <2>7. ClaimsOn("r")' = ClaimsOn("r")
    BY <2>1 DEF ClaimsOn
  <2> QED BY <1>u, <2>4, <2>6, <2>7, MakerUnmoved
<1>2. ASSUME maker'.doing = "none", secret' = secret, sent \subseteq sent',
             \A tx \in sent' \ sent : tx.op = "claim" => tx.leg = "i" /\ maker.doing = "sponsor"
      PROVE  MakerInv'
  <2>1. MakerTrusts'
    BY <1>2 DEF MakerTrusts
  <2>2. ClaimsOn("r")' = ClaimsOn("r")
    BY <1>2 DEF ClaimsOn
  <2>3. SecretOut' => SecretOut
    BY <1>2, <1>u DEF SecretOut
  <2> QED BY <1>u, <2>1, <2>2, <2>3, MakerUnmoved
<1>3. ASSUME NEW bookUp \in BookReads, MakerLocks(bookUp)
      PROVE  MakerInv'
  <2>1. maker'.doing = "none" /\ secret' = secret
    BY <1>3, <1>t DEF MakerLocks, MakerRecords
  <2>2. sent \subseteq sent' /\ \A tx \in sent' \ sent : tx.op = "lock"
    BY <1>3 DEF MakerLocks, Broadcast, Tx
  <2> QED BY <1>2, <2>1, <2>2
<1>4. ASSUME MakerClaims
      PROVE  MakerInv'
  <2>1. maker'.doing = "none"
    BY <1>4, <1>t DEF MakerClaims, MakerRecords
  <2> QED BY <1>4, <2>1, MakerInvClaims
<1>5. ASSUME MakerSponsors
      PROVE  MakerInv'
  <2>1. maker'.doing = "none" /\ secret' = secret /\ maker.doing = "sponsor"
    BY <1>5, <1>t DEF MakerSponsors, MakerRecords
  <2>2. sent \subseteq sent' /\ \A tx \in sent' \ sent : tx.leg = "i"
    BY <1>5 DEF MakerSponsors, Broadcast, Tx
  <2> QED BY <1>2, <2>1, <2>2
<1>6. ASSUME MakerRefunds
      PROVE  MakerInv'
  <2>1. maker'.doing = "none" /\ secret' = secret
    BY <1>6, <1>t DEF MakerRefunds, MakerRecords
  <2>2. sent \subseteq sent' /\ \A tx \in sent' \ sent : tx.op = "refund"
    BY <1>6 DEF MakerRefunds, Broadcast, Tx
  <2> QED BY <1>2, <2>1, <2>2
<1>7. ASSUME MakerCrashes
      PROVE  MakerInv'
  <2>1. maker'.doing = "none" /\ secret' = secret /\ sent' = sent
    BY <1>7, <1>t DEF MakerCrashes, MakerRecords, chainVars
  <2> QED BY <1>2, <2>1
<1> QED BY <1>1, <1>3, <1>4, <1>5, <1>6, <1>7 DEF MakerProgram, MakerActs

LEMMA MakerInvStep ==
    ASSUME TypeOK, ChainsAgree, MakerInv, Next
    PROVE  MakerInv'
<1>c. cast' = cast
  BY StepKinds
<1>1. CASE Chain
  BY <1>1, <1>c, ChainBlocks, MakerInvBlock
<1>2. CASE MakerProgram
  BY <1>2, <1>c, MakerInvMaker
<1>3. CASE TakerProgram
  BY <1>3, <1>c, MakerInvTaker
<1>4. CASE HostileWalkAway \/ Later
  <2>1. head' = head /\ deep' = deep /\ now' = now /\ sent' = sent /\ secret' = secret
    BY <1>4 DEF HostileWalkAway, Later, chainVars
  <2>2. maker'.doing = maker.doing /\ taker'.doing = taker.doing
    BY <1>4 DEF HostileWalkAway, Later, TypeOK, MakerRecords, TakerRecords
  <2>3. "maker" \in Honest => MakerTrusts'
    BY <2>1, <2>2 DEF MakerInv, MakerTrusts
  <2>4. (SecretOut' => SecretOut) /\ ClaimsOn("r")' = ClaimsOn("r")
    BY <2>1, <2>2 DEF SecretOut, ClaimsOn
  <2> QED BY <1>c, <2>1, <2>3, <2>4, MakerUnmoved
<1>5. CASE Tick
  <2> SUFFICES ASSUME "maker" \in Honest
               PROVE  MakerTrusts' /\ SecretHeld' /\ MakerCollects'
    BY <1>c DEF MakerInv, Honest
  <2>1. /\ head' = head /\ deep' = deep /\ sent' = sent /\ secret' = secret
        /\ maker' = maker /\ taker' = taker /\ now' = now + 1 /\ ClaimsKeepUp
    BY <1>5 DEF Tick, chainVars
  <2>2. MakerTrusts /\ SecretHeld /\ MakerCollects
    BY DEF MakerInv
  <2>3. MakerTrusts' /\ SecretHeld'
    BY <2>1, <2>2 DEF MakerTrusts, SecretHeld, SecretOut, ClaimsOn
  <2>4. ASSUME NEW tx \in ClaimsOn("r"), head["r"].status = "Open", now <= tx.at + Final,
               tx.at + Final < head["r"].timeout, Pays(head["r"], "maker")
        PROVE  now + 1 <= tx.at + Final
    <3>1. now \in Nat /\ tx.at \in Nat /\ Final \in Nat /\ head["r"].timeout \in Nat
      BY ConstantFacts DEF TypeOK, ClaimsOn, Txs, Legs, Escrows
    <3>2. CanClaim("r")
      BY <2>4, <3>1, NullAssumption DEF CanClaim, Pays, Parties
    <3>3. ~(now >= tx.at + Final)
      BY <2>1, <3>2 DEF ClaimsKeepUp, ClaimsOn
    <3> QED BY <2>4, <3>1, <3>3
  <2>5. deep["r"].status # "None" /\ Pays(deep["r"], "maker") => Pays(head["r"], "maker")
    BY NullAssumption DEF ChainsAgree, Confirmed, Continues, Pays, Legs, Parties
  <2>6. MakerCollects'
    BY <2>1, <2>2, <2>4, <2>5 DEF MakerCollects, ClaimsOn
  <2> QED BY <2>3, <2>6
<1> QED BY <1>1, <1>2, <1>3, <1>4, <1>5, StepKinds

LEMMA InitPrograms ==
    ASSUME Init
    PROVE  MakerInv /\ TakerInv
<1>1. \A l \in Legs : head[l] = NoEscrow /\ deep[l] = NoEscrow
  BY DEF Init
<1>2. NoEscrow.status = "None" /\ ~NoEscrow.revealed
  BY DEF NoEscrow
<1>3. "i" \in Legs /\ "r" \in Legs
  BY DEF Legs
<1>4. /\ sent = {} /\ secret = "private" /\ maker.doing = "none" /\ taker.doing = "none"
      /\ taker.claimSentAt = Null
  BY DEF Init
<1>5. MakerInv
  BY <1>1, <1>2, <1>3, <1>4 DEF MakerInv, MakerTrusts, SecretHeld, SecretOut,
                                MakerCollects, ClaimsOn
<1>6. TakerInv
  BY <1>1, <1>2, <1>3, <1>4 DEF TakerInv, TakerTrusts, TakerLocked, TakersOwn, OwnEscrow,
                                MarkerTold, TakerClaimsSent, TakerCollects, TakerPaid
<1> QED BY <1>5, <1>6

LEMMA MakerInvSafe ==
    ASSUME TypeOK, ChainsAgree, MakerInv
    PROVE  MakerNotShorted
<1> SUFFICES ASSUME "maker" \in Honest, head["i"].status = "Claimed"
             PROVE  PaidTo(head["r"], "maker") \/ ClaimOnItsWay("maker", "r")
  BY DEF MakerNotShorted
<1>1. ClaimsOn("r") # {}
  BY DEF MakerInv, SecretHeld, SecretOut, Legs
<1>2. MakerCollects
  BY DEF MakerInv
<1>3. Pays(head["r"], "maker")
  BY <1>1, <1>2, NullAssumption
     DEF MakerCollects, ChainsAgree, Confirmed, Continues, Pays, Legs, Parties
<1>4. CASE head["r"].status = "Claimed"
  BY <1>3, <1>4 DEF PaidTo, Pays
<1>5. CASE head["r"].status = "Open"
  <2>1. PICK tx \in ClaimsOn("r") : now <= tx.at + Final
    BY <1>1, <1>2, <1>5 DEF MakerCollects
  <2>2. tx \in sent /\ tx.op = "claim" /\ tx.leg = "r"
    BY DEF ClaimsOn
  <2>3. now \in Nat /\ tx.at \in Nat /\ Final \in Nat /\ head["r"].timeout \in Nat
    BY <2>2, ConstantFacts DEF TypeOK, Txs, Legs, Escrows
  <2>4. now < head["r"].timeout
    BY <1>1, <1>2, <2>1, <2>3 DEF MakerCollects
  <2> QED BY <1>3, <1>5, <2>1, <2>2, <2>4 DEF ClaimOnItsWay, Pays
<1> QED BY <1>1, <1>2, <1>4, <1>5 DEF MakerCollects

(* The state of the two legs and of both programs is well-formed, and what *)
(* is confirmed of a leg stays on its chain.                               *)
THEOREM SwapTyped == Spec => [](TypeOK /\ ChainsAgree)
<1>1. Init => TypeOK /\ ChainsAgree
  BY InitTypeOK
<1>2. TypeOK /\ ChainsAgree /\ [Next]_vars => (TypeOK /\ ChainsAgree)'
  <2>1. CASE UNCHANGED vars
    BY <2>1 DEF vars, TypeOK, ChainsAgree, RefundedLate
  <2> QED BY <2>1, TypeStep, AgreeStep
<1> QED BY <1>1, <1>2, PTL DEF Spec

(* An honest maker never pays without being paid: for every taker, timing, *)
(* hostile lock, reorganisation, crash and lost send, once the maker's own *)
(* escrow is claimed the taker's has paid it, or its claim is still good.  *)
THEOREM MakerNeverShorted == Spec => []MakerNotShorted
<1>1. Init => TypeOK /\ ChainsAgree /\ MakerInv
  BY InitTypeOK, InitPrograms
<1>2. TypeOK /\ ChainsAgree /\ MakerInv /\ [Next]_vars
        => (TypeOK /\ ChainsAgree /\ MakerInv)'
  <2>1. CASE UNCHANGED vars
    <3>1. MakerInv => MakerInv'
      BY <2>1 DEF vars, MakerInv, MakerTrusts, SecretHeld, SecretOut, MakerCollects,
                  ClaimsOn, Honest
    <3> QED BY <2>1, <3>1 DEF vars, TypeOK, ChainsAgree, RefundedLate
  <2> QED BY <2>1, TypeStep, AgreeStep, MakerInvStep
<1>3. TypeOK /\ ChainsAgree /\ MakerInv => MakerNotShorted
  BY MakerInvSafe
<1> QED BY <1>1, <1>2, <1>3, PTL DEF Spec

-----------------------------------------------------------------------------
(* The taker is not shorted.                                               *)

LEMMA Products ==
    ASSUME NEW a \in Nat, NEW b \in Nat, NEW k \in Nat
    PROVE  /\ a * k \in Nat
           /\ (a + 1) * k = a * k + k
           /\ a >= 1 => k <= a * k
           /\ a <= b => a * k <= b * k
<1>1. a * k \in Nat /\ (a + 1) * k = a * k + k
  OBVIOUS
<1>2. ASSUME NEW c \in Nat PROVE c * k \in Nat /\ c * k >= 0
  OBVIOUS
<1>3. a >= 1 => k <= a * k
  <2>1. a >= 1 => a - 1 \in Nat /\ a * k = (a - 1) * k + k
    OBVIOUS
  <2> QED BY <1>2, <2>1
<1>4. a <= b => a * k <= b * k
  <2>1. a <= b => b - a \in Nat /\ b * k = (b - a) * k + a * k
    OBVIOUS
  <2> QED BY <1>2, <2>1
<1> QED BY <1>1, <1>3, <1>4

\* The taker's last due moment leaves its claim time to become final.
LEMMA DueByFacts ==
    ASSUME TypeOK
    PROVE  /\ DueBy \in Nat /\ Spacing \in Nat /\ T2 \in Nat /\ T2 <= DueBy
           /\ faults >= 1 => T2 + Spacing <= DueBy
           /\ DueBy + SubmitMargin < T2 + TakerClaimSafety
<1>1. /\ T2 \in Nat /\ reorgs \in Nat /\ faults \in Nat
      /\ reorgs <= MaxReorgs /\ faults <= MaxFaults
      /\ MaxReorgs \in Nat /\ MaxFaults \in Nat /\ SubmitMargin \in Nat
      /\ TakerClaimSafety \in Nat
  BY CastFacts, ConstantFacts DEF TypeOK
<1>2. Spacing \in Nat
  BY ConstantFacts DEF Spacing
<1>3. /\ faults * Spacing \in Nat /\ faults * Spacing <= MaxFaults * Spacing
      /\ faults >= 1 => Spacing <= faults * Spacing
      /\ MaxFaults * Spacing \in Nat
  BY <1>1, <1>2, Products
<1>4. SubmitMargin + MaxReorgs + MaxFaults * Spacing < TakerClaimSafety
  BY TimingAssumption DEF Spacing
<1> HIDE DEF Spacing
<1> DEFINE f == faults * Spacing
           g == MaxFaults * Spacing
<1>5. /\ f \in Nat /\ g \in Nat /\ f <= g /\ (faults >= 1 => Spacing <= f)
      /\ SubmitMargin + MaxReorgs + g < TakerClaimSafety /\ DueBy = T2 + reorgs + f
  BY <1>3, <1>4 DEF DueBy
<1> HIDE DEF f, g
<1> QED BY <1>1, <1>2, <1>5

LEMMA DueByGrows ==
    ASSUME TypeOK, cast' = cast, reorgs' \in {reorgs, reorgs + 1},
           faults' \in {faults, faults + 1}
    PROVE  /\ DueBy' \in Nat /\ DueBy <= DueBy'
           /\ reorgs' = reorgs + 1 => DueBy + 1 <= DueBy'
           /\ faults' = faults + 1 => DueBy + Spacing <= DueBy'
<1>1. T2 \in Nat /\ reorgs \in Nat /\ faults \in Nat /\ T2' = T2
  BY CastFacts, ConstantFacts DEF TypeOK, T2
<1>2. Spacing \in Nat
  BY ConstantFacts DEF Spacing
<1>3. faults * Spacing \in Nat /\ (faults + 1) * Spacing = faults * Spacing + Spacing
  BY <1>1, <1>2, Products
<1>4. Spacing' = Spacing
  BY DEF Spacing
<1> HIDE DEF Spacing
<1> DEFINE f == faults * Spacing
           f1 == faults' * Spacing
<1>5. /\ f \in Nat /\ (faults' = faults => f1 = f) /\ (faults' = faults + 1 => f1 = f + Spacing)
      /\ DueBy = T2 + reorgs + f /\ DueBy' = T2 + reorgs' + f1
  BY <1>1, <1>3, <1>4 DEF DueBy
<1> HIDE DEF f, f1
<1> QED BY <1>1, <1>2, <1>5

\* While the taker's escrow can be claimed, and a retry interval per fault
\* after that, the maker's escrow is open or has paid.
LEMMA AmpleLeg ==
    ASSUME TypeOK, ChainsAgree, Ample(deep["i"])
    PROVE  /\ head["i"] \in Escrows /\ head["i"].timeout \in Nat
           /\ Pays(head["i"], "taker") /\ head["i"].recipient # Nobody
           /\ DueBy + SubmitMargin < head["i"].timeout
           /\ now < head["i"].timeout => head["i"].status \in {"Open", "Claimed"}
<1>1. /\ head["i"] \in Escrows /\ deep["i"] \in Escrows /\ now \in Nat
      /\ Confirmed(deep["i"], head["i"]) /\ RefundedLate(head["i"])
  BY DEF TypeOK, ChainsAgree, Legs
<1>2. /\ head["i"].timeout \in Nat /\ head["i"].status \in Statuses
  BY <1>1 DEF Escrows
<1>3. /\ Pays(head["i"], "taker") /\ head["i"].status # "None"
      /\ head["i"].timeout = deep["i"].timeout /\ head["i"].recipient # Nobody
  BY <1>1, NullAssumption DEF Ample, Confirmed, Continues, Pays, Parties
<1>4. DueBy + SubmitMargin < head["i"].timeout
  <2>1. head["i"].timeout >= T2 + TakerClaimSafety
    BY <1>3 DEF Ample
  <2> QED BY <2>1, <1>2, DueByFacts, ConstantFacts
<1>5. now < head["i"].timeout => head["i"].status # "Refunded"
  BY <1>1, <1>2, <1>3 DEF RefundedLate
<1> QED BY <1>1, <1>2, <1>3, <1>4, <1>5 DEF Statuses

LEMMA TakerTrustsStep ==
    ASSUME TypeOK, ChainsAgree, TakerTrusts, Next
    PROVE  TakerTrusts'
<1>c. cast' = cast /\ T2' = T2
  BY StepKinds DEF T2
<1>1. CASE Chain
  <2>1. Block /\ sent' = sent /\ taker' = taker
    BY <1>1, <1>c, ChainBlocks DEF Block, Outside
  <2>2. Ample(deep["i"]) => Ample(deep["i"])'
    BY <1>c, <2>1, TrustedLeg DEF Ample, Legs
  <2> QED BY <2>1, <2>2 DEF TakerTrusts, TakerLocked
<1>2. ASSUME deep' = deep, TakerLocked' => TakerLocked \/ taker.doing = "lock",
             taker'.doing = "lock" => taker.doing = "lock" \/ Ample(deep["i"])
      PROVE  TakerTrusts'
  BY <1>2, <1>c DEF TakerTrusts, Ample
<1>3. CASE MakerProgram
  <2>1. MakerSide
    BY <1>3, <1>c, MakerSteps
  <2>2. TakerLocked' => TakerLocked
    BY <2>1 DEF MakerSide, MakerSends, TakerLocked
  <2> QED BY <1>2, <2>1, <2>2 DEF MakerSide
<1>4. CASE TakerProgram
  <2>1. deep' = deep
    BY <1>4, <1>c, TakerSteps DEF TakerSide
  <2>2. /\ taker'.doing = "lock" => Ample(deep["i"])
        /\ \A tx \in sent' \ sent : tx.op = "lock" => taker.doing = "lock"
    BY <1>4, TakerActsOnPass
  <2>3. TakerLocked' => TakerLocked \/ taker.doing = "lock"
    BY <2>2 DEF TakerLocked
  <2> QED BY <1>2, <2>1, <2>2, <2>3
<1>5. CASE HostileWalkAway \/ Tick \/ Later
  <2>1. deep' = deep /\ sent' = sent
    BY <1>5 DEF HostileWalkAway, Tick, Later, chainVars
  <2>2. taker'.doing = taker.doing
    BY <1>5 DEF HostileWalkAway, Tick, Later, TypeOK, TakerRecords
  <2> QED BY <1>2, <2>1, <2>2 DEF TakerLocked
<1> QED BY <1>1, <1>3, <1>4, <1>5, StepKinds

LEMMA TakersOwnStep ==
    ASSUME TypeOK, TakersOwn, Next, "taker" \in Honest
    PROVE  TakersOwn'
<1>c. cast' = cast /\ T2' = T2
  BY StepKinds DEF T2
<1>1. CASE Chain
  <2>1. Block /\ sent' = sent /\ cast \in Casts
    BY <1>1, <1>c, ChainBlocks DEF Block, Outside, TypeOK
  <2>2. TakerLocked' = TakerLocked
    BY <2>1 DEF TakerLocked
  <2>3. /\ Moves("r") /\ head["r"] \in Escrows /\ deep["r"] \in Escrows
        /\ OwnEscrow(head["r"]) /\ OwnEscrow(deep["r"])
    BY <2>1 DEF Block, TypeOK, TakersOwn, Legs
  <2>4. ASSUME OwnEscrow(head'["r"]), OwnEscrow(deep'["r"])
        PROVE  TakersOwn'
    BY <1>c, <2>2, <2>4 DEF TakersOwn, OwnEscrow
  <2>5. CASE Kept("r") \/ Buried("r") \/ Replaced("r")
    BY <2>3, <2>4, <2>5 DEF Kept, Buried, Replaced
  <2>6. CASE Locked("r")
    <3>1. \A e \in cast.locks :
             Escrow(e.by, e.to, e.token, e.amount, e.timeout).initiator # "taker"
      <4>1. \A e \in cast.locks : e.by \notin Honest
        BY <2>1, CastFacts
      <4> QED BY <4>1 DEF Escrow
    <3>2. Agreed("r").timeout = T2
      BY <2>1, CastFacts
    <3>3. OwnEscrow(head'["r"])
      BY <2>6, <3>1, <3>2 DEF Locked, OwnEscrow, TakerLocked
    <3> QED BY <2>3, <2>4, <2>6, <3>3 DEF Locked
  <2>7. CASE Assigned("r") \/ Collected("r") \/ Returned("r")
    <3>1. /\ head["r"].status = "Open" /\ head'["r"].initiator = head["r"].initiator
          /\ head'["r"].timeout = head["r"].timeout /\ deep'["r"] = deep["r"]
      BY <2>3, <2>7 DEF Assigned, Collected, Returned, CanClaim, Escrows
    <3> QED BY <2>3, <2>4, <3>1 DEF OwnEscrow
  <2> QED BY <2>3, <2>5, <2>6, <2>7 DEF Moves
<1>2. ASSUME head' = head, deep' = deep, sent \subseteq sent'
      PROVE  TakersOwn'
  BY <1>2, <1>c DEF TakersOwn, OwnEscrow, TakerLocked
<1>3. CASE MakerProgram
  BY <1>2, <1>3, <1>c, MakerSteps DEF MakerSide, MakerSends
<1>4. CASE TakerProgram
  BY <1>2, <1>4, <1>c, TakerSteps DEF TakerSide, TakerSends
<1>5. CASE HostileWalkAway \/ Tick \/ Later
  BY <1>2, <1>5 DEF HostileWalkAway, Tick, Later, chainVars
<1> QED BY <1>1, <1>3, <1>4, <1>5, StepKinds

LEMMA MarkerToldStep ==
    ASSUME TypeOK, MarkerTold, Next
    PROVE  MarkerTold'
<1>c. cast' = cast
  BY StepKinds
<1>t. /\ now \in Nat /\ faults \in Nat /\ \A tx \in sent : tx.at \in Nat
      /\ taker \in TakerRecords /\ taker.claimSentAt \in Markers
  BY ConstantFacts DEF TypeOK, Txs, TakerRecords
<1>1. ASSUME now' = now \/ now' = now + 1, sent \subseteq sent', faults' >= faults,
             faults' \in Nat, taker'.claimSentAt = taker.claimSentAt,
             \A tx \in sent' \ sent : /\ tx.at <= now /\ tx.at \in Nat
                                      /\ tx \in TakerClaimsSent' => tx.leg = "i"
      PROVE  MarkerTold'
  <2>1. \A tx \in sent' : tx.at <= now'
    BY <1>1, <1>t DEF MarkerTold
  <2>2. \A tx \in TakerClaimsSent' : tx.leg = "i"
    BY <1>1 DEF MarkerTold, TakerClaimsSent
  <2>3. ASSUME taker.claimSentAt # Null
        PROVE  /\ taker.claimSentAt <= now'
               /\ TakerClaimsSent' = {} => faults' >= 1
    <3>1. taker.claimSentAt \in Nat
      BY <2>3, <1>t DEF Markers
    <3>2. TakerClaimsSent' = {} => TakerClaimsSent = {}
      BY <1>1 DEF TakerClaimsSent
    <3> QED BY <2>3, <3>1, <3>2, <1>1, <1>t DEF MarkerTold
  <2> QED BY <2>1, <2>2, <2>3, <1>1 DEF MarkerTold
<1>2. CASE Chain
  BY <1>1, <1>2, <1>c, <1>t, ChainBlocks DEF Block, Outside
<1>3. CASE MakerProgram
  <2>1. MakerSide
    BY <1>3, <1>c, MakerSteps
  <2>2. /\ now' = now /\ sent \subseteq sent' /\ taker' = taker
        /\ \A tx \in sent' \ sent : /\ tx.at <= now /\ tx.at \in Nat /\ tx.by = "maker"
    BY <2>1 DEF MakerSide, MakerSends, Txs
  <2>3. faults' >= faults /\ faults' \in Nat
    BY <2>1, <1>t DEF MakerSide, Faulty
  <2>4. \A tx \in TakerClaimsSent' : tx.by = "taker"
    BY DEF TakerClaimsSent
  <2> QED BY <1>1, <2>2, <2>3, <2>4
<1>4. CASE TakerProgram
  <2>1. TakerSide
    BY <1>4, <1>c, TakerSteps
  <2>2. /\ now' = now /\ sent \subseteq sent'
        /\ \A tx \in sent' \ sent : tx.at <= now /\ tx.at \in Nat
    BY <2>1 DEF TakerSide, TakerSends, Txs
  <2>3. faults' >= faults /\ faults' \in Nat
    BY <2>1, <1>t DEF TakerSide, Faulty
  <2>4. \A tx \in sent' \ sent : tx \in TakerClaimsSent' => tx.leg = "i"
    BY <1>4, TakerActsOnPass DEF TakerClaimsSent
  <2>5. CASE taker'.claimSentAt = taker.claimSentAt
    BY <1>1, <2>2, <2>3, <2>4, <2>5
  <2>6. CASE taker'.claimSentAt # taker.claimSentAt
    <3>a. ASSUME NEW a, NEW b, NEW c, NEW abandon, NEW bookUp,
                 TakerPasses(a, b, c, bookUp, abandon)
          PROVE  taker'.claimSentAt = taker.claimSentAt
      BY <3>a, <1>t DEF TakerPasses, TakerRecords
    <3>b. ASSUME TakerLocks \/ TakerRefunds \/ TakerReleases \/ TakerCrashes
          PROVE  taker'.claimSentAt = taker.claimSentAt
      BY <3>b, <1>t DEF TakerLocks, TakerRefunds, TakerReleases, TakerCrashes, TakerRecords
    <3>1. TakerClaims
      BY <1>4, <2>6, <3>a, <3>b DEF TakerProgram, TakerActs
    <3>2. /\ taker'.claimSentAt = now
          /\ Broadcast(Tx("taker", "claim", "i", now))
      BY <3>1, <1>t, <2>6 DEF TakerClaims, nowS, TakerRecords
    <3>3. TakerClaimsSent' = {} => faults' = faults + 1
      <4> DEFINE tx == Tx("taker", "claim", "i", now)
      <4>1. tx.op = "claim" /\ tx.by = "taker"
        BY DEF Tx
      <4>2. tx \in sent' \/ faults' = faults + 1
        BY <3>2 DEF Broadcast
      <4> HIDE DEF tx
      <4> QED BY <4>1, <4>2 DEF TakerClaimsSent
    <3>4. \A tx \in sent' : tx.at <= now'
      BY <2>2 DEF MarkerTold
    <3>5. \A tx \in TakerClaimsSent' : tx.leg = "i"
      BY <2>4 DEF MarkerTold, TakerClaimsSent
    <3> QED BY <3>2, <3>3, <3>4, <3>5, <2>2, <1>t DEF MarkerTold
  <2> QED BY <2>5, <2>6
<1>5. CASE HostileWalkAway \/ Tick
  BY <1>1, <1>5, <1>t DEF HostileWalkAway, Tick, chainVars
<1>6. CASE Later
  <2>1. sent' = sent /\ now' = now /\ faults' = faults
    BY <1>6 DEF Later, chainVars
  <2>2. taker'.claimSentAt = Aged(taker.claimSentAt)
    BY <1>6, <1>t DEF Later, TakerRecords
  <2>3. taker'.claimSentAt # Null => taker.claimSentAt # Null /\ taker'.claimSentAt = 0
    BY <2>2 DEF Aged
  <2> QED BY <2>1, <2>3, <1>t DEF MarkerTold, TakerClaimsSent
<1> QED BY <1>2, <1>3, <1>4, <1>5, <1>6, StepKinds

\* What decideTaker() returns once the taker's escrow has paid the maker.
LEMMA TakerDecidesPaid ==
    ASSUME cast \in Casts, NEW iState \in Escrows, NEW iConfirmed,
           NEW rState \in Escrows, NEW bookUp, NEW abandon,
           rState.status = "Claimed", rState.revealed, rState.initiator = "taker"
    PROVE  LET d == T!decideTaker(TakerInput(iState, iConfirmed, rState, bookUp, abandon)) IN
           /\ iState.status = "Claimed" => d = "finish"
           /\ /\ iState.status = "Open" /\ now < iState.timeout - SubmitMargin
              /\ taker.claimSentAt = Null \/ now - taker.claimSentAt > ResendAfter
              => d = "claim"
<1> DEFINE x == TakerInput(iState, iConfirmed, rState, bookUp, abandon)
<1>1. /\ x.rState = rState /\ x.iState = iState /\ x.nowS = now
      /\ x.ourResponderAddress = "taker" /\ x.record.claimSentAt = taker.claimSentAt
      /\ x.initiatorCredit = 0 /\ x.responderCredit = 0
      /\ x.fill = [initiatorTimeout |-> T1, responderTimeout |-> T2]
  BY DEF TakerInput
<1> HIDE DEF x
<1>2. x.rState # Null /\ x.iState # Null
  BY <1>1, NullAssumption
<1>3. T!checkOwnLock(x.rState, x.plans.responder, x.ourResponderAddress) = "settled"
  BY <1>1, <1>2 DEF T!checkOwnLock
<1>4. T!exposed(x, "settled")
  BY DEF T!exposed
<1>5. ~T!WithdrawDue(x) /\ T!creditsSettled(x)
  BY <1>1 DEF T!WithdrawDue, T!positive, T!creditsSettled
<1>6. ASSUME iState.status = "Claimed", x.fill # Null
      PROVE  T!decideTaker(x) = "finish"
  <2>1. ~T!ClaimDue(x) /\ ~T!ClaimWindowClosed(x)
    BY <1>1, <1>6 DEF T!ClaimDue, T!ClaimWindowClosed, T!MakerEscrowOpen
  <2>2. T!terminal(x.iState) /\ T!terminal(x.rState)
    BY <1>1, <1>2, <1>6 DEF T!terminal
  <2> QED BY <1>2, <1>3, <1>4, <1>5, <1>6, <2>1, <2>2 DEF T!decideTaker
<1>7. ASSUME iState.status = "Open", now < iState.timeout - SubmitMargin, x.fill # Null,
             taker.claimSentAt = Null \/ now - taker.claimSentAt > ResendAfter
      PROVE  T!decideTaker(x) = "claim"
  <2>1. T!ClaimDue(x)
    BY <1>1, <1>2, <1>7 DEF T!ClaimDue, T!revealed, T!MakerEscrowOpen, T!retryOk
  <2> QED BY <1>2, <1>3, <1>4, <1>7, <2>1 DEF T!decideTaker
<1>8. x.fill # Null
  BY <1>1, CastFacts, NullAssumption
<1> QED BY <1>6, <1>7, <1>8 DEF x

\* As long as the taker's escrow can still be claimed, no claim is late.
LEMMA DueBefore ==
    ASSUME TypeOK, MarkerTold, now < T2, head["i"].status \in {"Open", "Claimed"}
    PROVE  Due
<1>1. /\ DueBy \in Nat /\ Spacing \in Nat /\ T2 \in Nat /\ T2 <= DueBy /\ now \in Nat
      /\ faults >= 1 => T2 + Spacing <= DueBy
  BY DueByFacts DEF TypeOK
<1> HIDE DEF DueBy, Spacing
<1>2. now < DueBy /\ now <= DueBy /\ now < DueBy + 1 /\ now <= DueBy + 1
  BY <1>1
<1>3. CASE TakerClaimsSent = {}
  <2>1. ASSUME taker.claimSentAt # Null PROVE taker.claimSentAt + Spacing <= DueBy
    <3>1. taker.claimSentAt \in Nat
      BY <2>1 DEF TypeOK, TakerRecords, Markers
    <3>2. taker.claimSentAt <= now /\ faults >= 1
      BY <1>3, <2>1 DEF MarkerTold
    <3> QED BY <1>1, <3>1, <3>2
  <2>2. now <= Latest /\ now < Latest
    BY <1>2 DEF Latest
  <2>3. Waiting
    BY <1>2, <2>1, <2>2 DEF Waiting
  <2> QED BY <1>3, <2>3 DEF Due
<1>4. CASE TakerClaimsSent # {}
  <2>1. PICK tx \in TakerClaimsSent : TRUE
    BY <1>4
  <2>2. tx.at <= now /\ tx.at \in Nat
    BY DEF MarkerTold, TakerClaimsSent, TypeOK, Txs
  <2>3. tx.at <= DueBy
    BY <1>1, <2>2
  <2> QED BY <1>2, <1>4, <2>3 DEF Due, Claiming
<1> QED BY <1>3, <1>4

LEMMA WaitingKept ==
    ASSUME TypeOK, Waiting, now' = now, DueBy \in Nat, DueBy' \in Nat, DueBy <= DueBy',
           Latest \in Nat, Latest' \in Nat, Latest <= Latest',
           taker'.claimSentAt = taker.claimSentAt,
           taker'.doing = "claim" => now <= DueBy,
           polled' /\ taker'.doing # "claim" =>
               (polled /\ taker.doing # "claim") \/ now < Latest'
    PROVE  Waiting'
<1>t. /\ now \in Nat /\ Spacing \in Nat /\ Spacing' = Spacing
      /\ taker.claimSentAt # Null => taker.claimSentAt \in Nat
  BY ConstantFacts DEF TypeOK, Spacing, TakerRecords, Markers
<1> HIDE DEF DueBy, Spacing, Latest
<1>1. now' <= Latest' /\ (taker'.doing = "claim" => now' <= DueBy')
  BY <1>t DEF Waiting
<1>2. now < Latest => now < Latest'
  BY <1>t
<1>3. polled' /\ taker'.doing # "claim" => now' < Latest'
  BY <1>2 DEF Waiting
<1>4. taker'.claimSentAt # Null => taker'.claimSentAt + Spacing' <= DueBy'
  BY <1>t DEF Waiting
<1> QED BY <1>1, <1>3, <1>4 DEF Waiting

LEMMA DueBlock ==
    ASSUME TypeOK, ChainsAgree, MarkerTold, Ample(deep["i"]), Due, Block
    PROVE  Due'
<1>u. /\ now' = now /\ sent' = sent /\ taker' = taker /\ polled' = polled
      /\ cast' = cast /\ faults' = faults /\ reorgs' \in {reorgs, reorgs + 1}
      /\ TakerClaimsSent' = TakerClaimsSent
  BY DEF Block, Outside, TakerClaimsSent
<1>t. /\ now \in Nat /\ Spacing \in Nat /\ DueBy \in Nat /\ DueBy' \in Nat /\ DueBy <= DueBy'
      /\ reorgs' = reorgs + 1 => DueBy + 1 <= DueBy'
      /\ Spacing' = Spacing /\ Final \in Nat /\ SubmitMargin \in Nat /\ Final <= SubmitMargin
      /\ \A tx \in TakerClaimsSent : tx.at \in Nat
      /\ taker.claimSentAt # Null => taker.claimSentAt \in Nat
  BY <1>u, DueByFacts, DueByGrows, ConstantFacts
     DEF TypeOK, Spacing, TakerClaimsSent, Txs, TakerRecords, Markers
<1>a. /\ head["i"].timeout \in Nat /\ DueBy + SubmitMargin < head["i"].timeout
  BY AmpleLeg
<1>m. \/ head'["i"].status = head["i"].status
      \/ head["i"].status = "Open" /\ head'["i"].status = "Claimed"
      \/ /\ head["i"].status = "Open" /\ head'["i"].status = "Refunded"
         /\ now >= head["i"].timeout
      \/ Replaced("i") /\ head'["i"].status = "Open"
  BY TrustedLeg DEF Ample, Legs
<1> HIDE DEF DueBy, Spacing
<1>1. head["i"].status = "Open" => now < head["i"].timeout
  <2>1. CASE TakerClaimsSent = {}
    BY <2>1, <1>t, <1>a DEF Due, Waiting, Latest
  <2>2. CASE TakerClaimsSent # {}
    BY <2>2, <1>t, <1>a DEF Due, Claiming
  <2> QED BY <2>1, <2>2
<1>2. head'["i"].status \in {"Open", "Claimed"}
  BY <1>1, <1>m, <1>t, <1>a DEF Due
<1>3. CASE TakerClaimsSent = {}
  <2>1. Waiting
    BY <1>3 DEF Due
  <2>2. Latest \in Nat /\ Latest' \in Nat /\ Latest <= Latest'
    <3>1. head["i"].status = "Claimed" /\ Replaced("i") => DueBy + 1 <= DueBy'
      BY <1>t DEF Replaced
    <3>2. Latest \in {DueBy, DueBy + 1} /\ Latest' \in {DueBy', DueBy' + 1}
      BY DEF Latest
    <3>3. CASE head'["i"].status = "Claimed"
      <4>1. Latest' = DueBy' + 1
        BY <3>3 DEF Latest
      <4>2. ASSUME NEW p \in Nat, NEW q \in Nat, p <= q, NEW m \in {p, p + 1}
            PROVE  m \in Nat /\ q + 1 \in Nat /\ m <= q + 1
        BY <4>2
      <4> QED BY <1>t, <3>2, <4>1, <4>2
    <3>4. CASE head'["i"].status = "Open" /\ head["i"].status = "Claimed"
      <4>1. Latest' = DueBy' /\ Latest = DueBy + 1
        BY <3>4 DEF Latest
      <4>2. DueBy + 1 <= DueBy'
        BY <1>m, <3>1, <3>4
      <4> QED BY <1>t, <4>1, <4>2
    <3>5. CASE head'["i"].status = "Open" /\ head["i"].status = "Open"
      <4>1. Latest' = DueBy' /\ Latest = DueBy
        BY <3>5 DEF Latest
      <4> QED BY <1>t, <4>1
    <3> QED BY <1>2, <3>3, <3>4, <3>5 DEF Due
  <2>3. taker'.doing = "claim" => now <= DueBy
    BY <1>u, <2>1 DEF Waiting
  <2>4. polled' /\ taker'.doing # "claim" => polled /\ taker.doing # "claim"
    BY <1>u
  <2>5. Waiting'
    BY <1>u, <1>t, <2>1, <2>2, <2>3, <2>4, WaitingKept
  <2> QED BY <1>2, <1>3, <1>u, <2>5 DEF Due
<1>4. CASE TakerClaimsSent # {}
  <2>1. PICK tx \in TakerClaimsSent :
          /\ tx.at <= DueBy
          /\ head["i"].status = "Open" => now <= DueBy \/ now <= tx.at + Final
    BY <1>4 DEF Due, Claiming
  <2>2. ASSUME head["i"].status = "Claimed", Replaced("i")
        PROVE  now <= tx.at + Final
    <3>1. tx \in sent /\ tx.op = "claim" /\ tx.leg = "i"
      BY DEF MarkerTold, TakerClaimsSent
    <3> QED BY <2>2, <3>1, <1>t DEF Replaced, FinalClaim
  <2>3. tx.at <= DueBy' /\ (now <= DueBy => now <= DueBy')
    BY <1>t, <2>1
  <2>4. head'["i"].status = "Open" => now <= DueBy' \/ now <= tx.at + Final
    BY <1>m, <2>1, <2>2, <2>3 DEF Due
  <2> QED BY <1>2, <1>4, <1>u, <2>3, <2>4 DEF Due, Claiming
<1> QED BY <1>3, <1>4

\* A step that moves neither chain nor clock and sends no claim of the
\* taker's keeps its claim due, whatever it costs in faults.
LEMMA DueKept ==
    ASSUME TypeOK, Due, head' = head, now' = now, cast' = cast, reorgs' = reorgs, Faulty,
           TakerClaimsSent' = TakerClaimsSent,
           taker'.claimSentAt = taker.claimSentAt,
           taker'.doing = "claim" => now <= DueBy,
           polled' /\ taker'.doing # "claim" =>
               \/ polled /\ taker.doing # "claim"
               \/ now < DueBy'
    PROVE  Due'
<1>t. /\ now \in Nat /\ Spacing \in Nat /\ DueBy \in Nat /\ DueBy' \in Nat /\ DueBy <= DueBy'
      /\ Spacing' = Spacing
      /\ taker.claimSentAt # Null => taker.claimSentAt \in Nat
      /\ \A tx \in TakerClaimsSent : tx.at \in Nat
  BY DueByFacts, DueByGrows
     DEF TypeOK, Spacing, TakerClaimsSent, Txs, TakerRecords, Markers, Faulty
<1> HIDE DEF DueBy, Spacing
<1>1. CASE TakerClaimsSent = {}
  <2>1. Waiting
    BY <1>1 DEF Due
  <2>2. Latest \in Nat /\ Latest' \in Nat /\ Latest <= Latest' /\ DueBy' <= Latest'
    <3>1. CASE head["i"].status = "Claimed"
      BY <1>t, <3>1 DEF Latest
    <3>2. CASE head["i"].status # "Claimed"
      BY <1>t, <3>2 DEF Latest
    <3> QED BY <3>1, <3>2
  <2>3. now < DueBy' => now < Latest'
    BY <1>t, <2>2
  <2>4. Waiting'
    BY <1>t, <2>1, <2>2, <2>3, WaitingKept
  <2> QED BY <1>1, <2>4 DEF Due
<1>2. CASE TakerClaimsSent # {}
  <2>1. PICK tx \in TakerClaimsSent :
          /\ tx.at <= DueBy
          /\ head["i"].status = "Open" => now <= DueBy \/ now <= tx.at + Final
    BY <1>2 DEF Due, Claiming
  <2>2. tx.at <= DueBy' /\ (now <= DueBy => now <= DueBy')
    BY <1>t, <2>1
  <2> QED BY <1>2, <2>1, <2>2 DEF Due, Claiming
<1> QED BY <1>1, <1>2

\* A complete pass claims, or finishes, or waits for its last send.
LEMMA DuePass ==
    ASSUME TypeOK, ChainsAgree, Ample(deep["i"]), Due, TakerPaid, cast' = cast,
           NEW a \in BOOLEAN, NEW b \in BOOLEAN, NEW c \in BOOLEAN,
           NEW abandon \in BOOLEAN, NEW bookUp \in BookReads,
           TakerPasses(a, b, c, bookUp, abandon), TakerPaid'
    PROVE  Due'
<1>t. /\ taker \in TakerRecords /\ now \in Nat /\ cast \in Casts
      /\ head["i"] \in Escrows /\ head["r"] \in Escrows
      /\ taker.claimSentAt # Null => taker.claimSentAt \in Nat
  BY DEF TypeOK, TakerRecords, Markers, Legs
<1>d. /\ DueBy \in Nat /\ Spacing \in Nat /\ ResendAfter \in Nat /\ SubmitMargin \in Nat
      /\ head["i"].timeout \in Nat /\ DueBy + SubmitMargin < head["i"].timeout
      /\ Spacing = ResendAfter + 1
  BY AmpleLeg, DueByFacts, ConstantFacts DEF Spacing
<1>u. /\ head' = head /\ now' = now /\ reorgs' = reorgs /\ faults' = faults
      /\ sent' = sent /\ taker.doing = "none" /\ taker'.claimSentAt = taker.claimSentAt
      /\ TakerClaimsSent' = TakerClaimsSent
  BY <1>t DEF TakerPasses, TakerIdle, TakerRecords, chainVars, TakerClaimsSent
<1>e. DueBy' = DueBy
  BY <1>u DEF DueBy, T2, Spacing
<1>r. /\ head["r"].status = "Claimed" /\ head["r"].initiator = "taker"
      /\ head["r"].revealed
  BY DEF TakerPaid, ChainsAgree, Told, Legs
<1> HIDE DEF DueBy, Spacing
<1> DEFINE i == legStateOrNull(getSwapState("i"), a)
           d == legStateOrNull(getConfirmedSwapState("i"), b)
           r == legStateOrNull(getSwapState("r"), c)
           decision == T!decideTaker(TakerInput(i, d, r, bookUp, abandon))
<1>1. /\ taker'.doing = (IF decision \in {"lock", "claim", "refund", "release"}
                         THEN decision ELSE "none")
      /\ decision = "finish" => taker'.outcome = FinishedAs(head["i"].status, head["r"].status)
      /\ polled' = (polled \/ (a /\ b /\ c))
  BY <1>t DEF TakerPasses, TakerRecords
<1>2. decision # "finish"
  <2>1. FinishedAs(head["i"].status, head["r"].status) # Null
    <3>1. head["i"].status = "Open" \/ head["i"].status = "Claimed"
      BY DEF Due
    <3> QED BY <3>1, <1>r, NullAssumption DEF FinishedAs
  <2> QED BY <2>1, <1>1 DEF TakerPaid
<1>4. a /\ c => /\ head["i"].status = "Claimed" => decision = "finish"
                /\ /\ head["i"].status = "Open" /\ now < head["i"].timeout - SubmitMargin
                   /\ taker.claimSentAt = Null \/ now - taker.claimSentAt > ResendAfter
                   => decision = "claim"
  <2> SUFFICES ASSUME a, c
               PROVE  /\ head["i"].status = "Claimed" => decision = "finish"
                      /\ /\ head["i"].status = "Open"
                         /\ now < head["i"].timeout - SubmitMargin
                         /\ taker.claimSentAt = Null \/ now - taker.claimSentAt > ResendAfter
                         => decision = "claim"
    OBVIOUS
  <2>1. i = head["i"] /\ r = head["r"]
    BY DEF legStateOrNull, getSwapState
  <2> HIDE DEF i, d, r
  <2> QED BY <2>1, <1>t, <1>r, TakerDecidesPaid
<1>c. taker'.doing = "claim" => head["i"].status = "Open"
  BY TakerActsOnPass DEF TakerProgram
<1> HIDE DEF i, d, r, decision
<1>5. CASE TakerClaimsSent # {}
  <2>1. PICK tx \in TakerClaimsSent :
          /\ tx.at <= DueBy
          /\ head["i"].status = "Open" => now <= DueBy \/ now <= tx.at + Final
    BY <1>5 DEF Due, Claiming
  <2> QED BY <1>5, <1>e, <1>u, <2>1 DEF Due, Claiming
<1>6. CASE TakerClaimsSent = {}
  <2>w. Waiting
    BY <1>6 DEF Due
  <2>1. taker'.doing = "claim" => now <= DueBy
    BY <1>c, <1>d, <1>t, <2>w DEF Waiting, Latest
  <2>2. ASSUME a, c, taker'.doing # "claim"
        PROVE  now < DueBy
    <3>1. head["i"].status = "Open" /\ decision # "claim"
      BY <1>1, <1>2, <1>4, <2>2 DEF Due
    <3>2. now <= DueBy
      BY <2>w, <3>1, <1>d, <1>t DEF Waiting, Latest
    <3>3. now < head["i"].timeout - SubmitMargin
      BY <3>2, <1>d, <1>t
    <3>4. taker.claimSentAt # Null /\ ~(now - taker.claimSentAt > ResendAfter)
      BY <1>4, <2>2, <3>1, <3>3
    <3>5. taker.claimSentAt + Spacing <= DueBy
      BY <2>w, <3>4 DEF Waiting
    <3> QED BY <3>4, <3>5, <1>d, <1>t
  <2>3. polled' /\ taker'.doing # "claim" =>
            (polled /\ taker.doing # "claim") \/ now < DueBy'
    BY <1>1, <1>u, <1>e, <2>2
  <2>4. Faulty
    BY <1>u, NoFault
  <2> QED BY <1>u, <2>1, <2>3, <2>4, DueKept
<1> QED BY <1>5, <1>6

\* A claim that goes out is in time; one that is lost is due again after a
\* retry interval.
LEMMA DueClaims ==
    ASSUME TypeOK, ChainsAgree, Ample(deep["i"]), Due, TakerClaims, cast' = cast
    PROVE  Due'
<1>t. /\ taker \in TakerRecords /\ now \in Nat
  BY DEF TypeOK
<1>u. /\ head' = head /\ now' = now /\ reorgs' = reorgs /\ polled' = polled
      /\ taker.doing = "claim" /\ taker'.doing = "none"
  BY <1>t DEF TakerClaims, TakerRecords
<1>f. Faulty /\ sent \subseteq sent'
  BY TakerSteps DEF TakerProgram, TakerActs, TakerSide, TakerSends
<1>d. /\ DueBy \in Nat /\ DueBy' \in Nat /\ DueBy <= DueBy' /\ SubmitMargin \in Nat
      /\ Spacing \in Nat /\ Spacing >= 1 /\ Spacing' = Spacing
      /\ faults' = faults + 1 => DueBy + Spacing <= DueBy'
      /\ head["i"].timeout \in Nat /\ DueBy + SubmitMargin < head["i"].timeout
      /\ head["i"].recipient # Nobody
      /\ \A tx \in TakerClaimsSent : tx.at \in Nat
  BY <1>u, <1>f, AmpleLeg, DueByFacts, DueByGrows, ConstantFacts
     DEF Faulty, Spacing, TypeOK, TakerClaimsSent, Txs
<1> HIDE DEF DueBy, Spacing
<1>1. CASE TakerClaimsSent # {}
  <2>1. PICK tx \in TakerClaimsSent :
          /\ tx.at <= DueBy
          /\ head["i"].status = "Open" => now <= DueBy \/ now <= tx.at + Final
    BY <1>1 DEF Due, Claiming
  <2>2. tx \in TakerClaimsSent'
    BY <1>f DEF TakerClaimsSent
  <2>3. tx.at <= DueBy' /\ (now <= DueBy => now <= DueBy')
    BY <1>d, <1>t, <2>1
  <2> QED BY <1>u, <2>1, <2>2, <2>3 DEF Due, Claiming
<1>2. CASE TakerClaimsSent = {}
  <2>w. Waiting /\ now <= DueBy
    BY <1>2, <1>u DEF Due, Waiting
  <2>1. CASE head["i"].status = "Claimed"
    <3>1. ~PreflightPasses("i", SubmitMargin)
      BY <2>1 DEF PreflightPasses, CanClaim
    <3>2. sent' = sent /\ faults' = faults /\ taker'.claimSentAt = taker.claimSentAt
      BY <3>1, <1>t DEF TakerClaims, TakerRecords
    <3>3. TakerClaimsSent' = {} /\ DueBy' = DueBy
      BY <1>2, <1>u, <3>2 DEF TakerClaimsSent, DueBy, T2, Spacing
    <3>4. /\ Latest = DueBy + 1 /\ Latest' = DueBy + 1 /\ now < Latest'
          /\ Latest \in Nat /\ Latest <= Latest'
      BY <1>u, <1>d, <1>t, <2>1, <2>w, <3>3 DEF Latest
    <3>5. Waiting'
      BY <1>u, <1>d, <2>w, <3>2, <3>3, <3>4, WaitingKept
    <3> QED BY <1>u, <2>1, <3>3, <3>5 DEF Due
  <2>2. CASE head["i"].status = "Open"
    <3>1. PreflightPasses("i", SubmitMargin)
      BY <1>d, <1>t, <2>2, <2>w DEF PreflightPasses, CanClaim
    <3> DEFINE tx == Tx("taker", "claim", "i", now)
    <3>2. taker'.claimSentAt = now /\ Broadcast(tx)
      BY <3>1, <1>t DEF TakerClaims, nowS, TakerRecords
    <3>3. tx.op = "claim" /\ tx.by = "taker" /\ tx.at = now
      BY DEF Tx
    <3> HIDE DEF tx
    <3>4. CASE sent' = sent \cup {tx}
      <4>1. tx \in TakerClaimsSent'
        BY <3>3, <3>4 DEF TakerClaimsSent
      <4>2. now <= DueBy'
        BY <1>d, <1>t, <2>w
      <4> QED BY <1>u, <2>2, <3>3, <4>1, <4>2 DEF Due, Claiming
    <3>5. CASE sent' = sent /\ faults' = faults + 1
      <4>1. TakerClaimsSent' = {}
        BY <1>2, <3>5 DEF TakerClaimsSent
      <4>2. now + Spacing <= DueBy' /\ now < DueBy' /\ now <= DueBy'
        BY <1>d, <1>t, <2>w, <3>5
      <4>3. Latest' = DueBy'
        BY <1>u, <2>2 DEF Latest
      <4>4. Waiting'
        BY <1>u, <1>d, <3>2, <4>2, <4>3 DEF Waiting
      <4> QED BY <1>u, <2>2, <4>1, <4>4 DEF Due
    <3> QED BY <3>2, <3>4, <3>5 DEF Broadcast
  <2> QED BY <2>1, <2>2 DEF Due
<1> QED BY <1>1, <1>2

\* A claim that is out stays in time.
LEMMA DueClaimed ==
    ASSUME TypeOK, Due, head' = head, now' = now, cast' = cast, reorgs' = reorgs, Faulty,
           TakerClaimsSent' = TakerClaimsSent, TakerClaimsSent # {}
    PROVE  Due'
<1>t. /\ now \in Nat /\ DueBy \in Nat /\ DueBy' \in Nat /\ DueBy <= DueBy'
      /\ \A tx \in TakerClaimsSent : tx.at \in Nat
  BY DueByFacts, DueByGrows DEF TypeOK, TakerClaimsSent, Txs, Faulty
<1> HIDE DEF DueBy
<1>1. PICK tx \in TakerClaimsSent :
          /\ tx.at <= DueBy
          /\ head["i"].status = "Open" => now <= DueBy \/ now <= tx.at + Final
  BY DEF Due, Claiming
<1>2. tx.at <= DueBy' /\ (now <= DueBy => now <= DueBy')
  BY <1>t, <1>1
<1> QED BY <1>1, <1>2 DEF Due, Claiming

LEMMA DueTick ==
    ASSUME TypeOK, ChainsAgree, MarkerTold, Ample(deep["i"]), Due, TakerPaid,
           "taker" \in Honest, Tick, cast' = cast
    PROVE  Due'
<1>u. /\ head' = head /\ sent' = sent /\ taker' = taker /\ now' = now + 1
      /\ faults' = faults /\ reorgs' = reorgs /\ ~polled'
      /\ TakerClaimsSent' = TakerClaimsSent
  BY DEF Tick, chainVars, TakerClaimsSent
<1>p. polled /\ taker.doing # "claim"
  BY DEF Tick, TakerKeepsUp, TakerIdle, TakerPaid
<1>t. /\ now \in Nat /\ DueBy \in Nat /\ Spacing \in Nat /\ DueBy' = DueBy /\ Spacing' = Spacing
      /\ \A tx \in TakerClaimsSent : tx.at \in Nat
  BY <1>u, DueByFacts DEF TypeOK, TakerClaimsSent, Txs, DueBy, T2, Spacing
<1>a. /\ head["i"].timeout \in Nat /\ DueBy + SubmitMargin < head["i"].timeout
      /\ head["i"].recipient # Nobody
      /\ Final \in Nat /\ SubmitMargin \in Nat /\ Final <= SubmitMargin
  BY AmpleLeg, ConstantFacts
<1> HIDE DEF DueBy, Spacing
<1>1. CASE TakerClaimsSent = {}
  <2>1. Latest' = Latest /\ Latest \in Nat
    BY <1>u, <1>t DEF Latest
  <2>2. now < Latest
    BY <1>1, <1>p DEF Due, Waiting
  <2>3. now' <= Latest'
    BY <1>u, <1>t, <2>1, <2>2
  <2>4. Waiting'
    BY <1>1, <1>u, <1>p, <1>t, <2>3 DEF Due, Waiting
  <2> QED BY <1>1, <1>u, <2>4 DEF Due
<1>2. CASE TakerClaimsSent # {}
  <2>1. PICK tx \in TakerClaimsSent :
          /\ tx.at <= DueBy
          /\ head["i"].status = "Open" => now <= DueBy \/ now <= tx.at + Final
    BY <1>2 DEF Due, Claiming
  <2>2. ASSUME head["i"].status = "Open"
        PROVE  now' <= tx.at + Final
    <3>1. CanClaim("i")
      BY <1>t, <1>a, <2>1, <2>2 DEF CanClaim
    <3>2. tx \in sent /\ tx.op = "claim" /\ tx.leg = "i"
      BY DEF MarkerTold, TakerClaimsSent
    <3>3. ~(now >= tx.at + Final)
      BY <3>1, <3>2 DEF Tick, ClaimsKeepUp
    <3> QED BY <1>u, <1>t, <1>a, <3>3
  <2> QED BY <1>2, <1>u, <1>t, <2>1, <2>2 DEF Due, Claiming
<1> QED BY <1>1, <1>2

LEMMA DueLater ==
    ASSUME TypeOK, Due, Later, cast' = cast
    PROVE  Due'
<1>u. /\ head' = head /\ sent' = sent /\ now' = now /\ polled' = polled
      /\ faults' = faults /\ reorgs' = reorgs /\ TakerClaimsSent' = TakerClaimsSent
  BY DEF Later, chainVars, TakerClaimsSent
<1>t. /\ DueBy \in Nat /\ Spacing \in Nat /\ DueBy' = DueBy /\ Spacing' = Spacing
      /\ taker \in TakerRecords /\ taker.claimSentAt \in Markers
  BY <1>u, DueByFacts DEF TypeOK, TakerRecords, DueBy, T2, Spacing
<1> HIDE DEF DueBy, Spacing
<1>1. taker'.doing = taker.doing /\ taker'.claimSentAt = Aged(taker.claimSentAt)
  BY <1>t DEF Later, TakerRecords
<1>2. CASE TakerClaimsSent = {}
  <2>1. Waiting /\ Latest' = Latest
    BY <1>2, <1>u, <1>t DEF Due, Latest
  <2>2. taker'.claimSentAt # Null => taker'.claimSentAt + Spacing <= DueBy
    <3>1. taker'.claimSentAt # Null => taker.claimSentAt \in Nat /\ taker'.claimSentAt = 0
      BY <1>1, <1>t DEF Aged, Markers
    <3>2. taker.claimSentAt # Null => taker.claimSentAt + Spacing <= DueBy
      BY <2>1 DEF Waiting
    <3> QED BY <1>1, <1>t, <3>1, <3>2 DEF Aged
  <2>3. Waiting'
    BY <1>1, <1>u, <1>t, <2>1, <2>2 DEF Waiting
  <2> QED BY <1>2, <1>u, <2>3 DEF Due
<1>3. CASE TakerClaimsSent # {}
  BY <1>3, <1>u, <1>t DEF Due, Claiming
<1> QED BY <1>2, <1>3

\* The maker's escrow stays due for the taker.
LEMMA TakerCollectsStep ==
    ASSUME TypeOK, ChainsAgree, "taker" \in Honest, Next,
           TakerTrusts, TakersOwn, MarkerTold, TakerCollects
    PROVE  TakerCollects'
<1> SUFFICES ASSUME TakerPaid'
             PROVE  Due'
  BY DEF TakerCollects
<1>c. cast' = cast
  BY StepKinds
<1>t. taker \in TakerRecords
  BY DEF TypeOK
<1>a. head["r"].status # "None" /\ head["r"].initiator = "taker" => Ample(deep["i"])
  BY DEF TakersOwn, OwnEscrow, TakerTrusts
<1>1. CASE Chain
  <2>1. Block /\ taker' = taker
    BY <1>1, <1>c, ChainBlocks DEF Block, Outside
  <2>2. CASE TakerPaid
    <3>1. Ample(deep["i"]) /\ Due
      BY <1>a, <2>2 DEF TakerCollects, TakerPaid
    <3> QED BY <2>1, <3>1, DueBlock
  <2>3. CASE ~TakerPaid
    <3>1. /\ Moves("r") /\ head["r"] \in Escrows /\ deep["r"] \in Escrows
          /\ Confirmed(deep["r"], head["r"])
      BY <2>1 DEF Block, TypeOK, ChainsAgree, Legs
    <3>2. /\ head'["r"].status = "Claimed" /\ head'["r"].initiator = "taker"
          /\ ~(head["r"].status = "Claimed" /\ head["r"].initiator = "taker")
      BY <2>1, <2>3 DEF TakerPaid
    <3>3. Collected("r")
      <4>1. ~Kept("r") /\ ~Buried("r")
        BY <3>2 DEF Kept, Buried
      <4>2. ~Locked("r")
        <5>1. Agreed("r").status = "Open"
          BY DEF Agreed, Escrow
        <5>2. \A e : Escrow(e.by, e.to, e.token, e.amount, e.timeout).status = "Open"
          BY DEF Escrow
        <5> QED BY <3>2, <5>1, <5>2 DEF Locked
      <4>3. ~Assigned("r") /\ ~Returned("r")
        BY <3>1, <3>2 DEF Assigned, Returned, Escrows
      <4>4. ~Replaced("r")
        BY <3>1, <3>2 DEF Replaced, Confirmed
      <4> QED BY <3>1, <4>1, <4>2, <4>3, <4>4 DEF Moves
    <3>4. /\ head["r"].status = "Open" /\ head["r"].initiator = "taker"
          /\ now < head["r"].timeout
      BY <3>1, <3>2, <3>3 DEF Collected, CanClaim, Escrows
    <3>5. now < T2 /\ Ample(deep["i"])
      BY <3>4, <1>a DEF TakersOwn, OwnEscrow
    <3>6. head["i"].status \in {"Open", "Claimed"}
      <4>1. /\ head["i"].timeout \in Nat /\ DueBy + SubmitMargin < head["i"].timeout
            /\ now < head["i"].timeout => head["i"].status \in {"Open", "Claimed"}
        BY <3>5, AmpleLeg
      <4>2. DueBy \in Nat /\ T2 \in Nat /\ T2 <= DueBy /\ SubmitMargin \in Nat /\ now \in Nat
        BY DueByFacts, ConstantFacts DEF TypeOK
      <4>3. now < head["i"].timeout
        BY <3>5, <4>1, <4>2
      <4> QED BY <4>1, <4>3
    <3>7. Due
      BY <3>5, <3>6, DueBefore
    <3> QED BY <2>1, <3>5, <3>7, DueBlock
  <2> QED BY <2>2, <2>3
<1>2. ASSUME head' = head, taker'.outcome = Null => taker.outcome = Null
      PROVE  TakerPaid /\ Ample(deep["i"]) /\ Due
  BY <1>2, <1>a DEF TakerPaid, TakerCollects
<1>d. now \in Nat /\ DueBy \in Nat
  BY DueByFacts DEF TypeOK
<1>3. CASE MakerProgram
  <2>1. MakerSide
    BY <1>3, <1>c, MakerSteps
  <2>2. /\ head' = head /\ taker' = taker /\ now' = now /\ polled' = polled
        /\ reorgs' = reorgs /\ Faulty
    BY <2>1 DEF MakerSide
  <2>3. TakerClaimsSent' = TakerClaimsSent
    BY <2>1 DEF MakerSide, MakerSends, TakerClaimsSent
  <2>4. Due
    BY <1>2, <2>2
  <2>5. CASE TakerClaimsSent # {}
    BY <2>2, <2>3, <2>4, <2>5, <1>c, DueClaimed
  <2>6. CASE TakerClaimsSent = {}
    <3>1. taker'.doing = "claim" => now <= DueBy
      BY <2>2, <2>4, <2>6 DEF Due, Waiting
    <3> QED BY <1>c, <2>2, <2>3, <2>4, <3>1, DueKept
  <2> QED BY <2>5, <2>6
<1>4. CASE TakerProgram
  <2>1. /\ head' = head /\ now' = now /\ reorgs' = reorgs /\ Faulty
    BY <1>4, <1>c, TakerSteps DEF TakerSide
  <2>2. ASSUME NEW a \in BOOLEAN, NEW b \in BOOLEAN, NEW c \in BOOLEAN,
               NEW abandon \in BOOLEAN, NEW bookUp \in BookReads,
               TakerPasses(a, b, c, bookUp, abandon)
        PROVE  Due'
    <3>1. taker.outcome = Null
      BY <2>2 DEF TakerPasses, TakerIdle
    <3> QED BY <1>2, <1>c, <2>1, <2>2, <3>1, DuePass
  <2>3. ASSUME TakerClaims
        PROVE  Due'
    <3>1. taker'.outcome = taker.outcome
      BY <1>t, <2>3 DEF TakerClaims, TakerRecords
    <3> QED BY <1>2, <1>c, <2>1, <2>3, <3>1, DueClaims
  <2>4. ASSUME TakerLocks \/ TakerRefunds \/ TakerReleases \/ TakerCrashes
        PROVE  Due'
    <3>1. /\ taker'.outcome = taker.outcome \/ taker'.outcome = "released"
          /\ taker'.doing = "none" /\ taker'.claimSentAt = taker.claimSentAt
          /\ polled' = polled
      BY <1>t, <2>4 DEF TakerLocks, TakerRefunds, TakerReleases, TakerCrashes, TakerRecords
    <3>2. taker.doing = "claim" => faults' = faults + 1
      BY <2>4 DEF TakerLocks, TakerRefunds, TakerReleases, TakerCrashes
    <3>3. TakerClaimsSent' = TakerClaimsSent
      BY <2>4 DEF TakerLocks, TakerRefunds, TakerReleases, TakerCrashes, Broadcast, Tx,
                  chainVars, TakerClaimsSent
    <3>4. Due
      BY <1>2, <2>1, <3>1, NullAssumption
    <3>5. CASE TakerClaimsSent # {}
      BY <2>1, <3>3, <3>4, <3>5, <1>c, DueClaimed
    <3>6. CASE TakerClaimsSent = {}
      <4>1. taker.doing = "claim" => now < DueBy'
        <5>1. DueBy' \in Nat /\ (faults' = faults + 1 => DueBy + Spacing <= DueBy')
          BY <1>c, <2>1, DueByGrows DEF Faulty
        <5>2. Spacing \in Nat /\ Spacing >= 1
          BY ConstantFacts DEF Spacing
        <5>3. taker.doing = "claim" => now <= DueBy
          BY <3>4, <3>6 DEF Due, Waiting
        <5> HIDE DEF DueBy, Spacing
        <5> QED BY <1>d, <3>2, <5>1, <5>2, <5>3
      <4> QED BY <1>c, <2>1, <3>1, <3>3, <3>4, <4>1, DueKept
    <3> QED BY <3>5, <3>6
  <2> QED BY <1>4, <2>2, <2>3, <2>4 DEF TakerProgram, TakerActs
<1>5. CASE HostileWalkAway
  <2>1. /\ head' = head /\ sent' = sent /\ now' = now /\ polled' = polled
        /\ faults' = faults /\ reorgs' = reorgs /\ taker' = taker
    BY <1>5 DEF HostileWalkAway, chainVars
  <2>2. Due
    BY <1>2, <2>1
  <2> QED BY <1>c, <2>1, <2>2 DEF Due, Waiting, Claiming, Latest, DueBy, T2, Spacing,
                              TakerClaimsSent
<1>6. CASE Tick
  <2>1. head' = head /\ taker' = taker
    BY <1>6 DEF Tick, chainVars
  <2> QED BY <1>2, <1>6, <1>c, <2>1, DueTick
<1>7. CASE Later
  <2>1. head' = head
    BY <1>7 DEF Later, chainVars
  <2>2. taker'.outcome = taker.outcome
    BY <1>7, <1>t DEF Later, TakerRecords
  <2> QED BY <1>2, <1>7, <1>c, <2>1, <2>2, DueLater
<1> QED BY <1>1, <1>3, <1>4, <1>5, <1>6, <1>7, StepKinds

LEMMA TakerInvSafe ==
    ASSUME TypeOK, ChainsAgree, TakerInv
    PROVE  TakerNotShorted
<1> SUFFICES ASSUME "taker" \in Honest, taker.outcome = Null,
                    head["r"].initiator = "taker", head["r"].status = "Claimed"
             PROVE  \/ PaidTo(head["i"], "taker")
                    \/ ClaimOnItsWay("taker", "i")
                    \/ /\ head["i"].status = "Open"
                       /\ head["i"].recipient = "taker"
                       /\ head["i"].token = "agreed" /\ head["i"].amount = "agreed"
                       /\ now < head["i"].timeout - SubmitMargin
  BY DEF TakerNotShorted, Funded, Agreed, Escrow
<1>1. Ample(deep["i"]) /\ Due /\ MarkerTold
  BY DEF TakerInv, TakersOwn, OwnEscrow, TakerTrusts, TakerCollects, TakerPaid
<1>2. /\ head["i"].timeout \in Nat /\ Pays(head["i"], "taker") /\ now \in Nat
      /\ DueBy + SubmitMargin < head["i"].timeout /\ DueBy \in Nat
      /\ SubmitMargin \in Nat /\ Final \in Nat /\ Final <= SubmitMargin
  BY <1>1, AmpleLeg, DueByFacts, ConstantFacts DEF TypeOK
<1> HIDE DEF DueBy
<1>3. CASE head["i"].status = "Claimed"
  BY <1>2, <1>3 DEF PaidTo, Pays
<1>4. CASE head["i"].status = "Open" /\ now <= DueBy
  BY <1>2, <1>4 DEF Pays
<1>5. CASE head["i"].status = "Open" /\ ~(now <= DueBy)
  <2>1. TakerClaimsSent # {}
    BY <1>1, <1>5 DEF Due, Waiting, Latest
  <2>2. PICK tx \in TakerClaimsSent : tx.at <= DueBy /\ now <= tx.at + Final
    BY <1>1, <1>5, <2>1 DEF Due, Claiming
  <2>3. tx \in sent /\ tx.op = "claim" /\ tx.leg = "i" /\ tx.at \in Nat
    BY <1>1 DEF MarkerTold, TakerClaimsSent, TypeOK, Txs
  <2>4. now < head["i"].timeout
    BY <1>2, <2>2, <2>3
  <2> QED BY <1>2, <1>5, <2>2, <2>3, <2>4 DEF ClaimOnItsWay, Pays
<1> QED BY <1>1, <1>3, <1>4, <1>5 DEF Due

(* An honest taker never pays without being able to collect: for every     *)
(* maker, timing, hostile lock, reorganisation, crash and lost send, once  *)
(* its own escrow is claimed the maker's has paid it, or a claim is on its *)
(* way, or the window for its next claim is still open.                    *)
THEOREM TakerNeverShorted == Spec => []TakerNotShorted
<1>1. Init => TypeOK /\ ChainsAgree /\ TakerInv
  BY InitTypeOK, InitPrograms
<1>2. TypeOK /\ ChainsAgree /\ TakerInv /\ [Next]_vars
        => (TypeOK /\ ChainsAgree /\ TakerInv)'
  <2>1. CASE UNCHANGED vars
    <3>1. TakerInv => TakerInv'
      BY <2>1 DEF vars, TakerInv, TakerTrusts, TakersOwn, OwnEscrow, TakerLocked, Ample,
                  MarkerTold, TakerClaimsSent, TakerCollects, TakerPaid, Due, Waiting,
                  Claiming, Latest, DueBy, T2, Honest
    <3> QED BY <2>1, <3>1 DEF vars, TypeOK, ChainsAgree, RefundedLate
  <2>2. ASSUME TypeOK, ChainsAgree, TakerInv, Next
        PROVE  TakerInv'
    <3>1. Honest' = Honest
      BY <2>2, StepKinds DEF Honest
    <3>2. "taker" \in Honest => TakerTrusts' /\ TakersOwn' /\ MarkerTold' /\ TakerCollects'
      BY <2>2, TakerTrustsStep, TakersOwnStep, MarkerToldStep, TakerCollectsStep DEF TakerInv
    <3> QED BY <3>1, <3>2 DEF TakerInv
  <2> QED BY <2>1, <2>2, TypeStep, AgreeStep
<1>3. TypeOK /\ ChainsAgree /\ TakerInv => TakerNotShorted
  BY TakerInvSafe
<1> QED BY <1>1, <1>2, <1>3, PTL DEF Spec

-----------------------------------------------------------------------------
(* A retired record leaves nothing behind, on chains that do not           *)
(* reorganise.                                                             *)

LEMMA MakerRetiresOn ==
    ASSUME NEW iState, NEW rState, NEW rConfirmed, NEW bookUp
    PROVE  LET d == M!decide(MakerInput(iState, rState, rConfirmed, bookUp)) IN
           /\ d = "finish" => iState # Null /\ iState.status \in {"Claimed", "Refunded"}
           /\ d = "abort" => maker.lockSentAt = Null
<1> DEFINE x == MakerInput(iState, rState, rConfirmed, bookUp)
<1>1. /\ x.iState = iState /\ x.managed.lockSentAt = maker.lockSentAt
      /\ x.bookStatus = "locking"
  BY DEF MakerInput
<1> HIDE DEF x
<1>2. M!decide(x) = "finish" => M!terminal(x.iState)
  BY DEF M!decide
<1>3. M!decide(x) = "abort" => M!exposureExcluded(x) \/ M!NeverLocked(x)
  BY DEF M!decide
<1> QED BY <1>1, <1>2, <1>3 DEF x, M!terminal, M!exposureExcluded, M!NeverLocked

LEMMA TakerRetiresOn ==
    ASSUME NEW iState, NEW iConfirmed, NEW rState, NEW bookUp, NEW abandon
    PROVE  LET d == T!decideTaker(TakerInput(iState, iConfirmed, rState, bookUp, abandon)) IN
           /\ d = "finish" => rState # Null /\ rState.status \in {"Claimed", "Refunded"}
           /\ d = "abort" => \/ taker.lockSentAt = Null
                             \/ /\ rState # Null /\ rState.status # "None"
                                /\ rState.initiator # "taker"
           /\ d = "release" => taker.lockSentAt = Null
<1> DEFINE x == TakerInput(iState, iConfirmed, rState, bookUp, abandon)
           own == T!checkOwnLock(x.rState, x.plans.responder, x.ourResponderAddress)
<1>1. /\ x.rState = rState /\ x.record.lockSentAt = taker.lockSentAt
      /\ x.ourResponderAddress = "taker"
  BY DEF TakerInput
<1> HIDE DEF x
<1>2. T!decideTaker(x) = "finish" => T!terminal(x.rState)
  BY DEF T!decideTaker, T!Unfunded, T!Unfilled, T!Funding, T!MakerEscrowExpired
<1>3. T!decideTaker(x) = "abort" => ~T!exposed(x, own) \/ own = "foreign"
  BY DEF T!decideTaker, T!Unfunded, T!Unfilled, T!Funding
<1>4. T!decideTaker(x) = "release" => ~T!exposed(x, own)
  BY DEF T!decideTaker, T!Unfunded, T!Unfilled, T!Funding
<1>5. own = "foreign" => /\ rState # Null /\ rState.status # "None"
                         /\ rState.initiator # "taker"
  BY <1>1 DEF T!checkOwnLock
<1>6. ~T!exposed(x, own) => taker.lockSentAt = Null
  BY <1>1 DEF T!exposed
<1>7. T!terminal(x.rState) => rState # Null /\ rState.status \in {"Claimed", "Refunded"}
  BY <1>1 DEF T!terminal
<1> HIDE DEF own
<1> QED BY <1>2, <1>3, <1>4, <1>5, <1>6, <1>7 DEF x

\* Without reorganisations a leg that is over stays over, and an honest
\* party's escrow is one it sent.
LEMMA OverBlock ==
    ASSUME TypeOK, MaxReorgs = 0, Block, NEW l \in Legs, NEW p \in Honest,
           l = IF p = "maker" THEN "i" ELSE "r"
    PROVE  /\ Over(l, p) => Over(l, p)'
           /\ Sent(l, p) => Sent(l, p)'
<1>1. /\ head[l] \in Escrows /\ Moves(l) /\ LockSent(l)' = LockSent(l) /\ ~Replaced(l)
      /\ cast \in Casts
  BY DEF Block, Outside, TypeOK, LockSent, Replaced
<1>2. CASE Kept(l) \/ Buried(l)
  BY <1>1, <1>2 DEF Kept, Buried, Over, Sent
<1>3. CASE Locked(l)
  <2>1. \A e \in cast.locks :
           Escrow(e.by, e.to, e.token, e.amount, e.timeout).initiator # p
    <3>1. \A e \in cast.locks : e.by \notin Honest
      BY <1>1, CastFacts
    <3> QED BY <3>1 DEF Escrow
  <2>2. Over(l, p) => Over(l, p)'
    BY <1>1, <1>3 DEF Over, Locked
  <2>3. Sent(l, p)'
    BY <1>1, <1>3, <2>1 DEF Sent, Locked, LockSent
  <2> QED BY <2>2, <2>3
<1>4. CASE Assigned(l) \/ Collected(l) \/ Returned(l)
  <2>1. /\ head[l].status = "Open" /\ head'[l].initiator = head[l].initiator
        /\ head'[l].status # "None"
    BY <1>1, <1>4 DEF Assigned, Collected, Returned, CanClaim, Escrows
  <2> QED BY <1>1, <2>1 DEF Over, Sent
<1> QED BY <1>1, <1>2, <1>3, <1>4 DEF Moves

LEMMA RetiredBlock ==
    ASSUME TypeOK, MaxReorgs = 0, RetiredInv, Block
    PROVE  RetiredInv'
<1>1. /\ maker' = maker /\ taker' = taker /\ Honest' = Honest
      /\ \A l : LockSent(l)' = LockSent(l)
  BY DEF Block, Outside, LockSent, Honest
<1>2. "maker" \in Honest => MakerRetires'
  <2> SUFFICES ASSUME "maker" \in Honest PROVE MakerRetires'
    OBVIOUS
  <2>1. /\ Over("i", "maker") => Over("i", "maker")'
        /\ Sent("i", "maker") => Sent("i", "maker")'
    BY OverBlock DEF Legs
  <2> QED BY <1>1, <2>1 DEF RetiredInv, MakerRetires
<1>3. "taker" \in Honest => TakerRetires'
  <2> SUFFICES ASSUME "taker" \in Honest PROVE TakerRetires'
    OBVIOUS
  <2>1. /\ Over("r", "taker") => Over("r", "taker")'
        /\ Sent("r", "taker") => Sent("r", "taker")'
    BY OverBlock DEF Legs
  <2> QED BY <1>1, <2>1 DEF RetiredInv, TakerRetires
<1> QED BY <1>1, <1>2, <1>3 DEF RetiredInv

\* The other party's program, and time, leave a record and its leg alone.
LEMMA RetiredApart ==
    ASSUME head' = head
    PROVE  /\ /\ MakerRetires /\ LockSent("i")' = LockSent("i")
              /\ maker'.tracked = maker.tracked /\ maker'.doing = maker.doing
              /\ maker'.lockSentAt = Null => maker.lockSentAt = Null
              => MakerRetires'
           /\ /\ TakerRetires /\ LockSent("r")' = LockSent("r")
              /\ taker'.outcome = taker.outcome /\ taker'.doing = taker.doing
              /\ taker'.lockSentAt = Null <=> taker.lockSentAt = Null
              => TakerRetires'
<1>1. ASSUME MakerRetires, LockSent("i")' = LockSent("i"),
             maker'.tracked = maker.tracked, maker'.doing = maker.doing,
             maker'.lockSentAt = Null => maker.lockSentAt = Null
      PROVE  MakerRetires'
  BY <1>1 DEF MakerRetires, Over, Sent
<1>2. ASSUME TakerRetires, LockSent("r")' = LockSent("r"),
             taker'.outcome = taker.outcome, taker'.doing = taker.doing,
             taker'.lockSentAt = Null <=> taker.lockSentAt = Null
      PROVE  TakerRetires'
  BY <1>2 DEF TakerRetires, Over, Sent
<1> QED BY <1>1, <1>2

\* The maker keeps its record until its leg is over.
LEMMA MakerRetiresStep ==
    ASSUME TypeOK, MakerRetires, MakerProgram, cast' = cast
    PROVE  MakerRetires'
<1>t. maker \in MakerRecords /\ now \in Nat /\ now # Null
  BY PartyAssumption DEF TypeOK
<1>u. head' = head
  BY MakerSteps DEF MakerSide
<1>1. ASSUME NEW a \in BOOLEAN, NEW b \in BOOLEAN, NEW c \in BOOLEAN,
             NEW bookUp \in BookReads, MakerPasses(a, b, c, bookUp)
      PROVE  MakerRetires'
  <2> DEFINE i == legStateOrNull(getSwapState("i"), a)
             r == legStateOrNull(getSwapState("r"), b)
             d == legStateOrNull(getConfirmedSwapState("r"), c)
             decision == M!decide(MakerInput(i, r, d, bookUp))
  <2>1. /\ maker'.doing = (IF decision \in {"lock", "claim", "sponsor", "refund"}
                           THEN decision ELSE "none")
        /\ maker'.tracked = (decision \notin {"finish", "abort"})
        /\ maker'.lockSentAt = maker.lockSentAt
        /\ sent' = sent /\ maker.tracked
    BY <1>1, <1>t DEF MakerPasses, MakerRecords, chainVars, MakerIdle
  <2>2. i # Null => i = head["i"]
    BY DEF legStateOrNull, getSwapState
  <2>3. /\ decision = "finish" => i # Null /\ i.status \in {"Claimed", "Refunded"}
        /\ decision = "abort" => maker.lockSentAt = Null
    BY MakerRetiresOn
  <2> HIDE DEF i, r, d, decision
  <2>4. LockSent("i")' = LockSent("i")
    BY <2>1 DEF LockSent
  <2>5. ~maker'.tracked => maker'.doing = "none" /\ Over("i", "maker")'
    BY <1>u, <2>1, <2>2, <2>3, <2>4 DEF MakerRetires, Over
  <2> QED BY <1>u, <2>1, <2>4, <2>5 DEF MakerRetires, Sent
<1>2. ASSUME maker'.tracked = maker.tracked, maker.doing # "none",
             sent \subseteq sent', maker'.lockSentAt = Null =>
                maker.lockSentAt = Null /\ LockSent("i")' = LockSent("i")
      PROVE  MakerRetires'
  <2>1. LockSent("i") => LockSent("i")'
    BY <1>2 DEF LockSent
  <2> QED BY <1>u, <1>2, <2>1 DEF MakerRetires, Sent
<1>3. ASSUME NEW bookUp \in BookReads, MakerLocks(bookUp)
      PROVE  MakerRetires'
  <2>1. /\ maker'.tracked = maker.tracked /\ maker.doing # "none" /\ sent \subseteq sent'
    BY <1>3, <1>t DEF MakerLocks, MakerRecords, Broadcast
  <2>2. \/ maker'.lockSentAt = now
        \/ maker'.lockSentAt = maker.lockSentAt /\ sent' = sent
    BY <1>3, <1>t DEF MakerLocks, MakerRecords, nowS
  <2> QED BY <1>2, <1>t, <2>1, <2>2 DEF LockSent
<1>4. ASSUME MakerClaims \/ MakerSponsors \/ MakerRefunds \/ MakerCrashes
      PROVE  MakerRetires'
  <2>1. /\ maker'.tracked = maker.tracked /\ maker'.lockSentAt = maker.lockSentAt
        /\ maker.doing # "none"
    BY <1>4, <1>t DEF MakerClaims, MakerSponsors, MakerRefunds, MakerCrashes, MakerRecords
  <2>2. sent \subseteq sent' /\ \A tx \in sent' \ sent : tx.op # "lock"
    BY <1>4 DEF MakerClaims, MakerSponsors, MakerRefunds, MakerCrashes, Broadcast, Tx,
                chainVars
  <2>3. LockSent("i")' = LockSent("i")
    BY <2>2 DEF LockSent
  <2> QED BY <1>2, <2>1, <2>2, <2>3
<1> QED BY <1>1, <1>3, <1>4 DEF MakerProgram, MakerActs

\* The taker keeps its record until its leg is over.
LEMMA TakerRetiresStep ==
    ASSUME TypeOK, TakerRetires, TakerProgram, cast' = cast
    PROVE  TakerRetires'
<1>t. taker \in TakerRecords /\ now \in Nat /\ now # Null
  BY PartyAssumption DEF TypeOK
<1>u. head' = head
  BY TakerSteps DEF TakerSide
<1>1. ASSUME NEW a \in BOOLEAN, NEW b \in BOOLEAN, NEW c \in BOOLEAN,
             NEW abandon \in BOOLEAN, NEW bookUp \in BookReads,
             TakerPasses(a, b, c, bookUp, abandon)
      PROVE  TakerRetires'
  <2> DEFINE i == legStateOrNull(getSwapState("i"), a)
             d == legStateOrNull(getConfirmedSwapState("i"), b)
             r == legStateOrNull(getSwapState("r"), c)
             decision == T!decideTaker(TakerInput(i, d, r, bookUp, abandon))
  <2>1. /\ taker'.doing = (IF decision \in {"lock", "claim", "refund", "release"}
                           THEN decision ELSE "none")
        /\ taker'.outcome # Null => decision \in {"finish", "abort"}
        /\ taker'.lockSentAt = taker.lockSentAt
        /\ sent' = sent
    BY <1>1, <1>t DEF TakerPasses, TakerRecords, chainVars
  <2>2. r # Null => r = head["r"]
    BY DEF legStateOrNull, getSwapState
  <2>3. /\ decision = "finish" => r # Null /\ r.status \in {"Claimed", "Refunded"}
        /\ decision = "abort" => \/ taker.lockSentAt = Null
                                 \/ /\ r # Null /\ r.status # "None"
                                    /\ r.initiator # "taker"
        /\ decision = "release" => taker.lockSentAt = Null
    BY TakerRetiresOn
  <2> HIDE DEF i, r, d, decision
  <2>4. LockSent("r")' = LockSent("r")
    BY <2>1 DEF LockSent
  <2>5. taker'.outcome # Null => taker'.doing = "none" /\ Over("r", "taker")'
    BY <1>u, <2>1, <2>2, <2>3, <2>4 DEF TakerRetires, Over
  <2> QED BY <1>u, <2>1, <2>3, <2>4, <2>5 DEF TakerRetires, Sent
<1>2. ASSUME TakerLocks
      PROVE  TakerRetires'
  <2>1. /\ taker'.outcome = taker.outcome /\ taker'.doing = "none" /\ taker.doing = "lock"
        /\ taker'.lockSentAt = now /\ sent \subseteq sent'
    BY <1>2, <1>t DEF TakerLocks, TakerRecords, nowS, Broadcast
  <2>2. LockSent("r") => LockSent("r")'
    BY <2>1 DEF LockSent
  <2> QED BY <1>t, <1>u, <2>1, <2>2 DEF TakerRetires, Sent
<1>3. ASSUME TakerClaims \/ TakerRefunds \/ TakerReleases \/ TakerCrashes
      PROVE  TakerRetires'
  <2>1. /\ taker'.doing = "none" /\ taker'.lockSentAt = taker.lockSentAt
        /\ taker.doing # "none"
        /\ \/ taker'.outcome = taker.outcome
           \/ taker.doing = "release"
    BY <1>3, <1>t DEF TakerClaims, TakerRefunds, TakerReleases, TakerCrashes, TakerRecords
  <2>2. \A tx \in sent' \ sent : tx.op # "lock"
    BY <1>3 DEF TakerClaims, TakerRefunds, TakerReleases, TakerCrashes, Broadcast, Tx,
                chainVars
  <2>3. LockSent("r")' = LockSent("r")
    <3>1. sent \subseteq sent'
      BY TakerSteps DEF TakerSide, TakerSends
    <3> QED BY <2>2, <3>1 DEF LockSent
  <2> QED BY <1>u, <2>1, <2>3 DEF TakerRetires, Sent, Over
<1> QED BY <1>1, <1>2, <1>3 DEF TakerProgram, TakerActs

\* The taker funds only its own leg.
LEMMA TakerLocksOwnLeg ==
    ASSUME TakerProgram
    PROVE  \A tx \in sent' \ sent : tx.op = "lock" => tx.leg = "r"
<1>1. ASSUME NEW a, NEW b, NEW c, NEW abandon, NEW bookUp,
             TakerPasses(a, b, c, bookUp, abandon)
      PROVE  sent' = sent
  BY <1>1 DEF TakerPasses, chainVars
<1>2. ASSUME TakerLocks
      PROVE  \A tx \in sent' \ sent : tx.leg = "r"
  BY <1>2 DEF TakerLocks, Broadcast, Tx
<1>3. ASSUME TakerClaims \/ TakerRefunds
      PROVE  \A tx \in sent' \ sent : tx.op # "lock"
  BY <1>3 DEF TakerClaims, TakerRefunds, Broadcast, Tx
<1>4. ASSUME TakerReleases \/ TakerCrashes
      PROVE  sent' = sent
  BY <1>4 DEF TakerReleases, TakerCrashes, chainVars
<1> QED BY <1>1, <1>2, <1>3, <1>4 DEF TakerProgram, TakerActs

(* A retired record leaves nothing behind: on chains that do not           *)
(* reorganise, when the maker or the taker has given up its record it has  *)
(* no open escrow and no broadcast lock that can still be mined.  (A       *)
(* reorganisation after the retirement can reopen the escrow: both         *)
(* programs retire on what they read at the chain head.)                   *)
THEOREM RetiredLeavesNothingBehind ==
    ASSUME MaxReorgs = 0
    PROVE  Spec => []RetiredLeavesNothing
<1>1. Init => TypeOK /\ RetiredInv
  <2> SUFFICES ASSUME Init PROVE RetiredInv
    BY InitTypeOK
  <2>1. head["i"].status = "None" /\ head["r"].status = "None"
    BY DEF Init, NoEscrow, Legs
  <2>2. /\ sent = {} /\ maker.tracked /\ taker.outcome = Null /\ taker.doing = "none"
    BY DEF Init
  <2> QED BY <2>1, <2>2 DEF RetiredInv, MakerRetires, TakerRetires, Sent, LockSent
<1>2. TypeOK /\ RetiredInv /\ [Next]_vars => (TypeOK /\ RetiredInv)'
  <2>1. ASSUME TypeOK, RetiredInv, Next
        PROVE  RetiredInv'
    <3>c. cast' = cast /\ Honest' = Honest
      BY <2>1, StepKinds DEF Honest
    <3>1. CASE Chain
      BY <2>1, <3>1, <3>c, ChainBlocks, RetiredBlock
    <3>2. CASE MakerProgram
      <4>1. MakerSide
        BY <2>1, <3>2, <3>c, MakerSteps
      <4>2. LockSent("r")' = LockSent("r")
        BY <4>1 DEF MakerSide, MakerSends, LockSent
      <4>3. head' = head /\ taker' = taker
        BY <4>1 DEF MakerSide
      <4>4. TakerRetires => TakerRetires'
        BY <4>2, <4>3, RetiredApart
      <4> QED BY <2>1, <3>2, <3>c, <4>4, MakerRetiresStep DEF RetiredInv
    <3>3. CASE TakerProgram
      <4>1. TakerSide
        BY <2>1, <3>3, <3>c, TakerSteps
      <4>2. LockSent("i")' = LockSent("i")
        <5>1. \A tx \in sent' \ sent : tx.op = "lock" => tx.leg = "r"
          BY <3>3, TakerLocksOwnLeg
        <5>2. sent \subseteq sent'
          BY <4>1 DEF TakerSide, TakerSends
        <5> QED BY <5>1, <5>2 DEF LockSent
      <4>3. head' = head /\ maker' = maker
        BY <4>1 DEF TakerSide
      <4>4. MakerRetires => MakerRetires'
        BY <4>2, <4>3, RetiredApart
      <4> QED BY <2>1, <3>3, <3>c, <4>4, TakerRetiresStep DEF RetiredInv
    <3>4. CASE HostileWalkAway \/ Tick \/ Later
      <4>1. head' = head /\ sent' = sent
        BY <3>4 DEF HostileWalkAway, Tick, Later, chainVars
      <4>2. \A m \in Markers : Aged(m) = Null <=> m = Null
        BY PartyAssumption DEF Aged, Markers
      <4>3. /\ maker'.tracked = maker.tracked /\ maker'.doing = maker.doing
            /\ maker'.lockSentAt = Null => maker.lockSentAt = Null
        BY <2>1, <3>4, <4>2 DEF HostileWalkAway, Tick, Later, TypeOK, MakerRecords
      <4>4. /\ taker'.outcome = taker.outcome /\ taker'.doing = taker.doing
            /\ taker'.lockSentAt = Null <=> taker.lockSentAt = Null
        BY <2>1, <3>4, <4>2 DEF HostileWalkAway, Tick, Later, TypeOK, TakerRecords
      <4>5. \A l : LockSent(l)' = LockSent(l)
        BY <4>1 DEF LockSent
      <4> QED BY <2>1, <3>c, <4>1, <4>3, <4>4, <4>5, RetiredApart DEF RetiredInv
    <3> QED BY <2>1, <3>1, <3>2, <3>3, <3>4, StepKinds
  <2>2. CASE UNCHANGED vars
    <3>1. RetiredInv => RetiredInv'
      BY <2>2 DEF vars, RetiredInv, MakerRetires, TakerRetires, Sent, Over, LockSent, Honest
    <3> QED BY <2>2, <3>1 DEF vars, TypeOK
  <2> QED BY <2>1, <2>2, TypeStep
<1>3. TypeOK /\ RetiredInv => RetiredLeavesNothing
  <2> SUFFICES ASSUME TypeOK, RetiredInv, NEW p \in Honest,
                      IF p = "maker" THEN ~maker.tracked ELSE taker.outcome # Null
               PROVE  LET leg == IF p = "maker" THEN "i" ELSE "r" IN
                      /\ ~(head[leg].status = "Open" /\ head[leg].initiator = p)
                      /\ ~\E tx \in sent : /\ tx.op = "lock" /\ tx.leg = leg
                                           /\ CanLock(leg, Agreed(leg).timeout)
    BY DEF RetiredLeavesNothing
  <2>1. p \in {"maker", "taker"}
    BY CastFacts DEF TypeOK
  <2>2. CASE p = "maker"
    <3>1. Over("i", "maker") /\ Sent("i", "maker")
      BY <2>2 DEF RetiredInv, MakerRetires
    <3> QED BY <2>2, <3>1 DEF Over, Sent, LockSent, CanLock
  <2>3. CASE p = "taker"
    <3>1. Over("r", "taker") /\ Sent("r", "taker")
      BY <2>3 DEF RetiredInv, TakerRetires
    <3> QED BY <2>3, <3>1 DEF Over, Sent, LockSent, CanLock
  <2> QED BY <2>1, <2>2, <2>3
<1> QED BY <1>1, <1>2, <1>3, PTL DEF Spec

===============================================================================
