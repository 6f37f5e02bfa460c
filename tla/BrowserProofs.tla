---------------------------- MODULE BrowserProofs ----------------------------
(***************************************************************************)
(* The safety of a browser's side of a swap for any windows and margin:    *)
(* what it has funded is recoverable from local storage, and it is never   *)
(* claimed against an escrow that ran out.  The last part is about the     *)
(* browser's order list: an order seen signed twice stays hidden.          *)
(***************************************************************************)
EXTENDS Browser, MirrorBook, TLAPS

-----------------------------------------------------------------------------
(* Types.                                                                  *)

Roles == {"maker", "taker"}
Ops == {"idle", "locking", "waiting", "signing", "publishing", "release stage",
        "release order", "check stage", "check order"} \cup SwapPrompts

Stores == [stage : BOOLEAN, signed : BOOLEAN, order : BOOLEAN, swap : Nat \cup {Null}]
Pages == [op : Ops, probe : {"checking", "open", "absent", "unknown"},
          seen : BOOLEAN, deferred : BOOLEAN, legs : Heads \cup {Null},
          deep : Legs \cup {Null}]

Typed ==
    /\ cast \in Casts
    /\ now \in Nat /\ due \in Nat
    /\ head \in Heads
    /\ deep \in Legs
    /\ store \in Stores
    /\ page \in Pages
    /\ careless \in BOOLEAN /\ credit \in BOOLEAN

-----------------------------------------------------------------------------
(* The counterparty's leg.  A leg that was funded for somebody at           *)
(* confirmation depth keeps its terms, and only a settlement changes it.    *)

Settled(leg) == leg.status \in {"Claimed", "Refunded"}
Fixed(leg) == leg.status # "None" /\ leg.recipient # Nobody
SameTerms(a, b) == /\ a.initiator = b.initiator /\ a.recipient = b.recipient
                   /\ a.agreed = b.agreed /\ a.timeout = b.timeout

DepthHolds ==
    /\ Settled(deep) => head[theirs] = deep
    /\ Fixed(deep) => Fixed(head[theirs]) /\ SameTerms(head[theirs], deep)
    /\ /\ head[theirs].status = "Refunded" /\ head[theirs].recipient # Nobody
       => now >= head[theirs].timeout
    /\ page.deep # Null /\ Fixed(page.deep) => Fixed(deep) /\ SameTerms(page.deep, deep)

-----------------------------------------------------------------------------
(* The browser's own leg.                                                  *)

Ours == head[mine].initiator = me

OwnLegHolds ==
    /\ Ours => "lock" \in sent /\ head[mine].timeout = LockTimeout
    /\ me = "maker" /\ Ours /\ head[mine].status = "Claimed" => "claim" \in sent
    /\ page.legs # Null /\ Settled(page.legs[mine]) =>
           head[mine].status = page.legs[mine].status

\* A taker locks against a lock at confirmation depth that outlasts its own.
TakerLocksWell ==
    me = "taker" /\ ("lock" \in sent \/ At("lock")) =>
        Fixed(deep) /\ deep.timeout >= RESPONSE + CLAIM_MARGIN

Pending == "claim" \in sent \/ At("claim")

\* A claim that was let through the guard comes in time.
InTime ==
    \/ head[theirs].status = "Claimed"
    \/ head[theirs].status = "Open" /\ now <= due /\ due < head[theirs].timeout

ClaimComes ==
    /\ me = "taker" /\ Pending => head[mine].status = "Claimed"
    /\ Pending /\ (me = "maker" \/ Ours) => Fixed(deep) /\ InTime

PaidInv == DepthHolds /\ OwnLegHolds /\ TakerLocksWell /\ ClaimComes

-----------------------------------------------------------------------------
(* Local storage.                                                          *)

Reclaims == {"release stage", "release order", "check stage", "check order"}

\* Only a maker posts; what follows the lock's showing is done on a leg that
\* is no longer unused, and what follows a settlement on a settled one.
PostingHolds ==
    /\ \/ store.stage \/ store.order \/ store.signed \/ page.deferred
       \/ page.op \in Reclaims \cup {"locking", "waiting", "signing", "publishing"}
       => me = "maker"
    /\ store.order \/ store.signed \/ page.op \in Reclaims \cup {"signing", "publishing"}
       => head[mine].status # "None"
    /\ page.deferred => Settled(head[mine])
    /\ At("locking") => "lock" \notin sent /\ (store.stage \/ Settled(head[mine]))
    /\ At("lock") => store.swap # Null
    /\ me = "taker" => store.swap \in {RESPONSE, Null}

-----------------------------------------------------------------------------
(* The sides, and the steps by kind.                                       *)

\* What the names of the two sides and of the two legs stand for.
LEMMA Sides ==
    ASSUME Typed
    PROVE  /\ me \in Roles /\ peer \in Roles /\ me # peer
           /\ mine \in {"i", "r"} /\ theirs \in {"i", "r"} /\ mine # theirs
           /\ me = "maker" <=> mine = "i"
           /\ me = "maker" => theirs = "r" /\ LockTimeout = T1
           /\ me = "taker" => theirs = "i" /\ LockTimeout = RESPONSE
           /\ T1 \in Nat /\ LockTimeout \in Nat
           /\ cast.prelocked \in BOOLEAN
           /\ Nobody \notin Roles
BY WindowAssumption
   DEF Typed, Roles, me, peer, mine, theirs, OwnLeg, LockTimeout, T1

LEMMA SidesFixed ==
    ASSUME cast' = cast
    PROVE  /\ me' = me /\ peer' = peer /\ mine' = mine /\ theirs' = theirs
           /\ T1' = T1 /\ LockTimeout' = LockTimeout
BY DEF me, peer, mine, theirs, OwnLeg, LockTimeout, T1

LEMMA LegTypes ==
    ASSUME Typed
    PROVE  /\ head.i \in Legs /\ head.r \in Legs
           /\ head[mine] \in Legs /\ head[theirs] \in Legs
<1>1. head.i \in Legs /\ head.r \in Legs
  BY DEF Typed, Heads
<1>2. mine \in {"i", "r"} /\ theirs \in {"i", "r"}
  BY Sides
<1>. QED  BY <1>1, <1>2

\* A leg of the head is replaced by another.
LEMMA Replaced ==
    ASSUME NEW hd \in Heads, NEW l \in {"i", "r"}, NEW b \in Legs
    PROVE  /\ [hd EXCEPT ![l] = b] \in Heads
           /\ [hd EXCEPT ![l] = b][l] = b
           /\ \A k \in {"i", "r"} : k # l => [hd EXCEPT ![l] = b][k] = hd[k]
<1>1. CASE l = "i"
  BY <1>1 DEF Heads
<1>2. CASE l = "r"
  BY <1>2 DEF Heads
<1>. QED  BY <1>1, <1>2

\* What a transaction, or the counterparty, does to a leg at the head.
Locks(l, b) ==
    /\ head[l].status = "None" /\ b.status = "Open"
    /\ b.initiator = me => /\ l = mine /\ "lock" \in sent
                           /\ b.timeout = LockTimeout /\ now < LockTimeout
Assigns(l, b) ==
    /\ head[l].status = "Open" /\ head[l].recipient = Nobody
    /\ b.status = "Open" /\ b.initiator = head[l].initiator
    /\ b.timeout = head[l].timeout
IsClaimed(l, b) ==
    /\ head[l].status = "Open" /\ head[l].recipient # Nobody
    /\ now < head[l].timeout
    /\ me = "taker" \/ "claim" \in sent
    /\ b.status = "Claimed" /\ SameTerms(b, head[l])
IsRefunded(l, b) ==
    /\ head[l].status = "Open"
    /\ now >= head[l].timeout \/ head[l].recipient = Nobody
    /\ b.status = "Refunded" /\ SameTerms(b, head[l])
Moves(l, b) == Locks(l, b) \/ Assigns(l, b) \/ IsClaimed(l, b) \/ IsRefunded(l, b)

LegMoves ==
    /\ UNCHANGED <<cast, now, deep, sent, listing, store, page, careless, due>>
    /\ credit' \in BOOLEAN
    /\ \/ head' = head
       \/ \E l \in {"i", "r"}, b \in Legs :
             Moves(l, b) /\ head' = [head EXCEPT ![l] = b]

LEMMA StatusSet ==
    ASSUME NEW leg \in Legs, NEW s \in {"None", "Open", "Claimed", "Refunded"}
    PROVE  /\ [leg EXCEPT !.status = s] \in Legs
           /\ [leg EXCEPT !.status = s].status = s
           /\ SameTerms([leg EXCEPT !.status = s], leg)
BY DEF Legs, SameTerms

LEMMA RecipientSet ==
    ASSUME NEW leg \in Legs, NEW a \in Roles
    PROVE  LET b == [leg EXCEPT !.recipient = a]
           IN  /\ b \in Legs /\ b.status = leg.status /\ b.timeout = leg.timeout
               /\ b.initiator = leg.initiator
BY DEF Legs, Roles

LEMMA NestedStatus ==
    ASSUME NEW hd \in Heads, NEW l \in {"i", "r"},
           NEW s \in {"None", "Open", "Claimed", "Refunded"}
    PROVE  [hd EXCEPT ![l].status = s] = [hd EXCEPT ![l] = [hd[l] EXCEPT !.status = s]]
<1>1. CASE l = "i"
  BY <1>1 DEF Heads
<1>2. CASE l = "r"
  BY <1>2 DEF Heads
<1>. QED  BY <1>1, <1>2

LEMMA NestedRecipient ==
    ASSUME NEW hd \in Heads, NEW a \in Roles
    PROVE  [hd EXCEPT !.i.recipient = a] = [hd EXCEPT !["i"] = [hd["i"] EXCEPT !.recipient = a]]
BY DEF Heads

LEMMA SettlesMoves ==
    ASSUME Typed, NEW l \in {"i", "r"}, Settles(l),
           head[l].status = "Open",
           now >= head[l].timeout \/ head[l].recipient = Nobody
    PROVE  /\ credit' \in BOOLEAN
           /\ \E b \in Legs : Moves(l, b) /\ head' = [head EXCEPT ![l] = b]
<1>. DEFINE b == [head[l] EXCEPT !.status = "Refunded"]
<1>1. head[l] \in Legs
  BY DEF Typed, Heads
<1>2. b \in Legs /\ b.status = "Refunded" /\ SameTerms(b, head[l])
  BY <1>1, StatusSet
<1>3. head' = [head EXCEPT ![l] = b]
  BY NestedStatus DEF Typed, Settles, Turns
<1>4. credit' \in BOOLEAN
  BY DEF Typed, Settles
<1>. HIDE DEF b
<1>5. Moves(l, b)
  BY <1>2 DEF Moves, IsRefunded
<1>. QED  BY <1>2, <1>3, <1>4, <1>5

LEMMA ClaimMoves ==
    ASSUME Typed, NEW l \in {"i", "r"}, Claimable(head[l]), Turns(l, "Claimed"),
           me = "taker" \/ "claim" \in sent
    PROVE  \E b \in Legs : Moves(l, b) /\ head' = [head EXCEPT ![l] = b]
<1>. DEFINE b == [head[l] EXCEPT !.status = "Claimed"]
<1>1. head[l] \in Legs
  BY DEF Typed, Heads
<1>2. b \in Legs /\ b.status = "Claimed" /\ SameTerms(b, head[l])
  BY <1>1, StatusSet
<1>3. head' = [head EXCEPT ![l] = b]
  BY NestedStatus DEF Typed, Turns
<1>. HIDE DEF b
<1>4. Moves(l, b)
  BY <1>2 DEF Moves, IsClaimed, Claimable, unassigned
<1>. QED  BY <1>2, <1>3, <1>4

LEMMA AssignMoves ==
    ASSUME Typed, NEW a \in Roles, head.i.status = "Open", unassigned(head.i),
           head' = [head EXCEPT !.i.recipient = a]
    PROVE  \E b \in Legs : Moves("i", b) /\ head' = [head EXCEPT !["i"] = b]
<1>. DEFINE b == [head["i"] EXCEPT !.recipient = a]
<1>1. head["i"] \in Legs
  BY DEF Typed, Heads
<1>2. /\ b \in Legs /\ b.status = head["i"].status /\ b.timeout = head["i"].timeout
      /\ b.initiator = head["i"].initiator
  BY <1>1, RecipientSet
<1>3. head' = [head EXCEPT !["i"] = b]
  BY NestedRecipient DEF Typed
<1>. HIDE DEF b
<1>4. Moves("i", b)
  BY <1>2 DEF Moves, Assigns, unassigned
<1>. QED  BY <1>2, <1>3, <1>4

LEMMA MineMoves ==
    ASSUME Typed, Mine
    PROVE  LegMoves
<1>1. UNCHANGED <<cast, now, deep, sent, listing, store, page, careless, due>>
  BY DEF Mine
<1>2. PICK tx \in sent : Mined(tx)
  BY DEF Mine
<1>3. /\ credit \in BOOLEAN /\ head.i = head["i"] /\ mine \in {"i", "r"}
      /\ theirs \in {"i", "r"} /\ peer \in Roles
  BY Sides DEF Typed
<1>4. SUFFICES /\ credit' \in BOOLEAN
               /\ \/ head' = head
                  \/ \E l \in {"i", "r"}, b \in Legs :
                        Moves(l, b) /\ head' = [head EXCEPT ![l] = b]
  BY <1>1 DEF LegMoves
<1>5. CASE tx = "lock"
  <2>1. /\ head[mine].status = "None" /\ now < LockTimeout
        /\ head' = [head EXCEPT ![mine] = OwnLock] /\ credit' = credit
    BY <1>2, <1>5 DEF Mined, Lockable, Becomes
  <2>2. OwnLock \in Legs /\ OwnLock.status = "Open" /\ OwnLock.timeout = LockTimeout
    BY Sides DEF OwnLock, Legs, Roles
  <2>3. Moves(mine, OwnLock)
    BY <1>2, <1>5, <2>1, <2>2 DEF Moves, Locks
  <2>. QED  BY <1>3, <2>1, <2>2, <2>3
<1>6. CASE tx = "assign"
  <2>1. /\ head.i.status = "Open" /\ unassigned(head.i) /\ credit' = credit
        /\ head' = [head EXCEPT !.i.recipient = peer]
    BY <1>2, <1>6 DEF Mined, Assignable
  <2>. QED  BY <1>3, <2>1, AssignMoves
<1>7. CASE tx = "claim"
  <2>1. Claimable(head[theirs]) /\ Turns(theirs, "Claimed") /\ credit' = credit
    BY <1>2, <1>7 DEF Mined
  <2>. QED  BY <1>2, <1>3, <1>7, <2>1, ClaimMoves
<1>8. CASE tx = "refund"
  <2>1. Refunds(head[mine]) /\ Settles(mine)
    BY <1>2, <1>8 DEF Mined
  <2>. QED  BY <1>3, <2>1, SettlesMoves DEF Refunds
<1>9. CASE tx = "release"
  <2>1. Releases(head.i, me) /\ Settles("i")
    BY <1>2, <1>9 DEF Mined
  <2>. QED  BY <1>3, <2>1, SettlesMoves DEF Releases, unassigned
<1>10. CASE tx \notin {"lock", "assign", "claim", "refund", "release"}
  BY <1>2, <1>10 DEF Mined
<1>. QED  BY <1>5, <1>6, <1>7, <1>8, <1>9, <1>10

LEMMA PeerLocksMoves ==
    ASSUME Typed, PeerLocks
    PROVE  LegMoves
<1>1. UNCHANGED <<cast, now, deep, sent, credit, listing, store, page, careless, due>>
  BY DEF PeerLocks
<1>2. /\ me \in Roles /\ peer \in Roles /\ peer # me
      /\ mine \in {"i", "r"} /\ theirs \in {"i", "r"}
  BY Sides
<1>3. SUFFICES \E l \in {"i", "r"}, b \in Legs :
                  Moves(l, b) /\ head' = [head EXCEPT ![l] = b]
  BY <1>1 DEF LegMoves, Typed
<1>4. RESPONSE \in Nat /\ RESPONSE + CLAIM_MARGIN \in Nat
  BY WindowAssumption
<1>5. ASSUME NEW t \in [recipient : Roles, agreed : BOOLEAN, timeout : Nat],
             NEW l \in {"i", "r"}, Lockable(head[l], t.timeout), Becomes(l, Locked(t))
      PROVE  \E k \in {"i", "r"}, b \in Legs :
                Moves(k, b) /\ head' = [head EXCEPT ![k] = b]
  <2>1. Locked(t) \in Legs /\ Locked(t).status = "Open" /\ Locked(t).initiator = peer
    BY <1>2 DEF Locked, Legs, Roles
  <2>2. head[l].status = "None" /\ head' = [head EXCEPT ![l] = Locked(t)]
    BY <1>5 DEF Lockable, Becomes
  <2>3. Moves(l, Locked(t))
    BY <1>2, <2>1, <2>2 DEF Moves, Locks
  <2>. QED  BY <2>1, <2>2, <2>3
<1>6. CASE \E t \in PeerTerms : Lockable(head[theirs], t.timeout)
                                  /\ Becomes(theirs, Locked(t))
  <2>1. PeerTerms \subseteq [recipient : Roles, agreed : BOOLEAN, timeout : Nat]
    <3>. DEFINE T == [recipient : Roles, agreed : BOOLEAN, timeout : Nat]
    <3>1. 1 \in Nat /\ {me} \subseteq Roles /\ {TRUE} \subseteq BOOLEAN
      BY <1>2
    <3>2. {1, RESPONSE, RESPONSE + CLAIM_MARGIN} \subseteq Nat
      BY <1>4
    <3>3. [recipient : {me}, agreed : {TRUE},
           timeout : {1, RESPONSE, RESPONSE + CLAIM_MARGIN}] \subseteq T
      BY <3>1, <3>2
    <3>4. [recipient |-> peer, agreed |-> TRUE, timeout |-> RESPONSE + CLAIM_MARGIN] \in T
      BY <1>2, <1>4
    <3>5. [recipient |-> me, agreed |-> FALSE, timeout |-> RESPONSE + CLAIM_MARGIN] \in T
      BY <1>2, <1>4
    <3>. HIDE DEF T
    <3>6. PeerTerms \subseteq T
      BY <3>3, <3>4, <3>5 DEF PeerTerms
    <3>. QED  BY <3>6 DEF T
  <2>2. PICK t \in PeerTerms : Lockable(head[theirs], t.timeout)
                               /\ Becomes(theirs, Locked(t))
    BY <1>6
  <2>. QED  BY <1>2, <1>5, <2>1, <2>2
<1>7. CASE /\ Lockable(head[mine], RESPONSE)
           /\ Becomes(mine, Locked([recipient |-> peer, agreed |-> FALSE,
                                    timeout |-> RESPONSE]))
  <2>. DEFINE t == [recipient |-> peer, agreed |-> FALSE, timeout |-> RESPONSE]
  <2>1. t \in [recipient : Roles, agreed : BOOLEAN, timeout : Nat] /\ t.timeout = RESPONSE
    BY <1>2, <1>4
  <2>2. Lockable(head[mine], t.timeout) /\ Becomes(mine, Locked(t))
    BY <1>7, <2>1
  <2>. HIDE DEF t
  <2>. QED  BY <1>2, <1>5, <2>1, <2>2
<1>. QED  BY <1>6, <1>7 DEF PeerLocks

\* Every step of the contracts but a reorganisation moves at most one leg.
LEMMA ChainMoves ==
    ASSUME Typed,
           \/ Mine \/ PeerLocks \/ PeerAssigns
           \/ \E l \in {"i", "r"} : PeerClaims(l) \/ PeerRefunds(l)
    PROVE  LegMoves
<1>1. CASE Mine
  BY <1>1, MineMoves
<1>2. CASE PeerLocks
  BY <1>2, PeerLocksMoves
<1>3. CASE PeerAssigns
  <2>1. UNCHANGED <<cast, now, deep, sent, credit, listing, store, page, careless, due>>
    BY <1>3 DEF PeerAssigns
  <2>2. PICK to \in {me, peer} : head' = [head EXCEPT !.i.recipient = to]
    BY <1>3 DEF PeerAssigns
  <2>3. to \in Roles /\ head.i.status = "Open" /\ unassigned(head.i)
    BY <1>3, Sides DEF PeerAssigns, Assignable
  <2>4. \E b \in Legs : Moves("i", b) /\ head' = [head EXCEPT !["i"] = b]
    BY <2>2, <2>3, AssignMoves
  <2>. QED  BY <2>1, <2>4 DEF LegMoves, Typed
<1>4. ASSUME NEW l \in {"i", "r"}, PeerClaims(l)
      PROVE  LegMoves
  <2>1. UNCHANGED <<cast, now, deep, sent, credit, listing, store, page, careless, due>>
    BY <1>4 DEF PeerClaims
  <2>2. \E b \in Legs : Moves(l, b) /\ head' = [head EXCEPT ![l] = b]
    BY <1>4, ClaimMoves DEF PeerClaims
  <2>. QED  BY <2>1, <2>2 DEF LegMoves, Typed
<1>5. ASSUME NEW l \in {"i", "r"}, PeerRefunds(l)
      PROVE  LegMoves
  <2>1. UNCHANGED <<cast, now, deep, sent, listing, store, page, careless, due>>
    BY <1>5 DEF PeerRefunds
  <2>2. /\ Settles(l) /\ head[l].status = "Open"
        /\ now >= head[l].timeout \/ head[l].recipient = Nobody
    BY <1>5 DEF PeerRefunds, Refunds, Releases, unassigned
  <2>3. /\ credit' \in BOOLEAN
        /\ \E b \in Legs : Moves(l, b) /\ head' = [head EXCEPT ![l] = b]
    BY <2>2, SettlesMoves
  <2>. QED  BY <2>1, <2>3 DEF LegMoves
<1>. QED  BY <1>1, <1>2, <1>3, <1>4, <1>5

-----------------------------------------------------------------------------
(* Types are kept.                                                         *)

LEMMA PageTyped == Page \in Pages
BY DEF Page, Pages, Ops

LEMMA PageSet ==
    ASSUME page \in Pages, NEW o \in Ops
    PROVE  [page EXCEPT !.op = o] \in Pages
BY DEF Pages

LEMMA StoreClear ==
    ASSUME store \in Stores, NEW f \in {"stage", "signed", "order"}
    PROVE  Clear(f) \in Stores
<1>1. CASE f = "stage"
  BY <1>1 DEF Stores, Clear
<1>2. CASE f = "signed"
  BY <1>2 DEF Stores, Clear
<1>3. CASE f = "order"
  BY <1>3 DEF Stores, Clear
<1>. QED  BY <1>1, <1>2, <1>3

LEMMA ProbeTyped ==
    ASSUME store \in Stores, page \in Pages, NEW status, ProbeSees(status)
    PROVE  store' \in Stores /\ page' \in Pages
<1>1. Clear("stage") \in Stores
  BY StoreClear
<1>2. /\ [page EXCEPT !.probe = "open"] \in Pages
      /\ [page EXCEPT !.probe = "absent", !.seen = TRUE] \in Pages
  BY DEF Pages
<1>. QED  BY <1>1, <1>2 DEF ProbeSees

\* The steps of the browser leave the contracts and the clock alone.
Outward == UNCHANGED <<cast, now, head, deep, credit>>

LEMMA PostingTyped ==
    ASSUME Typed, Posting
    PROVE  Outward /\ store' \in Stores /\ page' \in Pages /\ careless' \in BOOLEAN
           /\ due' = due
<1>0. store \in Stores /\ page \in Pages /\ careless \in BOOLEAN
  BY DEF Typed
<1>. DEFINE Goal == Outward /\ store' \in Stores /\ page' \in Pages
                    /\ careless' \in BOOLEAN /\ due' = due
<1>1. CASE Post
  BY <1>0, <1>1 DEF Post, Outward, Stores, Pages, Ops
<1>2. CASE LockApproved
  <2>1. [page EXCEPT !.op = "waiting"] \in Pages /\ [page EXCEPT !.op = "idle"] \in Pages
    BY <1>0, PageSet DEF Ops
  <2>. QED  BY <1>0, <1>2, <2>1 DEF LockApproved, Outward
<1>3. ASSUME NEW rejected \in BOOLEAN, LockFails(rejected)
      PROVE  Goal
  <2>1. [page EXCEPT !.op = "idle"] \in Pages
    BY <1>0, PageSet DEF Ops
  <2>2. Clear("stage") \in Stores
    BY <1>0, StoreClear
  <2>. QED  BY <1>0, <1>3, <2>1, <2>2 DEF LockFails, Outward, Idle, Goes
<1>4. CASE waitForEscrow
  <2>1. [page EXCEPT !.op = "signing"] \in Pages /\ [page EXCEPT !.op = "idle"] \in Pages
    BY <1>0, PageSet DEF Ops
  <2>. QED  BY <1>0, <1>4, <2>1 DEF waitForEscrow, Outward, Idle, Goes
<1>5. ASSUME NEW approves \in BOOLEAN, createPortableOrder(approves)
      PROVE  Goal
  <2>1. [page EXCEPT !.op = "publishing"] \in Pages /\ [page EXCEPT !.op = "idle"] \in Pages
    BY <1>0, PageSet DEF Ops
  <2>2. [store EXCEPT !.signed = TRUE] \in Stores
    BY <1>0 DEF Stores
  <2>. QED  BY <1>0, <1>5, <2>1, <2>2 DEF createPortableOrder, Outward, Idle, Goes
<1>6. ASSUME NEW arrives \in BOOLEAN, NEW answered \in BOOLEAN, Publish(arrives, answered)
      PROVE  Goal
  <2>1. [page EXCEPT !.op = "idle"] \in Pages /\ Page \in Pages
    BY <1>0, PageSet, PageTyped DEF Ops
  <2>2. [store EXCEPT !.order = TRUE, !.signed = FALSE, !.stage = FALSE] \in Stores
    BY <1>0 DEF Stores
  <2>. QED  BY <1>0, <1>6, <2>1, <2>2 DEF Publish, Outward
<1>7. CASE resumeSignedPost
  <2>1. [page EXCEPT !.op = "publishing"] \in Pages
    BY <1>0, PageSet DEF Ops
  <2>. QED  BY <1>0, <1>7, <2>1 DEF resumeSignedPost, Outward, Goes
<1>8. CASE resumeStagedPost
  <2>1. [page EXCEPT !.op = "signing", !.probe = "open"] \in Pages
    BY <1>0 DEF Pages, Ops
  <2>. QED  BY <1>0, <1>8, <2>1, ProbeTyped DEF resumeStagedPost, Outward
<1>9. CASE releaseStaged
  <2>1. [page EXCEPT !.op = "release stage"] \in Pages
    BY <1>0, PageSet DEF Ops
  <2>. QED  BY <1>0, <1>9, <2>1, ProbeTyped DEF releaseStaged, Releasing, Outward, Goes
<1>10. CASE discardStagedRecord
  <2>1. /\ [page EXCEPT !.probe = "open", !.seen = FALSE] \in Pages
        /\ [page EXCEPT !.seen = FALSE] \in Pages
    BY <1>0 DEF Pages
  <2>2. Clear("stage") \in Stores
    BY <1>0, StoreClear
  <2>. QED  BY <1>0, <1>10, <2>1, <2>2 DEF discardStagedRecord, Outward
<1>11. ASSUME NEW fails \in BOOLEAN, probeStaged(fails)
       PROVE  Goal
  <2>1. [page EXCEPT !.probe = "unknown"] \in Pages
    BY <1>0 DEF Pages
  <2>. QED  BY <1>0, <1>11, <2>1, ProbeTyped DEF probeStaged, Outward
<1>. QED  BY <1>1, <1>2, <1>3, <1>4, <1>5, <1>6, <1>7, <1>8, <1>9, <1>10, <1>11 DEF Posting

LEMMA ReclaimingTyped ==
    ASSUME Typed, Reclaiming
    PROVE  Outward /\ store' \in Stores /\ page' \in Pages /\ careless' \in BOOLEAN
           /\ due' = due
<1>0. store \in Stores /\ page \in Pages /\ careless \in BOOLEAN
  BY DEF Typed
<1>. DEFINE Goal == Outward /\ store' \in Stores /\ page' \in Pages
                    /\ careless' \in BOOLEAN /\ due' = due
<1>1. CASE releaseEscrow
  <2>1. /\ [page EXCEPT !.op = "release order"] \in Pages
        /\ [page EXCEPT !.op = "check order"] \in Pages
    BY <1>0, PageSet DEF Ops
  <2>. QED  BY <1>0, <1>1, <2>1 DEF releaseEscrow, Releasing, Checking, Outward, Goes
<1>2. CASE Collect
  BY <1>0, <1>2 DEF Collect, Outward
<1>3. CASE onCleared
  BY <1>0, <1>3 DEF onCleared, Outward, Stores, Pages
<1>4. ASSUME NEW record \in {"stage", "order"}
      PROVE  ReleaseApproved(record) \/ GiveUp(record)
             \/ (\E fails \in BOOLEAN : PayoutChecked(record, fails)) => Goal
  <2>1. /\ Checking[record] \in Ops
        /\ [page EXCEPT !.op = "idle", !.deferred = TRUE] \in Pages
    <3>1. CASE record = "stage"
      BY <1>0, <3>1 DEF Pages, Ops, Checking
    <3>2. CASE record = "order"
      BY <1>0, <3>2 DEF Pages, Ops, Checking
    <3>. QED  BY <3>1, <3>2
  <2>2. /\ [page EXCEPT !.op = Checking[record]] \in Pages
        /\ [page EXCEPT !.op = "idle"] \in Pages
    BY <1>0, <2>1, PageSet DEF Ops
  <2>3. Clear(record) \in Stores
    BY <1>0, StoreClear
  <2>. QED  BY <1>0, <2>1, <2>2, <2>3
            DEF ReleaseApproved, GiveUp, PayoutChecked, Outward, Goes, Idle
<1>. QED  BY <1>1, <1>2, <1>3, <1>4 DEF Reclaiming

LEMMA SwappingTyped ==
    ASSUME Typed, Swapping
    PROVE  Outward /\ store' \in Stores /\ page' \in Pages /\ careless' \in BOOLEAN
           /\ due' \in Nat
<1>0. /\ store \in Stores /\ page \in Pages /\ careless \in BOOLEAN /\ due \in Nat
      /\ now \in Nat /\ RESPONSE \in Nat /\ CLAIM_MARGIN \in Nat
      /\ head \in Heads /\ deep \in Legs /\ Page \in Pages
  BY WindowAssumption, PageTyped DEF Typed
<1>. DEFINE Goal == Outward /\ store' \in Stores /\ page' \in Pages
                    /\ careless' \in BOOLEAN /\ due' \in Nat
<1>1. CASE Match
  <2>1. now + RESPONSE \in Nat
    BY <1>0
  <2>2. [store EXCEPT !.order = FALSE, !.swap = now + RESPONSE] \in Stores
    BY <1>0, <2>1 DEF Stores
  <2>. QED  BY <1>0, <1>1, <2>2 DEF Match, Outward
<1>2. CASE RefreshHead
  <2>1. [page EXCEPT !.legs = head] \in Pages
    BY <1>0 DEF Pages
  <2>. QED  BY <1>0, <1>2, <2>1 DEF RefreshHead, Outward
<1>3. ASSUME NEW fails \in BOOLEAN, RefreshDeep(fails)
      PROVE  Goal
  <2>1. [page EXCEPT !.deep = Null] \in Pages /\ [page EXCEPT !.deep = deep] \in Pages
    BY <1>0 DEF Pages
  <2>. QED  BY <1>0, <1>3, <2>1 DEF RefreshDeep, Outward
<1>4. ASSUME NEW tx \in SwapPrompts, Opens(tx)
      PROVE  Goal
  <2>1. [page EXCEPT !.op = tx] \in Pages
    BY <1>0, PageSet DEF Ops
  <2>2. now + CLAIM_MARGIN \in Nat
    BY <1>0
  <2>. QED  BY <1>0, <1>4, <2>1, <2>2 DEF Opens, Outward, Goes
<1>5. CASE lockLeg \/ assignLeg \/ claimLeg \/ refundLeg \/ releaseLeg
  BY <1>4, <1>5 DEF lockLeg, assignLeg, claimLeg, refundLeg, releaseLeg, SwapPrompts
<1>6. CASE Approve \/ Refuse
  <2>1. [page EXCEPT !.op = "idle"] \in Pages
    BY <1>0, PageSet DEF Ops
  <2>. QED  BY <1>0, <1>6, <2>1 DEF Approve, Refuse, Outward, Idle, Goes
<1>7. CASE onDiscard
  <2>1. [store EXCEPT !.swap = Null] \in Stores
    BY <1>0 DEF Stores
  <2>. QED  BY <1>0, <1>7, <2>1 DEF onDiscard, Outward
<1>8. CASE Reload
  BY <1>0, <1>8 DEF Reload, Outward
<1>. QED  BY <1>1, <1>2, <1>3, <1>5, <1>6, <1>7, <1>8 DEF Swapping

\* Every state has its types, the initial one included.
LEMMA InitTyped == Init => Typed
<1>. SUFFICES ASSUME Init PROVE Typed
  OBVIOUS
<1>1. cast \in Casts /\ now \in Nat /\ due \in Nat /\ careless \in BOOLEAN
      /\ credit \in BOOLEAN /\ page \in Pages
  BY PageTyped DEF Init
<1>2. NoLeg \in Legs
  BY DEF NoLeg, Legs
<1>3. [NoLeg EXCEPT !.status = "Open", !.initiator = "maker",
                    !.agreed = TRUE, !.timeout = PRELOCK] \in Legs
  BY WindowAssumption DEF NoLeg, Legs
<1>4. head \in Heads
  BY <1>2, <1>3 DEF Init, Heads
<1>5. deep \in Legs
  BY <1>2, <1>4 DEF Init, Heads
<1>6. Empty \in Stores /\ [Empty EXCEPT !.swap = RESPONSE] \in Stores
  BY WindowAssumption DEF Empty, Stores
<1>7. store \in Stores
  BY <1>6 DEF Init
<1>. QED  BY <1>1, <1>4, <1>5, <1>7 DEF Typed

LEMMA MovesTyped ==
    ASSUME Typed, LegMoves
    PROVE  Typed'
<1>1. head' \in Heads
  BY Replaced DEF Typed, LegMoves
<1>2. credit' \in BOOLEAN
  BY DEF LegMoves
<1>. QED  BY <1>1, <1>2 DEF Typed, LegMoves

LEMMA TypedStep ==
    ASSUME Typed, [Next]_vars
    PROVE  Typed'
<1>1. CASE Posting
  BY <1>1, PostingTyped DEF Typed, Outward
<1>2. CASE Reclaiming
  BY <1>2, ReclaimingTyped DEF Typed, Outward
<1>3. CASE Swapping
  BY <1>3, SwappingTyped DEF Typed, Outward
<1>4. CASE Mine \/ PeerLocks \/ PeerAssigns
           \/ \E l \in {"i", "r"} : PeerClaims(l) \/ PeerRefunds(l)
  BY <1>4, ChainMoves, MovesTyped
<1>5. CASE Confirm
  <2>1. deep' \in Legs
    BY <1>5, LegTypes DEF Confirm
  <2>. QED  BY <1>5, <2>1 DEF Typed, Confirm
<1>6. CASE Reorg
  <2>1. head' \in Heads
    BY <1>6, Sides, Replaced DEF Typed, Reorg, Becomes
  <2>. QED  BY <1>6, <2>1 DEF Typed, Reorg
<1>7. CASE Tick
  <2>1. now' \in Nat
    BY <1>7 DEF Tick, Typed
  <2>. QED  BY <1>7, <2>1 DEF Typed, Tick
<1>8. CASE UNCHANGED vars
  BY <1>8 DEF vars, Typed
<1>. QED  BY <1>1, <1>2, <1>3, <1>4, <1>5, <1>6, <1>7, <1>8 DEF Next, Outside

-----------------------------------------------------------------------------
(* What the page is doing agrees with local storage and with its own leg.  *)

LEMMA LegStep ==
    ASSUME Typed, LegMoves, NEW k \in {"i", "r"}
    PROVE  \/ head'[k] = head[k]
           \/ head'[k] \in Legs /\ Moves(k, head'[k])
<1>1. CASE head' = head
  BY <1>1
<1>2. ASSUME NEW l \in {"i", "r"}, NEW b \in Legs, Moves(l, b),
             head' = [head EXCEPT ![l] = b]
      PROVE  head'[k] = head[k] \/ (head'[k] \in Legs /\ Moves(k, head'[k]))
  <2>1. head'[l] = b /\ (k # l => head'[k] = head[k])
    BY <1>2, Replaced DEF Typed
  <2>. QED  BY <1>2, <2>1
<1>. QED  BY <1>1, <1>2 DEF LegMoves

\* A leg that is settled stays as it is, and one that is locked stays used.
LEMMA LegGrows ==
    ASSUME Typed, LegMoves, NEW k \in {"i", "r"}
    PROVE  /\ Settled(head[k]) => head'[k] = head[k]
           /\ head[k].status # "None" => head'[k].status # "None"
<1>1. head'[k] = head[k] \/ (head'[k] \in Legs /\ Moves(k, head'[k]))
  BY LegStep
<1>. QED  BY <1>1 DEF Settled, Moves, Locks, Assigns, IsClaimed, IsRefunded

LEMMA InitPosting == Init => PostingHolds
<1>. SUFFICES ASSUME Init PROVE PostingHolds
  OBVIOUS
<1>1. /\ store.stage = FALSE /\ store.order = FALSE /\ store.signed = FALSE
      /\ me = "taker" => store.swap = RESPONSE
  BY DEF Init, Empty, me
<1>2. page.op = "idle" /\ page.deferred = FALSE
  BY DEF Init, Page
<1>. QED  BY <1>1, <1>2 DEF PostingHolds, Reclaims, At

LEMMA PostingOutside ==
    ASSUME Typed, PostingHolds,
           UNCHANGED <<cast, store, page, sent>>,
           Settled(head[mine]) => Settled(head'[mine]),
           head[mine].status # "None" => head'[mine].status # "None"
    PROVE  PostingHolds'
<1>1. me' = me /\ mine' = mine
  BY SidesFixed
<1>. QED  BY <1>1 DEF PostingHolds, At, Settled

\* The steps of PostOrderCard.
LEMMA PostingPosting ==
    ASSUME Typed, PostingHolds, Posting
    PROVE  PostingHolds'
<1>0. /\ store \in Stores /\ page \in Pages /\ Outward
      /\ me' = me /\ mine' = mine /\ (me = "maker" <=> mine = "i")
      /\ me = "maker" => head[mine] = head.i
      /\ head' = head /\ head.i \in Legs
  BY PostingTyped, SidesFixed, Sides, LegTypes DEF Typed, Outward
<1>1. CASE Post
  BY <1>0, <1>1 DEF Post, PostingHolds, At, Reclaims, Stores, Pages, Empty
<1>2. CASE LockApproved
  BY <1>0, <1>2 DEF LockApproved, Broadcast, PostingHolds, At, Reclaims, Pages
<1>3. ASSUME NEW rejected \in BOOLEAN, LockFails(rejected)
      PROVE  PostingHolds'
  BY <1>0, <1>3 DEF LockFails, PostingHolds, At, Idle, Goes, Clear, Reclaims, Stores, Pages
<1>4. CASE waitForEscrow
  BY <1>0, <1>4 DEF waitForEscrow, PostingHolds, At, Idle, Goes, Reclaims, Pages
<1>5. ASSUME NEW approves \in BOOLEAN, createPortableOrder(approves)
      PROVE  PostingHolds'
  BY <1>0, <1>5 DEF createPortableOrder, PostingHolds, At, Idle, Goes, Reclaims, Stores, Pages
<1>6. ASSUME NEW arrives \in BOOLEAN, NEW answered \in BOOLEAN, Publish(arrives, answered)
      PROVE  PostingHolds'
  BY <1>0, <1>6 DEF Publish, PostingHolds, At, Page, Reclaims, Stores, Pages
<1>7. CASE resumeSignedPost
  BY <1>0, <1>7 DEF resumeSignedPost, PostingHolds, At, Goes, Reclaims, Pages
<1>8. ASSUME store.stage, At("idle"), ProbeSees(head.i.status), sent' = sent
      PROVE  PostingHolds'
  BY <1>0, <1>8 DEF ProbeSees, Clear, PostingHolds, At, Reclaims, Stores, Pages
<1>9. CASE resumeStagedPost
  <2>1. CASE head.i.status # "Open"
    BY <1>8, <1>9, <2>1 DEF resumeStagedPost, Banner
  <2>2. CASE head.i.status = "Open"
    BY <1>0, <1>9, <2>2 DEF resumeStagedPost, Banner, PostingHolds, At, Reclaims, Pages
  <2>. QED  BY <2>1, <2>2
<1>10. CASE releaseStaged
  <2>1. CASE head.i.status # "Open"
    BY <1>8, <1>10, <2>1 DEF releaseStaged, Banner
  <2>2. CASE head.i.status = "Open"
    <3>1. page' = [page EXCEPT !.op = "release stage"] /\ store' = store /\ sent' = sent
      BY <1>10, <2>2 DEF releaseStaged, Goes, Releasing
    <3>2. store.stage
      BY <1>10 DEF releaseStaged, Banner
    <3>. QED  BY <1>0, <2>2, <3>1, <3>2 DEF PostingHolds, At, Reclaims, Pages
  <2>. QED  BY <2>1, <2>2
<1>11. CASE discardStagedRecord
  BY <1>0, <1>11 DEF discardStagedRecord, Banner, Clear, PostingHolds, At, Reclaims, Stores, Pages
<1>12. ASSUME NEW fails \in BOOLEAN, probeStaged(fails)
       PROVE  PostingHolds'
  <2>1. CASE ~fails
    BY <1>8, <1>12, <2>1 DEF probeStaged
  <2>2. CASE fails
    BY <1>0, <1>12, <2>2 DEF probeStaged, PostingHolds, At, Reclaims, Pages
  <2>. QED  BY <2>1, <2>2
<1>. QED  BY <1>1, <1>2, <1>3, <1>4, <1>5, <1>6, <1>7, <1>9, <1>10, <1>11, <1>12 DEF Posting

LEMMA Prompts ==
    ASSUME NEW record \in {"stage", "order"}
    PROVE  /\ Releasing[record] \in Reclaims
           /\ Checking[record] \in {"check stage", "check order"}
<1>1. CASE record = "stage"
  BY <1>1 DEF Releasing, Checking, Reclaims
<1>2. CASE record = "order"
  BY <1>2 DEF Releasing, Checking, Reclaims
<1>. QED  BY <1>1, <1>2

\* The steps that take an escrow back.
LEMMA PostingReclaiming ==
    ASSUME Typed, PostingHolds, Reclaiming
    PROVE  PostingHolds'
<1>0. /\ store \in Stores /\ page \in Pages /\ Outward
      /\ me' = me /\ mine' = mine /\ (me = "maker" <=> mine = "i")
      /\ me = "maker" => head[mine] = head.i
      /\ head' = head /\ head.i \in Legs
  BY ReclaimingTyped, SidesFixed, Sides, LegTypes DEF Typed, Outward
<1>1. CASE releaseEscrow
  <2>1. PICK o \in {"release order", "check order"} : page' = [page EXCEPT !.op = o]
    BY <1>1 DEF releaseEscrow, Goes, Releasing, Checking
  <2>2. store.order /\ store' = store /\ sent' = sent
    BY <1>1 DEF releaseEscrow
  <2>. QED  BY <1>0, <2>1, <2>2 DEF PostingHolds, At, Reclaims, Pages
<1>2. CASE Collect
  BY <1>0, <1>2 DEF Collect, Broadcast, PostingHolds, At, Reclaims
<1>3. CASE onCleared
  BY <1>0, <1>3 DEF onCleared, PostingHolds, At, Reclaims, Stores, Pages
<1>4. ASSUME NEW record \in {"stage", "order"}, ReleaseApproved(record)
      PROVE  PostingHolds'
  <2>1. PICK o \in {"check stage", "check order"} : page' = [page EXCEPT !.op = o]
    BY <1>4, Prompts DEF ReleaseApproved, Goes
  <2>2. page.op \in Reclaims /\ store' = store
    BY <1>4, Prompts DEF ReleaseApproved, At
  <2>. QED  BY <1>0, <2>1, <2>2 DEF PostingHolds, At, Reclaims, Pages
<1>5. ASSUME NEW record \in {"stage", "order"}, GiveUp(record)
      PROVE  PostingHolds'
  BY <1>0, <1>5 DEF GiveUp, Idle, Goes, PostingHolds, At, Reclaims, Pages
<1>6. ASSUME NEW record \in {"stage", "order"}, NEW fails \in BOOLEAN,
             PayoutChecked(record, fails)
      PROVE  PostingHolds'
  <2>1. page.op \in Reclaims /\ head.i.status # "Open" /\ sent' = sent
    BY <1>6, Prompts DEF PayoutChecked, At, Reclaims
  <2>2. head.i.status # "None" /\ me = "maker"
    BY <1>0, <2>1 DEF PostingHolds
  <2>3. Settled(head[mine])
    BY <1>0, <2>1, <2>2 DEF Settled, Legs
  <2>4. CASE fails \/ credit
    BY <1>0, <1>6, <2>2, <2>3, <2>4 DEF PayoutChecked, PostingHolds, At, Reclaims, Pages
  <2>5. CASE ~(fails \/ credit)
    <3>1. page' = [page EXCEPT !.op = "idle"] /\ store' = Clear(record)
      BY <1>6, <2>5 DEF PayoutChecked
    <3>2. /\ store'.swap = store.swap /\ store'.signed = store.signed
          /\ store'.order => store.order
      <4>1. CASE record = "stage"
        BY <1>0, <3>1, <4>1 DEF Clear, Stores
      <4>2. CASE record = "order"
        BY <1>0, <3>1, <4>2 DEF Clear, Stores
      <4>. QED  BY <4>1, <4>2
    <3>. QED  BY <1>0, <2>1, <2>2, <2>3, <3>1, <3>2 DEF PostingHolds, At, Reclaims, Pages
  <2>. QED  BY <2>4, <2>5
<1>. QED  BY <1>1, <1>2, <1>3, <1>4, <1>5, <1>6 DEF Reclaiming

\* The steps of the swap's page.
LEMMA PostingSwapping ==
    ASSUME Typed, PostingHolds, Swapping
    PROVE  PostingHolds'
<1>0. /\ store \in Stores /\ page \in Pages /\ Outward
      /\ me' = me /\ mine' = mine /\ head' = head
      /\ me \in Roles
  BY SwappingTyped, SidesFixed, Sides DEF Typed, Outward
<1>1. CASE Match
  <2>1. now + RESPONSE \in Nat
    BY WindowAssumption DEF Typed
  <2>2. /\ store' = [store EXCEPT !.order = FALSE, !.swap = now + RESPONSE]
        /\ page' = Page /\ sent' = sent /\ store.order
    BY <1>1 DEF Match
  <2>. QED  BY <1>0, <2>1, <2>2 DEF PostingHolds, At, Page, Reclaims, Stores
<1>2. ASSUME store' = store, sent' = sent, page'.op = page.op,
             page'.deferred = page.deferred
      PROVE  PostingHolds'
  BY <1>0, <1>2 DEF PostingHolds, At
<1>3. CASE RefreshHead
  BY <1>0, <1>2, <1>3 DEF RefreshHead, Pages
<1>4. ASSUME NEW fails \in BOOLEAN, RefreshDeep(fails)
      PROVE  PostingHolds'
  BY <1>0, <1>2, <1>4 DEF RefreshDeep, Pages
<1>5. ASSUME NEW tx \in SwapPrompts, Opens(tx), store.swap # Null
      PROVE  PostingHolds'
  <2>1. page' = [page EXCEPT !.op = tx] /\ store' = store /\ sent' = sent
    BY <1>5 DEF Opens, Goes
  <2>. QED  BY <1>0, <1>5, <2>1 DEF PostingHolds, At, Reclaims, Pages, SwapPrompts
<1>6. CASE lockLeg \/ assignLeg \/ claimLeg \/ refundLeg \/ releaseLeg
  BY <1>5, <1>6 DEF lockLeg, assignLeg, claimLeg, refundLeg, releaseLeg, SwapPrompts
<1>7. CASE Approve \/ Refuse
  BY <1>0, <1>7 DEF Approve, Refuse, Idle, Goes, Broadcast, PostingHolds, At, Reclaims, Pages
<1>8. CASE onDiscard
  BY <1>0, <1>8 DEF onDiscard, PostingHolds, At, Page, Reclaims, Stores
<1>9. CASE Reload
  BY <1>0, <1>9 DEF Reload, PostingHolds, At, Page, Reclaims
<1>. QED  BY <1>1, <1>3, <1>4, <1>6, <1>7, <1>8, <1>9 DEF Swapping

LEMMA PostingStep ==
    ASSUME Typed, PostingHolds, [Next]_vars
    PROVE  PostingHolds'
<1>0. mine \in {"i", "r"} /\ theirs \in {"i", "r"} /\ mine # theirs
  BY Sides
<1>1. CASE Mine \/ PeerLocks \/ PeerAssigns
           \/ \E l \in {"i", "r"} : PeerClaims(l) \/ PeerRefunds(l)
  <2>1. LegMoves
    BY <1>1, ChainMoves
  <2>2. UNCHANGED <<cast, store, page, sent>>
    BY <2>1 DEF LegMoves
  <2>. QED  BY <1>0, <2>1, <2>2, LegGrows, PostingOutside
<1>2. CASE Reorg
  <2>1. head'[mine] = head[mine] /\ UNCHANGED <<cast, store, page, sent>>
    BY <1>0, <1>2, Replaced DEF Reorg, Becomes, Typed
  <2>. QED  BY <2>1, PostingOutside
<1>3. CASE Confirm
  BY <1>3, PostingOutside DEF Confirm
<1>4. CASE Tick
  BY <1>4, PostingOutside DEF Tick
<1>5. CASE UNCHANGED vars
  BY <1>5, PostingOutside DEF vars
<1>. QED  BY <1>1, <1>2, <1>3, <1>4, <1>5, PostingPosting, PostingReclaiming,
             PostingSwapping DEF Next, Outside

-----------------------------------------------------------------------------
(* What a step of the browser may do, as far as being paid goes.           *)

\* The page offers a lock, or a claim, on what it has read; a claim has also
\* passed the guard at the head.
LockOffered ==
    me = "taker" => /\ page.deep # Null /\ Fixed(page.deep)
                    /\ page.deep.timeout >= RESPONSE + CLAIM_MARGIN
ClaimOffered ==
    /\ me = "maker" => page.deep # Null /\ Fixed(page.deep)
    /\ me = "taker" => page.legs # Null /\ page.legs[mine].status = "Claimed"
    /\ head[theirs].status = "Open"
    /\ now < head[theirs].timeout - CLAIM_MARGIN

Sends == /\ sent \subseteq sent'
         /\ "lock" \in sent' => "lock" \in sent \/ At("lock") \/ At("locking")
         /\ "claim" \in sent' => "claim" \in sent \/ At("claim")
Reads == page'.deep \in {page.deep, Null, deep} /\ page'.legs \in {page.legs, Null, head}
Offers ==
    /\ page'.op = "lock" => At("lock") \/ LockOffered
    /\ page'.op = "claim" =>
          At("claim") \/ (ClaimOffered /\ ("claim" \in sent \/ due' = now + CLAIM_MARGIN))
    /\ Pending => due' = due
    /\ store'.swap # Null => store.swap # Null \/ store.order
PageStep == Outward /\ Sends /\ Reads /\ Offers

\* A step that opens no prompt of a swap and matches no order.
LEMMA QuietStep ==
    ASSUME page' \in Pages, page \in Pages,
           page'.op \notin {"lock", "claim"} \/ page'.op = page.op,
           due' = due, store'.swap # Null => store.swap # Null
    PROVE  Offers
BY DEF Offers, At

LEMMA PostingPages ==
    ASSUME Typed, Posting
    PROVE  PageStep
<1>0. /\ store \in Stores /\ page \in Pages /\ Outward /\ due' = due /\ page' \in Pages
  BY PostingTyped DEF Typed
<1>. DEFINE Calm == page'.op \notin {"lock", "claim"} \/ page'.op = page.op
            Same == store'.swap = store.swap
<1>. SUFFICES Sends /\ Reads /\ Calm /\ Same
  BY <1>0, QuietStep DEF PageStep
<1>1. CASE Post
  BY <1>0, <1>1 DEF Post, Sends, Reads, Stores, Pages
<1>2. CASE LockApproved
  BY <1>0, <1>2 DEF LockApproved, Broadcast, Sends, Reads, Pages
<1>3. ASSUME NEW rejected \in BOOLEAN, LockFails(rejected)
      PROVE  Sends /\ Reads /\ Calm /\ Same
  BY <1>0, <1>3 DEF LockFails, Clear, Idle, Goes, Sends, Reads, Stores, Pages
<1>4. CASE waitForEscrow
  BY <1>0, <1>4 DEF waitForEscrow, Idle, Goes, Sends, Reads, Pages
<1>5. ASSUME NEW approves \in BOOLEAN, createPortableOrder(approves)
      PROVE  Sends /\ Reads /\ Calm /\ Same
  BY <1>0, <1>5 DEF createPortableOrder, Idle, Goes, Sends, Reads, Stores, Pages
<1>6. ASSUME NEW arrives \in BOOLEAN, NEW answered \in BOOLEAN, Publish(arrives, answered)
      PROVE  Sends /\ Reads /\ Calm /\ Same
  BY <1>0, <1>6 DEF Publish, Page, Sends, Reads, Stores, Pages
<1>7. CASE resumeSignedPost
  BY <1>0, <1>7 DEF resumeSignedPost, Goes, Sends, Reads, Pages
<1>8. ASSUME NEW status, ProbeSees(status), sent' = sent
      PROVE  Sends /\ Reads /\ Calm /\ Same
  BY <1>0, <1>8 DEF ProbeSees, Clear, Sends, Reads, Stores, Pages
<1>9. CASE resumeStagedPost
  <2>1. CASE head.i.status # "Open"
    BY <1>8, <1>9, <2>1 DEF resumeStagedPost
  <2>2. CASE head.i.status = "Open"
    BY <1>0, <1>9, <2>2 DEF resumeStagedPost, Sends, Reads, Pages
  <2>. QED  BY <2>1, <2>2
<1>10. CASE releaseStaged
  <2>1. CASE head.i.status # "Open"
    BY <1>8, <1>10, <2>1 DEF releaseStaged
  <2>2. CASE head.i.status = "Open"
    <3>1. page' = [page EXCEPT !.op = "release stage"] /\ store' = store /\ sent' = sent
      BY <1>10, <2>2 DEF releaseStaged, Goes, Releasing
    <3>. QED  BY <1>0, <3>1 DEF Sends, Reads, Pages
  <2>. QED  BY <2>1, <2>2
<1>11. CASE discardStagedRecord
  BY <1>0, <1>11 DEF discardStagedRecord, Clear, Sends, Reads, Stores, Pages
<1>12. ASSUME NEW fails \in BOOLEAN, probeStaged(fails)
       PROVE  Sends /\ Reads /\ Calm /\ Same
  <2>1. CASE ~fails
    BY <1>8, <1>12, <2>1 DEF probeStaged
  <2>2. CASE fails
    BY <1>0, <1>12, <2>2 DEF probeStaged, Sends, Reads, Pages
  <2>. QED  BY <2>1, <2>2
<1>. QED  BY <1>1, <1>2, <1>3, <1>4, <1>5, <1>6, <1>7, <1>9, <1>10, <1>11, <1>12 DEF Posting

LEMMA ReclaimingPages ==
    ASSUME Typed, Reclaiming
    PROVE  PageStep
<1>0. /\ store \in Stores /\ page \in Pages /\ Outward /\ due' = due /\ page' \in Pages
  BY ReclaimingTyped DEF Typed
<1>. DEFINE Calm == page'.op \notin {"lock", "claim"} \/ page'.op = page.op
            Same == store'.swap = store.swap
<1>. SUFFICES Sends /\ Reads /\ Calm /\ Same
  BY <1>0, QuietStep DEF PageStep
<1>1. CASE releaseEscrow
  <2>1. PICK o \in {"release order", "check order"} : page' = [page EXCEPT !.op = o]
    BY <1>1 DEF releaseEscrow, Goes, Releasing, Checking
  <2>2. store' = store /\ sent' = sent
    BY <1>1 DEF releaseEscrow
  <2>. QED  BY <1>0, <2>1, <2>2 DEF Sends, Reads, Pages
<1>2. CASE Collect
  BY <1>0, <1>2 DEF Collect, Broadcast, Sends, Reads
<1>3. CASE onCleared
  BY <1>0, <1>3 DEF onCleared, Sends, Reads, Stores, Pages
<1>4. ASSUME NEW record \in {"stage", "order"}, ReleaseApproved(record)
      PROVE  Sends /\ Reads /\ Calm /\ Same
  <2>1. PICK o \in {"check stage", "check order"} : page' = [page EXCEPT !.op = o]
    BY <1>4, Prompts DEF ReleaseApproved, Goes
  <2>. QED  BY <1>0, <1>4, <2>1 DEF ReleaseApproved, Broadcast, Sends, Reads, Pages
<1>5. ASSUME NEW record \in {"stage", "order"}, GiveUp(record)
      PROVE  Sends /\ Reads /\ Calm /\ Same
  BY <1>0, <1>5 DEF GiveUp, Idle, Goes, Sends, Reads, Pages
<1>6. ASSUME NEW record \in {"stage", "order"}, NEW fails \in BOOLEAN,
             PayoutChecked(record, fails)
      PROVE  Sends /\ Reads /\ Calm /\ Same
  <2>1. Clear(record).swap = store.swap
    <3>1. CASE record = "stage"
      BY <1>0, <3>1 DEF Clear, Stores
    <3>2. CASE record = "order"
      BY <1>0, <3>2 DEF Clear, Stores
    <3>. QED  BY <3>1, <3>2
  <2>. QED  BY <1>0, <1>6, <2>1, ZenonT(60) DEF PayoutChecked, Sends, Reads, Pages
<1>. QED  BY <1>1, <1>2, <1>3, <1>4, <1>5, <1>6 DEF Reclaiming

\* The decision tables of swapMachine.ts, on what the page has read.
LEMMA LockTable ==
    ASSUME Typed, PostingHolds, lockLeg
    PROVE  LockOffered
<1>. SUFFICES ASSUME me = "taker"
              PROVE  /\ page.deep # Null /\ Fixed(page.deep)
                     /\ page.deep.timeout >= RESPONSE + CLAIM_MARGIN
  BY DEF LockOffered
<1>1. CanLockResponder(Swap, page.deep, Read("r"), now) /\ store.swap # Null
  BY DEF lockLeg
<1>2. Swap.t2 = RESPONSE
  BY <1>1 DEF PostingHolds, Swap
<1>3. page.deep # Null /\ page.deep.status = "Open"
  BY <1>1 DEF CanLockResponder, Is
<1>4. page.deep \in Legs
  BY <1>3 DEF Typed, Pages
<1>5. page.deep.recipient = "taker" /\ ~(page.deep.timeout < RESPONSE + CLAIM_MARGIN)
  BY <1>1, <1>2, <1>3 DEF CanLockResponder, initiatorLockIssue, Is, PlanRecipient
<1>6. page.deep.timeout \in Nat /\ RESPONSE \in Nat /\ CLAIM_MARGIN \in Nat
  BY <1>4, WindowAssumption DEF Legs
<1>7. page.deep.timeout >= RESPONSE + CLAIM_MARGIN
  BY <1>5, <1>6
<1>. QED  BY <1>3, <1>5, <1>7, WindowAssumption DEF Fixed

LEMMA ClaimTable ==
    ASSUME Typed, claimLeg
    PROVE  ClaimOffered
<1>1. me \in Roles /\ (me = "taker" => mine = "r") /\ Nobody \notin Roles
  BY Sides DEF Roles
<1>2. /\ head[theirs].status = "Open" /\ ~(now >= head[theirs].timeout - CLAIM_MARGIN)
  BY DEF claimLeg, claimCutoffBlocked
<1>3. head[theirs].timeout \in Nat /\ now \in Nat /\ CLAIM_MARGIN \in Nat
  BY LegTypes, WindowAssumption DEF Legs, Typed
<1>4. now < head[theirs].timeout - CLAIM_MARGIN
  BY <1>2, <1>3
<1>5. ASSUME me = "maker"
      PROVE  page.deep # Null /\ Fixed(page.deep)
  <2>1. CanClaimResponder(Swap, Read("i"), page.deep, now)
    BY <1>5 DEF claimLeg
  <2>2. /\ page.deep # Null /\ page.deep.status = "Open"
        /\ page.deep.recipient = "maker"
    BY <2>1 DEF CanClaimResponder, responderLockIssue, Is, PlanRecipient
  <2>. QED  BY <1>1, <2>2 DEF Fixed, Roles
<1>6. ASSUME me = "taker"
      PROVE  page.legs # Null /\ page.legs[mine].status = "Claimed"
  <2>1. Is(Read("r"), "Claimed")
    BY <1>6 DEF claimLeg, CanClaimInitiator, revealedPreimage
  <2>. QED  BY <1>1, <1>6, <2>1 DEF Is, Read
<1>. QED  BY <1>2, <1>4, <1>5, <1>6 DEF ClaimOffered

LEMMA SwappingPages ==
    ASSUME Typed, PostingHolds, Swapping
    PROVE  PageStep
<1>0. /\ store \in Stores /\ page \in Pages /\ Outward /\ page' \in Pages
  BY SwappingTyped DEF Typed
<1>1. CASE Match
  <2>1. /\ store.order /\ page' = Page /\ due' = due /\ sent' = sent
    BY <1>1 DEF Match
  <2>. QED  BY <1>0, <2>1 DEF PageStep, Sends, Reads, Offers, Page, At
<1>2. CASE RefreshHead
  <2>1. Sends /\ Reads /\ page'.op = page.op /\ due' = due /\ store' = store
    BY <1>0, <1>2 DEF RefreshHead, Sends, Reads, Pages
  <2>. QED  BY <1>0, <2>1, QuietStep DEF PageStep
<1>3. ASSUME NEW fails \in BOOLEAN, RefreshDeep(fails)
      PROVE  PageStep
  <2>1. Sends /\ Reads /\ page'.op = page.op /\ due' = due /\ store' = store
    BY <1>0, <1>3 DEF RefreshDeep, Sends, Reads, Pages
  <2>. QED  BY <1>0, <2>1, QuietStep DEF PageStep
<1>4. ASSUME NEW tx \in SwapPrompts, Opens(tx),
             tx = "lock" => LockOffered, tx = "claim" => ClaimOffered
      PROVE  PageStep
  <2>1. /\ page' = [page EXCEPT !.op = tx] /\ store' = store /\ sent' = sent
        /\ page.op = "idle"
    BY <1>4 DEF Opens, Goes, At
  <2>2. page'.op = tx /\ page'.deep = page.deep /\ page'.legs = page.legs
    BY <1>0, <2>1 DEF Pages
  <2>3. /\ tx # "claim" \/ "claim" \in sent => due' = due
        /\ tx = "claim" => "claim" \in sent \/ due' = now + CLAIM_MARGIN
    BY <1>4 DEF Opens
  <2>4. Pending => due' = due
    BY <2>1, <2>3 DEF Pending, At
  <2>5. Sends /\ Reads
    BY <2>1, <2>2 DEF Sends, Reads
  <2>6. Offers
    BY <1>4, <2>1, <2>2, <2>3, <2>4 DEF Offers
  <2>. QED  BY <1>0, <2>5, <2>6 DEF PageStep
<1>5. CASE lockLeg
  BY <1>4, <1>5, LockTable DEF lockLeg, SwapPrompts
<1>6. CASE claimLeg
  BY <1>4, <1>6, ClaimTable DEF claimLeg, SwapPrompts
<1>7. CASE assignLeg \/ refundLeg \/ releaseLeg
  BY <1>4, <1>7 DEF assignLeg, refundLeg, releaseLeg, SwapPrompts
<1>8. CASE Approve \/ Refuse
  <2>1. /\ page' = [page EXCEPT !.op = "idle"] /\ due' = due /\ store' = store
        /\ sent' \in {sent, sent \cup {page.op}}
    BY <1>8 DEF Approve, Refuse, Idle, Goes, Broadcast
  <2>2. /\ page'.op = "idle" /\ page'.deep = page.deep /\ page'.legs = page.legs
    BY <1>0, <2>1 DEF Pages
  <2>3. Sends /\ Reads
    BY <2>1, <2>2 DEF Sends, Reads, At
  <2>. QED  BY <1>0, <2>1, <2>2, <2>3, QuietStep DEF PageStep
<1>9. CASE onDiscard
  <2>1. /\ page' = Page /\ due' = due /\ sent' = sent
        /\ store' = [store EXCEPT !.swap = Null]
    BY <1>9 DEF onDiscard
  <2>2. store'.swap = Null
    BY <1>0, <2>1 DEF Stores
  <2>. QED  BY <1>0, <2>1, <2>2 DEF PageStep, Sends, Reads, Offers, Page
<1>10. CASE Reload
  BY <1>0, <1>10 DEF Reload, PageStep, Sends, Reads, Offers, Page
<1>. QED  BY <1>1, <1>2, <1>3, <1>5, <1>6, <1>7, <1>8, <1>9, <1>10 DEF Swapping

LEMMA PageSteps ==
    ASSUME Typed, PostingHolds, Posting \/ Reclaiming \/ Swapping
    PROVE  PageStep
BY PostingPages, ReclaimingPages, SwappingPages

-----------------------------------------------------------------------------
(* The browser is paid: PaidInv is kept by every step.                     *)

LEMMA InitPaid == Init => PaidInv
<1>. SUFFICES ASSUME Init PROVE PaidInv
  OBVIOUS
<1>0. Typed
  BY InitTyped
<1>1. /\ sent = {} /\ page.op = "idle" /\ page.legs = Null /\ page.deep = Null
  BY DEF Init, Page
<1>2. NoLeg.status = "None" /\ NoLeg.initiator = Nobody /\ NoLeg.recipient = Nobody
  BY DEF NoLeg
<1>3. head.r = NoLeg
  BY DEF Init
<1>4. /\ head.i.status \in {"None", "Open"} /\ head.i.recipient = Nobody
      /\ me = "maker" => head.i = NoLeg
  BY DEF Init, NoLeg, me
<1>5. /\ me \in Roles /\ Nobody \notin Roles
      /\ me = "maker" => mine = "i" /\ theirs = "r"
      /\ me = "taker" => mine = "r" /\ theirs = "i"
  BY <1>0, Sides DEF Roles
<1>6. head[mine] = NoLeg
  BY <1>3, <1>4, <1>5 DEF Roles
<1>7. deep = head[theirs] /\ deep.recipient = Nobody /\ deep.status \in {"None", "Open"}
  BY <1>2, <1>3, <1>4, <1>5 DEF Init, me, Roles
<1>8. ~Ours
  BY <1>2, <1>5, <1>6 DEF Ours
<1>9. DepthHolds
  BY <1>1, <1>7 DEF DepthHolds, Settled, Fixed
<1>10. OwnLegHolds /\ TakerLocksWell /\ ClaimComes
  BY <1>1, <1>8 DEF OwnLegHolds, TakerLocksWell, ClaimComes, Pending, At
<1>. QED  BY <1>9, <1>10 DEF PaidInv

\* A leg that is for somebody is only claimed, before its timeout, or
\* refunded after it.
LEMMA FixedLegStep ==
    ASSUME Typed, LegMoves, NEW k \in {"i", "r"}, Fixed(head[k])
    PROVE  \/ head'[k] = head[k]
           \/ /\ head[k].status = "Open" /\ SameTerms(head'[k], head[k])
              /\ \/ head'[k].status = "Claimed"
                 \/ head'[k].status = "Refunded" /\ now >= head[k].timeout
<1>1. head'[k] = head[k] \/ Moves(k, head'[k])
  BY LegStep
<1>. QED  BY <1>1 DEF Fixed, Moves, Locks, Assigns, IsClaimed, IsRefunded

LEMMA SameTermsTrans ==
    ASSUME NEW a, NEW b, NEW c, SameTerms(a, b), SameTerms(b, c)
    PROVE  SameTerms(a, c)
BY DEF SameTerms

\* The contracts' steps.
LEMMA MovesDepth ==
    ASSUME Typed, DepthHolds, LegMoves
    PROVE  DepthHolds'
<1>0. theirs' = theirs /\ theirs \in {"i", "r"} /\ UNCHANGED <<now, deep, page>>
  BY SidesFixed, Sides DEF LegMoves
<1>1. Settled(deep) => head'[theirs] = deep
  BY <1>0, LegGrows DEF DepthHolds
<1>2. ASSUME Fixed(deep)
      PROVE  Fixed(head'[theirs]) /\ SameTerms(head'[theirs], deep)
  <2>1. Fixed(head[theirs]) /\ SameTerms(head[theirs], deep)
    BY <1>2 DEF DepthHolds
  <2>2. CASE head'[theirs] = head[theirs]
    BY <2>1, <2>2
  <2>3. CASE head'[theirs].status \in {"Claimed", "Refunded"}
             /\ SameTerms(head'[theirs], head[theirs])
    <3>1. Fixed(head'[theirs])
      BY <2>1, <2>3 DEF Fixed, SameTerms
    <3>. QED  BY <2>1, <2>3, <3>1, SameTermsTrans
  <2>. QED  BY <1>0, <2>1, <2>2, <2>3, FixedLegStep
<1>3. ASSUME head'[theirs].status = "Refunded", head'[theirs].recipient # Nobody
      PROVE  now >= head'[theirs].timeout
  <2>1. head'[theirs] = head[theirs] \/ Moves(theirs, head'[theirs])
    BY <1>0, LegStep
  <2>2. CASE head'[theirs] = head[theirs]
    BY <1>3, <2>2 DEF DepthHolds
  <2>3. CASE Moves(theirs, head'[theirs])
    BY <1>3, <2>3 DEF Moves, Locks, Assigns, IsClaimed, IsRefunded, SameTerms
  <2>. QED  BY <2>1, <2>2, <2>3
<1>. QED  BY <1>0, <1>1, <1>2, <1>3 DEF DepthHolds

LEMMA MovesOwnLeg ==
    ASSUME Typed, OwnLegHolds, LegMoves
    PROVE  OwnLegHolds'
<1>0. /\ mine' = mine /\ me' = me /\ LockTimeout' = LockTimeout /\ mine \in {"i", "r"}
      /\ UNCHANGED <<sent, page>> /\ me \in Roles
  BY SidesFixed, Sides DEF LegMoves
<1>1. head'[mine] = head[mine] \/ Moves(mine, head'[mine])
  BY <1>0, LegStep
<1>2. head'[mine].initiator = me => "lock" \in sent /\ head'[mine].timeout = LockTimeout
  BY <1>1 DEF OwnLegHolds, Ours, Moves, Locks, Assigns, IsClaimed, IsRefunded, SameTerms
<1>3. me = "maker" /\ head'[mine].initiator = me /\ head'[mine].status = "Claimed"
      => "claim" \in sent
  BY <1>1 DEF OwnLegHolds, Ours, Moves, Locks, Assigns, IsClaimed, IsRefunded
<1>4. page.legs # Null /\ Settled(page.legs[mine]) =>
           head'[mine].status = page.legs[mine].status
  BY <1>0, LegGrows DEF OwnLegHolds, Settled
<1>. QED  BY <1>0, <1>2, <1>3, <1>4 DEF OwnLegHolds, Ours

\* What the taker's lock stands on at the head.
LEMMA TakerCovered ==
    ASSUME Typed, DepthHolds, OwnLegHolds, TakerLocksWell, me = "taker", Ours
    PROVE  /\ Fixed(deep) /\ Fixed(head[theirs]) /\ head[mine].timeout = RESPONSE
           /\ head[theirs].timeout >= RESPONSE + CLAIM_MARGIN
<1>1. "lock" \in sent /\ head[mine].timeout = RESPONSE
  BY Sides DEF OwnLegHolds
<1>2. Fixed(deep) /\ deep.timeout >= RESPONSE + CLAIM_MARGIN
  BY <1>1 DEF TakerLocksWell
<1>. QED  BY <1>1, <1>2 DEF DepthHolds, SameTerms

LEMMA MovesClaim ==
    ASSUME Typed, DepthHolds, OwnLegHolds, TakerLocksWell, ClaimComes, LegMoves
    PROVE  ClaimComes'
<1>0. /\ mine' = mine /\ theirs' = theirs /\ me' = me /\ mine \in {"i", "r"}
      /\ theirs \in {"i", "r"} /\ me \in Roles
      /\ UNCHANGED <<sent, page, now, due, deep>>
  BY SidesFixed, Sides DEF LegMoves
<1>1. me = "taker" /\ Pending => head'[mine] = head[mine] /\ head[mine].status = "Claimed"
  BY <1>0, LegGrows DEF ClaimComes, Settled
<1>2. ASSUME Pending, me = "maker" \/ head'[mine].initiator = me
      PROVE  /\ Fixed(deep)
             /\ \/ head'[theirs].status = "Claimed"
                \/ /\ head'[theirs].status = "Open" /\ now <= due
                   /\ due < head'[theirs].timeout
  <2>1. Fixed(deep) /\ InTime
    BY <1>0, <1>1, <1>2 DEF ClaimComes, Ours, Roles
  <2>2. Fixed(head[theirs])
    BY <2>1 DEF DepthHolds
  <2>3. head[theirs].timeout \in Nat /\ now \in Nat /\ due \in Nat
    BY LegTypes DEF Typed, Legs
  <2>4. CASE head'[theirs] = head[theirs]
    BY <2>1, <2>4 DEF InTime
  <2>5. CASE head[theirs].status = "Open" /\ head'[theirs].status = "Refunded"
             /\ now >= head[theirs].timeout
    BY <2>1, <2>3, <2>5 DEF InTime
  <2>. QED  BY <1>0, <2>1, <2>2, <2>4, <2>5, FixedLegStep
<1>. QED  BY <1>0, <1>1, <1>2 DEF ClaimComes, Pending, InTime, Ours, At

LEMMA MovesPaid ==
    ASSUME Typed, PaidInv, LegMoves
    PROVE  PaidInv'
<1>1. TakerLocksWell'
  BY SidesFixed DEF PaidInv, TakerLocksWell, LegMoves, At
<1>. QED  BY <1>1, MovesDepth, MovesOwnLeg, MovesClaim DEF PaidInv

LEMMA ConfirmPaid ==
    ASSUME Typed, PaidInv, Confirm
    PROVE  PaidInv'
<1>0. /\ mine' = mine /\ theirs' = theirs /\ me' = me /\ LockTimeout' = LockTimeout
      /\ deep' = head[theirs] /\ UNCHANGED <<head, now, sent, store, page, due>>
  BY SidesFixed DEF Confirm
<1>1. DepthHolds /\ OwnLegHolds /\ TakerLocksWell /\ ClaimComes
  BY DEF PaidInv
<1>2. Fixed(deep) => Fixed(deep') /\ SameTerms(deep', deep)
  BY <1>0, <1>1 DEF DepthHolds
<1>3. page.deep # Null /\ Fixed(page.deep) => Fixed(deep') /\ SameTerms(page.deep, deep')
  BY <1>1, <1>2 DEF DepthHolds, SameTerms
<1>4. DepthHolds'
  <2>1. SameTerms(head[theirs], head[theirs])
    BY DEF SameTerms
  <2>. QED  BY <1>0, <1>1, <1>3, <2>1 DEF DepthHolds
<1>5. TakerLocksWell'
  BY <1>0, <1>1, <1>2 DEF TakerLocksWell, SameTerms, At
<1>6. ClaimComes'
  BY <1>0, <1>1, <1>2 DEF ClaimComes, Pending, InTime, Ours, At
<1>7. OwnLegHolds'
  BY <1>0, <1>1 DEF OwnLegHolds, Ours
<1>. QED  BY <1>4, <1>5, <1>6, <1>7 DEF PaidInv

\* A reorganisation only replaces a leg that nobody relies on yet.
LEMMA ReorgPaid ==
    ASSUME Typed, PaidInv, Reorg
    PROVE  PaidInv'
<1>0. /\ mine' = mine /\ theirs' = theirs /\ me' = me /\ LockTimeout' = LockTimeout
      /\ UNCHANGED <<deep, now, sent, store, page, due>> /\ me \in Roles
  BY SidesFixed, Sides DEF Reorg
<1>1. DepthHolds /\ OwnLegHolds /\ TakerLocksWell /\ ClaimComes
  BY DEF PaidInv
<1>2. head'[theirs] = deep /\ head'[mine] = head[mine]
  BY Sides, Replaced DEF Reorg, Becomes, Typed
<1>3. head[theirs] # deep /\ head[theirs].status = "Open"
  BY DEF Reorg
<1>4. ~Settled(deep)
  BY <1>1, <1>3 DEF DepthHolds
<1>5. ~Fixed(deep)
  <2>1. SUFFICES ASSUME Fixed(deep) PROVE FALSE
    OBVIOUS
  <2>2. deep \in Legs /\ head[theirs] \in Legs
    BY LegTypes DEF Typed
  <2>3. deep.status = "Open"
    BY <1>4, <2>1, <2>2 DEF Settled, Fixed, Legs
  <2>4. SameTerms(head[theirs], deep)
    BY <1>1, <2>1 DEF DepthHolds
  <2>5. head[theirs] = deep
    BY <1>3, <2>2, <2>3, <2>4 DEF SameTerms, Legs
  <2>. QED  BY <1>3, <2>5
<1>6. DepthHolds'
  BY <1>0, <1>1, <1>2, <1>4, <1>5 DEF DepthHolds, Settled
<1>7. OwnLegHolds'
  BY <1>0, <1>1, <1>2 DEF OwnLegHolds, Ours
<1>8. TakerLocksWell'
  BY <1>0, <1>1 DEF TakerLocksWell, At
<1>9. ClaimComes'
  BY <1>0, <1>1, <1>2, <1>5 DEF ClaimComes, Pending, Ours, At
<1>. QED  BY <1>6, <1>7, <1>8, <1>9 DEF PaidInv

\* The clock does not run past a claim that is on its way.
LEMMA TickPaid ==
    ASSUME Typed, PaidInv, Tick
    PROVE  PaidInv'
<1>0. /\ mine' = mine /\ theirs' = theirs /\ me' = me /\ LockTimeout' = LockTimeout
      /\ UNCHANGED <<head, deep, sent, store, page, due>> /\ now' = now + 1
  BY SidesFixed DEF Tick
<1>1. DepthHolds /\ OwnLegHolds /\ TakerLocksWell /\ ClaimComes
  BY DEF PaidInv
<1>2. /\ head[theirs].timeout \in Nat /\ now \in Nat /\ due \in Nat
      /\ CLAIM_MARGIN \in Nat
  BY LegTypes, WindowAssumption DEF Typed, Legs
<1>3. DepthHolds'
  <2>1. now >= head[theirs].timeout => now + 1 >= head[theirs].timeout
    BY <1>2
  <2>. QED  BY <1>0, <1>1, <2>1 DEF DepthHolds
<1>4. ASSUME Pending, Fixed(deep), InTime
      PROVE  \/ head[theirs].status = "Claimed"
             \/ head[theirs].status = "Open" /\ now + 1 <= due /\ due < head[theirs].timeout
  <2>. SUFFICES ASSUME head[theirs].status = "Open", now <= due, due < head[theirs].timeout
                PROVE  now + 1 <= due
    BY <1>4 DEF InTime
  <2>1. Fixed(head[theirs])
    BY <1>1, <1>4 DEF DepthHolds
  <2>2. Claimable(head[theirs])
    BY <1>2, <2>1 DEF Claimable, unassigned, Fixed
  <2>3. now < due
    BY <1>4, <2>2 DEF Tick, ClaimsKeepUp, Pending
  <2>. QED  BY <1>2, <2>3
<1>5. ClaimComes'
  BY <1>0, <1>1, <1>4 DEF ClaimComes, Pending, InTime, Ours, At
<1>6. OwnLegHolds' /\ TakerLocksWell'
  BY <1>0, <1>1 DEF OwnLegHolds, TakerLocksWell, Ours, At
<1>. QED  BY <1>3, <1>5, <1>6 DEF PaidInv

\* The browser's own steps.
LEMMA PagePaid ==
    ASSUME Typed, PostingHolds, PaidInv, PageStep
    PROVE  PaidInv'
<1>0. /\ mine' = mine /\ theirs' = theirs /\ me' = me /\ LockTimeout' = LockTimeout
      /\ UNCHANGED <<head, deep, now>> /\ me \in Roles
  BY SidesFixed, Sides DEF PageStep, Outward
<1>1. DepthHolds /\ OwnLegHolds /\ TakerLocksWell /\ ClaimComes
  BY DEF PaidInv
<1>2. Sends /\ Reads /\ Offers
  BY DEF PageStep
<1>3. /\ head[theirs].timeout \in Nat /\ now \in Nat /\ due \in Nat
      /\ CLAIM_MARGIN \in Nat
  BY LegTypes, WindowAssumption DEF Typed, Legs
<1>4. DepthHolds'
  <2>1. SameTerms(deep, deep)
    BY DEF SameTerms
  <2>. QED  BY <1>0, <1>1, <1>2, <2>1 DEF DepthHolds, Reads
<1>5. OwnLegHolds'
  BY <1>0, <1>1, <1>2 DEF OwnLegHolds, Ours, Sends, Reads
<1>6. LockOffered /\ me = "taker" => Fixed(deep) /\ deep.timeout >= RESPONSE + CLAIM_MARGIN
  BY <1>1 DEF LockOffered, DepthHolds, SameTerms
<1>7. TakerLocksWell'
  <2>1. me = "taker" => ~At("locking")
    BY DEF PostingHolds, At
  <2>2. me = "taker" /\ ("lock" \in sent' \/ page'.op = "lock") =>
           Fixed(deep) /\ deep.timeout >= RESPONSE + CLAIM_MARGIN
    BY <1>1, <1>2, <1>6, <2>1 DEF TakerLocksWell, Sends, Offers
  <2>. QED  BY <1>0, <2>2 DEF TakerLocksWell, At
<1>8. ("claim" \in sent' \/ page'.op = "claim") => Pending \/ ClaimOffered
  BY <1>2 DEF Pending, Sends, Offers
<1>9. me = "taker" /\ ClaimOffered => head[mine].status = "Claimed"
  BY <1>1 DEF ClaimOffered, OwnLegHolds, Settled
<1>10. ClaimOffered /\ (me = "maker" \/ Ours) => Fixed(deep)
  <2>1. me = "maker" /\ ClaimOffered => Fixed(deep)
    BY <1>1 DEF ClaimOffered, DepthHolds
  <2>2. me = "taker" /\ Ours => Fixed(deep)
    BY <1>1, TakerCovered
  <2>. QED  BY <1>0, <2>1, <2>2 DEF Roles
<1>11. ASSUME "claim" \in sent' \/ page'.op = "claim", ~Pending
       PROVE  /\ head[theirs].status = "Open" /\ now <= due' /\ due' < head[theirs].timeout
  <2>1. ClaimOffered /\ due' = now + CLAIM_MARGIN
    BY <1>2, <1>11 DEF Pending, Sends, Offers
  <2>2. head[theirs].status = "Open" /\ now < head[theirs].timeout - CLAIM_MARGIN
    BY <2>1 DEF ClaimOffered
  <2>. QED  BY <1>3, <2>1, <2>2
<1>12. ClaimComes'
  <2>1. ASSUME "claim" \in sent' \/ page'.op = "claim", me = "maker" \/ Ours
        PROVE  /\ Fixed(deep)
               /\ \/ head[theirs].status = "Claimed"
                  \/ /\ head[theirs].status = "Open" /\ now <= due'
                     /\ due' < head[theirs].timeout
    <3>1. CASE Pending
      <4>1. due' = due
        BY <1>2, <3>1 DEF Offers
      <4>. QED  BY <1>1, <2>1, <3>1, <4>1 DEF ClaimComes, InTime
    <3>2. CASE ~Pending
      BY <1>8, <1>10, <1>11, <2>1, <3>2
    <3>. QED  BY <3>1, <3>2
  <2>2. me = "taker" /\ ("claim" \in sent' \/ page'.op = "claim")
        => head[mine].status = "Claimed"
    BY <1>1, <1>8, <1>9 DEF ClaimComes
  <2>. QED  BY <1>0, <2>1, <2>2 DEF ClaimComes, Pending, InTime, Ours, At
<1>. QED  BY <1>4, <1>5, <1>7, <1>12 DEF PaidInv

LEMMA PaidStep ==
    ASSUME Typed, PostingHolds, PaidInv, [Next]_vars
    PROVE  PaidInv'
<1>1. CASE Posting \/ Reclaiming \/ Swapping
  BY <1>1, PageSteps, PagePaid
<1>2. CASE Mine \/ PeerLocks \/ PeerAssigns
           \/ \E l \in {"i", "r"} : PeerClaims(l) \/ PeerRefunds(l)
  BY <1>2, ChainMoves, MovesPaid
<1>3. CASE UNCHANGED vars
  <2>1. UNCHANGED <<head, deep, now, sent, store, page, due>> /\ cast' = cast
    BY <1>3 DEF vars
  <2>. QED  BY <2>1, SidesFixed DEF PaidInv, DepthHolds, OwnLegHolds, TakerLocksWell,
               ClaimComes, Pending, InTime, Ours, At
<1>. QED  BY <1>1, <1>2, <1>3, ConfirmPaid, ReorgPaid, TickPaid DEF Next, Outside

LEMMA PaidImplies ==
    ASSUME Typed, PaidInv
    PROVE  NotShorted
<1>1. DepthHolds /\ OwnLegHolds /\ TakerLocksWell /\ ClaimComes /\ me \in Roles
  BY Sides DEF PaidInv
<1>2. /\ head[theirs].timeout \in Nat /\ now \in Nat /\ due \in Nat
      /\ RESPONSE \in Nat /\ CLAIM_MARGIN \in Nat
  BY LegTypes, WindowAssumption DEF Typed, Legs
<1>3. ASSUME Ours, head[mine].status = "Claimed",
             \/ head[theirs].status = "Refunded"
             \/ head[theirs].status = "Open" /\ now >= head[theirs].timeout
      PROVE  me = "taker" /\ "claim" \notin sent /\ now >= RESPONSE + CLAIM_MARGIN
  <2>1. "claim" \notin sent
    <3>1. SUFFICES ASSUME "claim" \in sent PROVE FALSE
      OBVIOUS
    <3>2. InTime
      BY <1>1, <1>3, <3>1 DEF ClaimComes, Pending
    <3>. QED  BY <1>2, <1>3, <3>2 DEF InTime
  <2>2. me = "taker"
    BY <1>1, <1>3, <2>1 DEF OwnLegHolds, Roles
  <2>3. Fixed(head[theirs]) /\ head[theirs].timeout >= RESPONSE + CLAIM_MARGIN
    BY <1>1, <1>3, <2>2, TakerCovered
  <2>4. now >= head[theirs].timeout
    BY <1>1, <1>3, <2>3 DEF DepthHolds, Fixed
  <2>. QED  BY <1>2, <2>1, <2>2, <2>3, <2>4
<1>4. ASSUME me = "taker", Ours, now < RESPONSE
      PROVE  ~claimCutoffBlocked(head[theirs].timeout, now)
  <2>1. head[theirs].timeout >= RESPONSE + CLAIM_MARGIN
    BY <1>1, <1>4, TakerCovered
  <2>. QED  BY <1>2, <1>4, <2>1 DEF claimCutoffBlocked
<1>. QED  BY <1>3, <1>4 DEF NotShorted, Ours

\* A browser that pays is paid, for any windows that leave the claim margin and
\* for every order of readings, prompts, reloads, reorganisations and moves of
\* the counterparty, unless it is a taker that broadcast no claim until a margin
\* after the responder timeout; and until that timeout the page of a taker whose
\* escrow was claimed does not refuse its claim (swapMachine.ts, SwapFlow.tsx).
\* Assumed is that a claim whose guard passed is mined within the claim margin
\* (ClaimsKeepUp); of a taker that has not claimed nothing is assumed.
THEOREM NeverShorted == Spec => []NotShorted
<1>. DEFINE IInv == Typed /\ PostingHolds /\ PaidInv
<1>1. Init => IInv
  BY InitTyped, InitPosting, InitPaid
<1>2. IInv /\ [Next]_vars => IInv'
  BY TypedStep, PostingStep, PaidStep
<1>3. IInv => NotShorted
  BY PaidImplies
<1>. QED  BY <1>1, <1>2, <1>3, PTL DEF Spec

-----------------------------------------------------------------------------
(* What was funded can be found in local storage.                          *)

Held == store.stage \/ store.order \/ store.swap # Null

\* A record is only dropped when its lock was never sent, its escrow is
\* settled, or the user insisted; and nothing is sent without a record.
StoreStep ==
    /\ careless => careless'
    /\ Held => Held' \/ Settled(head[mine]) \/ careless' \/ "lock" \notin sent'
    /\ "lock" \in sent' => "lock" \in sent \/ Held' \/ Settled(head[mine])

LEMMA RecordsKept ==
    ASSUME Held => Held', careless' = careless, sent' = sent
    PROVE  StoreStep
BY DEF StoreStep

LEMMA PostingStores ==
    ASSUME Typed, PostingHolds, Posting
    PROVE  StoreStep
<1>0. /\ store \in Stores /\ head.i \in Legs
      /\ me = "maker" => head[mine] = head.i
  BY Sides, LegTypes DEF Typed
<1>1. CASE Post
  BY <1>0, <1>1 DEF Post, Held, StoreStep, Stores
<1>2. CASE LockApproved
  BY <1>2 DEF LockApproved, Broadcast, Held, StoreStep, PostingHolds
<1>3. ASSUME NEW rejected \in BOOLEAN, LockFails(rejected)
      PROVE  StoreStep
  <2>1. /\ "lock" \notin sent /\ (store.stage \/ Settled(head[mine]))
        /\ careless' = careless
    BY <1>3 DEF LockFails, PostingHolds
  <2>2. CASE rejected
    BY <1>3, <2>1, <2>2 DEF LockFails, StoreStep
  <2>3. CASE ~rejected
    BY <1>3, <2>1, <2>3 DEF LockFails, StoreStep, Held
  <2>. QED  BY <2>2, <2>3
<1>4. CASE waitForEscrow
  BY <1>4, RecordsKept DEF waitForEscrow, Held
<1>5. ASSUME NEW approves \in BOOLEAN, createPortableOrder(approves)
      PROVE  StoreStep
  BY <1>0, <1>5, RecordsKept DEF createPortableOrder, Held, Stores
<1>6. ASSUME NEW arrives \in BOOLEAN, NEW answered \in BOOLEAN, Publish(arrives, answered)
      PROVE  StoreStep
  <2>1. [store EXCEPT !.order = TRUE, !.signed = FALSE, !.stage = FALSE].order
    BY <1>0 DEF Stores
  <2>2. Held => Held'
    BY <1>6, <2>1 DEF Publish, Held
  <2>. QED  BY <1>6, <2>2, RecordsKept DEF Publish
<1>7. CASE resumeSignedPost
  BY <1>7, RecordsKept DEF resumeSignedPost, Held
<1>8. ASSUME store.stage, ProbeSees(head.i.status), sent' = sent, careless' = careless
      PROVE  StoreStep
  <2>1. me = "maker"
    BY <1>8 DEF PostingHolds
  <2>2. CASE head.i.status \in {"None", "Open"}
    BY <1>8, <2>2, RecordsKept DEF ProbeSees, Held
  <2>3. CASE head.i.status \notin {"None", "Open"}
    BY <1>0, <1>8, <2>1, <2>3 DEF Settled, Legs, StoreStep
  <2>. QED  BY <2>2, <2>3
<1>9. CASE resumeStagedPost
  <2>1. CASE head.i.status # "Open"
    BY <1>8, <1>9, <2>1 DEF resumeStagedPost, Banner
  <2>2. CASE head.i.status = "Open"
    BY <1>9, <2>2, RecordsKept DEF resumeStagedPost, Held
  <2>. QED  BY <2>1, <2>2
<1>10. CASE releaseStaged
  <2>1. CASE head.i.status # "Open"
    BY <1>8, <1>10, <2>1 DEF releaseStaged, Banner
  <2>2. CASE head.i.status = "Open"
    BY <1>10, <2>2, RecordsKept DEF releaseStaged, Held
  <2>. QED  BY <2>1, <2>2
<1>11. CASE discardStagedRecord
  <2>1. CASE head.i.status = "Open"
    BY <1>11, <2>1, RecordsKept DEF discardStagedRecord, Held
  <2>2. CASE head.i.status # "Open"
    BY <1>11, <2>2 DEF discardStagedRecord, StoreStep
  <2>. QED  BY <2>1, <2>2
<1>12. ASSUME NEW fails \in BOOLEAN, probeStaged(fails)
       PROVE  StoreStep
  <2>1. CASE ~fails
    BY <1>8, <1>12, <2>1 DEF probeStaged
  <2>2. CASE fails
    BY <1>12, <2>2, RecordsKept DEF probeStaged, Held
  <2>. QED  BY <2>1, <2>2
<1>. QED  BY <1>1, <1>2, <1>3, <1>4, <1>5, <1>6, <1>7, <1>9, <1>10, <1>11, <1>12 DEF Posting

LEMMA ReclaimingStores ==
    ASSUME Typed, PostingHolds, Reclaiming
    PROVE  StoreStep
<1>0. /\ store \in Stores /\ head.i \in Legs
      /\ me = "maker" => head[mine] = head.i
  BY Sides, LegTypes DEF Typed
<1>1. CASE releaseEscrow
  BY <1>1, RecordsKept DEF releaseEscrow, Held
<1>2. CASE Collect
  BY <1>2 DEF Collect, Broadcast, Held, StoreStep
<1>3. CASE onCleared
  BY <1>3 DEF onCleared, PostingHolds, StoreStep
<1>4. ASSUME NEW record \in {"stage", "order"}, ReleaseApproved(record)
      PROVE  StoreStep
  BY <1>4 DEF ReleaseApproved, Broadcast, Held, StoreStep
<1>5. ASSUME NEW record \in {"stage", "order"}, GiveUp(record)
      PROVE  StoreStep
  BY <1>5, RecordsKept DEF GiveUp, Held
<1>6. ASSUME NEW record \in {"stage", "order"}, NEW fails \in BOOLEAN,
             PayoutChecked(record, fails)
      PROVE  StoreStep
  <2>1. page.op \in Reclaims /\ head.i.status # "Open"
    BY <1>6, Prompts DEF PayoutChecked, At, Reclaims
  <2>2. me = "maker" /\ head[mine].status # "None"
    BY <2>1 DEF PostingHolds
  <2>3. Settled(head[mine])
    BY <1>0, <2>1, <2>2 DEF Settled, Legs
  <2>. QED  BY <1>6, <2>3 DEF PayoutChecked, StoreStep
<1>. QED  BY <1>1, <1>2, <1>3, <1>4, <1>5, <1>6 DEF Reclaiming

LEMMA SwappingStores ==
    ASSUME Typed, PostingHolds, OwnLegHolds, Swapping
    PROVE  StoreStep
<1>0. store \in Stores /\ page \in Pages /\ mine \in {"i", "r"} /\ me \in Roles
  BY Sides DEF Typed
<1>1. CASE Match
  <2>1. now + RESPONSE \in Nat
    BY WindowAssumption DEF Typed
  <2>2. [store EXCEPT !.order = FALSE, !.swap = now + RESPONSE].swap # Null
    BY <1>0, <2>1, NullAssumption DEF Stores
  <2>. QED  BY <1>1, <2>2, RecordsKept DEF Match, Held
<1>2. CASE RefreshHead
  BY <1>2, RecordsKept DEF RefreshHead, Held
<1>3. ASSUME NEW fails \in BOOLEAN, RefreshDeep(fails)
      PROVE  StoreStep
  BY <1>3, RecordsKept DEF RefreshDeep, Held
<1>4. ASSUME NEW tx, Opens(tx)
      PROVE  StoreStep
  BY <1>4, RecordsKept DEF Opens, Held
<1>5. CASE lockLeg \/ assignLeg \/ claimLeg \/ refundLeg \/ releaseLeg
  BY <1>4, <1>5 DEF lockLeg, assignLeg, claimLeg, refundLeg, releaseLeg
<1>6. CASE Approve
  BY <1>6 DEF Approve, Broadcast, PostingHolds, At, Held, StoreStep
<1>7. CASE Refuse \/ Reload
  BY <1>7, RecordsKept DEF Refuse, Reload, Held
<1>8. CASE onDiscard
  <2>0. careless' = (careless \/ LockMayLand) /\ sent' = sent /\ MayDiscard
    BY <1>8 DEF onDiscard
  <2>1. careless => careless'
    BY <2>0
  <2>2. ASSUME "lock" \in sent, ~LockMayLand
        PROVE  Settled(head[mine])
    <3>1. page.legs # Null /\ ~Is(Read(mine), "None")
      BY <2>2 DEF LockMayLand
    <3>2. page.legs \in Heads
      BY <1>0, <3>1 DEF Pages
    <3>3. page.legs[mine] \in Legs
      BY <1>0, <3>2 DEF Heads
    <3>4. Read(mine) = page.legs[mine] /\ Read(mine) # Null
      BY <3>1, <3>3, NullAssumption DEF Read
    <3>5. page.legs[mine].status # "None"
      BY <3>1, <3>4 DEF Is
    <3>6. page.legs[mine].status # "Open"
      <4>1. CASE complete(Read("i"), Read("r"))
        BY <1>0, <3>4, <4>1 DEF complete, Is
      <4>2. CASE ~OwnLocked(Read(mine))
        BY <3>4, <4>2 DEF OwnLocked, Is
      <4>. QED  BY <2>0, <4>1, <4>2 DEF MayDiscard
    <3>7. Settled(page.legs[mine])
      BY <3>3, <3>5, <3>6 DEF Settled, Legs
    <3>. QED  BY <3>1, <3>7 DEF OwnLegHolds, Settled
  <2>. QED  BY <2>0, <2>1, <2>2 DEF StoreStep
<1>. QED  BY <1>1, <1>2, <1>3, <1>5, <1>6, <1>7, <1>8 DEF Swapping

\* The browser's own steps.
LEMMA PageStores ==
    ASSUME Typed, OwnLegHolds, EscrowRecoverable, StoreStep,
           Outward, sent \subseteq sent'
    PROVE  EscrowRecoverable'
<1>0. /\ mine' = mine /\ me' = me /\ LockTimeout' = LockTimeout
      /\ UNCHANGED <<head, now>>
  BY SidesFixed DEF Outward
<1>. DEFINE Needs(s) == \/ head[mine].initiator = me /\ head[mine].status = "Open"
                        \/ "lock" \in s /\ Lockable(head[mine], LockTimeout)
<1>1. Needs(sent) /\ ~careless => Held
  BY DEF EscrowRecoverable, Held
<1>2. ASSUME Needs(sent'), ~careless'
      PROVE  Held'
  <2>1. ~Settled(head[mine])
    BY <1>2 DEF Settled, Lockable
  <2>2. "lock" \in sent'
    BY <1>2 DEF OwnLegHolds, Ours
  <2>3. CASE "lock" \in sent
    <3>1. Needs(sent)
      BY <1>2, <2>3
    <3>. QED  BY <1>1, <1>2, <2>1, <2>2, <3>1 DEF StoreStep
  <2>4. CASE "lock" \notin sent
    BY <2>1, <2>2, <2>4 DEF StoreStep
  <2>. QED  BY <2>3, <2>4
<1>. QED  BY <1>0, <1>2 DEF EscrowRecoverable, Held, Lockable

\* The contracts' steps and the clock's.
LEMMA MovesStores ==
    ASSUME Typed, EscrowRecoverable, LegMoves
    PROVE  EscrowRecoverable'
<1>0. /\ mine' = mine /\ me' = me /\ LockTimeout' = LockTimeout
      /\ UNCHANGED <<now, sent, store, careless>> /\ mine \in {"i", "r"}
  BY SidesFixed, Sides DEF LegMoves
<1>1. head'[mine] = head[mine] \/ Moves(mine, head'[mine])
  BY <1>0, LegStep
<1>2. CASE head'[mine] = head[mine]
  BY <1>0, <1>2 DEF EscrowRecoverable, Lockable
<1>3. CASE Moves(mine, head'[mine])
  <2>1. head'[mine].status # "None"
    BY <1>3 DEF Moves, Locks, Assigns, IsClaimed, IsRefunded
  <2>2. head'[mine].initiator = me /\ head'[mine].status = "Open" =>
           \/ head[mine].initiator = me /\ head[mine].status = "Open"
           \/ "lock" \in sent /\ head[mine].status = "None" /\ now < LockTimeout
    BY <1>3 DEF Moves, Locks, Assigns, IsClaimed, IsRefunded
  <2>. QED  BY <1>0, <2>1, <2>2 DEF EscrowRecoverable, Lockable
<1>. QED  BY <1>1, <1>2, <1>3

LEMMA RecoverableStep ==
    ASSUME Typed, PostingHolds, PaidInv, EscrowRecoverable, [Next]_vars
    PROVE  EscrowRecoverable'
<1>0. OwnLegHolds
  BY DEF PaidInv
<1>1. CASE Posting \/ Reclaiming \/ Swapping
  <2>1. Outward /\ sent \subseteq sent'
    BY <1>1, PageSteps DEF PageStep, Sends
  <2>2. StoreStep
    BY <1>0, <1>1, PostingStores, ReclaimingStores, SwappingStores
  <2>. QED  BY <1>0, <2>1, <2>2, PageStores
<1>2. CASE Mine \/ PeerLocks \/ PeerAssigns
           \/ \E l \in {"i", "r"} : PeerClaims(l) \/ PeerRefunds(l)
  BY <1>2, ChainMoves, MovesStores
<1>3. ASSUME cast' = cast, head'[mine] = head[mine], UNCHANGED <<sent, store, careless>>,
             now' < LockTimeout => now < LockTimeout
      PROVE  EscrowRecoverable'
  BY <1>3, SidesFixed DEF EscrowRecoverable, Lockable
<1>4. CASE Reorg
  <2>1. head'[mine] = head[mine]
    BY <1>4, Sides, Replaced DEF Reorg, Becomes, Typed
  <2>. QED  BY <1>3, <1>4, <2>1 DEF Reorg
<1>5. CASE Confirm
  BY <1>3, <1>5 DEF Confirm
<1>6. CASE Tick
  <2>1. now + 1 < LockTimeout => now < LockTimeout
    BY Sides DEF Typed
  <2>. QED  BY <1>3, <1>6, <2>1 DEF Tick
<1>7. CASE UNCHANGED vars
  BY <1>3, <1>7 DEF vars
<1>. QED  BY <1>1, <1>2, <1>4, <1>5, <1>6, <1>7 DEF Next, Outside

\* What a browser has funded, or is about to, can be recovered from local
\* storage after any reload, refused prompt, lost answer or failed read,
\* unless the user discarded a record whose lock could still land
\* (PostOrderCard.tsx, MyOrderCard.tsx, SwapFlow.tsx).
THEOREM AlwaysRecoverable == Spec => []EscrowRecoverable
<1>. DEFINE IInv == Typed /\ PostingHolds /\ PaidInv /\ EscrowRecoverable
<1>1. Init => IInv
  <2>. SUFFICES ASSUME Init PROVE IInv
    OBVIOUS
  <2>1. Typed /\ PostingHolds /\ PaidInv
    BY InitTyped, InitPosting, InitPaid
  <2>2. sent = {}
    BY DEF Init
  <2>3. head[mine].initiator # me
    BY <2>1, <2>2 DEF PaidInv, OwnLegHolds, Ours
  <2>. QED  BY <2>1, <2>2, <2>3 DEF EscrowRecoverable
<1>2. IInv /\ [Next]_vars => IInv'
  BY TypedStep, PostingStep, PaidStep, RecoverableStep
<1>. QED  BY <1>1, <1>2, PTL DEF Spec

-----------------------------------------------------------------------------
(* The order list of the panel (MirrorBook), which a browser has beside    *)
(* its swap: an order seen signed twice stays hidden.                      *)

Payloads(m) == IF m = Primary THEN DOMAIN Catalogue ELSE PeerBooks

AnswerWell(r, m) ==
    r # Nil => /\ r = [fresh |-> r.fresh, answer |-> r.answer]
               /\ r.answer \in {Nil, Failed} \cup Payloads(m)

SnapWell(sn) ==
    /\ sn = [m \in Mirrors |-> sn[m]]
    /\ \A m \in Mirrors : sn[m] # Nil => sn[m] \in Payloads(m)

\* Whatever is on its way or shown is something its mirror lists.
ListWell ==
    /\ ver \in DOMAIN Catalogue
    /\ \A m \in Peers : listed[m] \in PeerBooks
    /\ listed = [m \in Peers |-> listed[m]]
    /\ wire # Nil => wire \in Seq(DOMAIN Catalogue)
    /\ SnapWell(snap)
    /\ req = [m \in Mirrors |-> req[m]]
    /\ \A m \in Mirrors : AnswerWell(req[m], m)

Observed == [Ids -> Nat \cup {Nil}]

\* While the signatures live nothing has run out of its retention: local
\* storage has every id this tab keeps and every id any tab saw conflict.
HeldWell ==
    /\ age \in Nat
    /\ storage \in Observed /\ retained \in Observed
    /\ conflicted \subseteq Ids
    /\ age < Life => \A i \in Ids : retained[i] # Nil \/ i \in conflicted => storage[i] # Nil

ListInv == ListWell /\ HeldWell

\* pruneQuarantines() drops nothing before an order's signatures have lapsed,
\* and mergeRetainedQuarantines() keeps what either side has.
LEMMA Pruning ==
    ASSUME NEW q \in Observed, age \in Nat
    PROVE  /\ pruneQuarantines(q) \in Observed
           /\ age < Life => pruneQuarantines(q) = q
<1>1. Life \in Nat /\ Retention \in Nat /\ Life < Retention
  BY MirrorAssumption
<1>2. \A i \in Ids : q[i] # Nil => q[i] \in Nat
  BY DEF Observed
<1>3. age < Life => \A i \in Ids : q[i] # Nil => age - q[i] < Retention
  BY <1>1, <1>2
<1>. QED  BY <1>2, <1>3 DEF Observed, pruneQuarantines

LEMMA Merging ==
    ASSUME NEW q \in Observed, NEW r \in Observed, age \in Nat
    PROVE  /\ merged(q, r) \in Observed
           /\ age < Life => \A i \in Ids : merged(q, r)[i] # Nil <=> q[i] # Nil \/ r[i] # Nil
<1>. DEFINE both == [i \in Ids |-> Later(q[i], r[i])]
<1>1. both \in Observed
  BY DEF Observed, Later
<1>2. \A i \in Ids : both[i] # Nil <=> q[i] # Nil \/ r[i] # Nil
  BY DEF Later
<1>. HIDE DEF both
<1>3. /\ pruneQuarantines(both) \in Observed
      /\ age < Life => pruneQuarantines(both) = both
  BY <1>1, Pruning
<1>4. merged(q, r) = pruneQuarantines(both)
  BY DEF merged, both
<1>. QED  BY <1>2, <1>3, <1>4

\* The ids that current() finds in conflict are ids the mirrors list, signed
\* by makers whose signatures live.
LEMMA ConflictsKnown ==
    ASSUME NEW sn, SnapWell(sn), NEW av
    PROVE  Conflicts(Rows(sn, av)) \subseteq Ids
<1>1. \A m \in Mirrors : \A row \in Book(m, sn[m]) : sn[m] # Nil => row.id \in Ids
  BY MirrorAssumption DEF SnapWell, Payloads, Book
<1>2. \A row \in Rows(sn, av) : row.id \in Ids
  BY <1>1 DEF Rows
<1>. QED  BY <1>2 DEF Conflicts, LiveSigned

\* Every emit() keeps what it shows in quarantine.
LEMMA EmitKeeps ==
    ASSUME HeldWell, Emit, SnapWell(snap)', age' = age
    PROVE  HeldWell'
<1>. DEFINE seen == Conflicts(Rows(snap', avail'))
            q == merged(retained, storage)
            new == {i \in seen : q[i] = Nil}
            kept == [i \in Ids |-> IF i \in new THEN age ELSE q[i]]
<1>1. seen \subseteq Ids
  BY ConflictsKnown DEF SnapWell
<1>2. q \in Observed /\ (age < Life => \A i \in Ids : q[i] # Nil <=> retained[i] # Nil \/ storage[i] # Nil)
  BY Merging DEF HeldWell
<1>3. /\ storage' = IF new = {} THEN storage ELSE merged(storage, kept)
      /\ retained' = IF new = {} THEN q ELSE merged(kept, storage')
      /\ conflicted' = conflicted \cup seen
  BY DEF Emit, saveQuarantines
<1>4. age \in Nat /\ Nil \notin Nat
  BY MirrorAssumption DEF HeldWell
<1>. HIDE DEF seen, q
<1>5. kept \in Observed
  BY <1>2, <1>4 DEF Observed
<1>6. \A i \in Ids : kept[i] # Nil <=> i \in new \/ q[i] # Nil
  BY <1>4
<1>7. \A i \in seen : i \in new \/ q[i] # Nil
  OBVIOUS
<1>. HIDE DEF kept, new
<1>8. CASE new = {}
  BY <1>1, <1>2, <1>3, <1>7, <1>8 DEF HeldWell
<1>9. CASE new # {}
  <2>1. storage' = merged(storage, kept) /\ retained' = merged(kept, storage')
    BY <1>3, <1>9
  <2>2. /\ storage' \in Observed
        /\ age < Life => \A i \in Ids : storage'[i] # Nil <=> storage[i] # Nil \/ kept[i] # Nil
    BY <1>5, <2>1, Merging DEF HeldWell
  <2>3. /\ retained' \in Observed
        /\ age < Life => \A i \in Ids : retained'[i] # Nil <=> kept[i] # Nil \/ storage'[i] # Nil
    <3>1. \A r \in Observed :
             /\ merged(kept, r) \in Observed
             /\ age < Life => \A i \in Ids : merged(kept, r)[i] # Nil <=> kept[i] # Nil \/ r[i] # Nil
      BY <1>4, <1>5, Merging
    <3>. QED  BY <2>1, <2>2, <3>1
  <2>4. age < Life => \A i \in Ids : i \in conflicted' => storage'[i] # Nil
    BY <1>1, <1>3, <1>6, <1>7, <2>2 DEF HeldWell
  <2>. QED  BY <1>1, <1>3, <1>4, <2>2, <2>3, <2>4 DEF HeldWell
<1>. QED  BY <1>8, <1>9

\* What Take() and Lose() leave is still what mirrors list.
LEMMA TakeKeeps ==
    ASSUME SnapWell(snap), NEW m \in Mirrors, NEW payload \in Payloads(m),
           Take(m, payload)
    PROVE  SnapWell(snap)'
<1>1. snap' = [snap EXCEPT ![m] = payload] \/ snap' = [snap EXCEPT ![m] = Nil]
  BY DEF Take
<1>. QED  BY <1>1 DEF SnapWell, Payloads

LEMMA LoseKeeps ==
    ASSUME SnapWell(snap), NEW m \in Mirrors, Lose(m)
    PROVE  SnapWell(snap)'
<1>1. snap' = [snap EXCEPT ![m] = Nil]
  BY DEF Lose
<1>. QED  BY <1>1 DEF SnapWell, Payloads

AnswersWell(r) == r = [m \in Mirrors |-> r[m]] /\ \A m \in Mirrors : AnswerWell(r[m], m)

LEMMA AnswersKept ==
    ASSUME AnswersWell(req), NEW m \in Mirrors
    PROVE  /\ AnswersWell([req EXCEPT ![m] = Nil])
           /\ AnswersWell([req EXCEPT ![m] = Outdated(@)])
           /\ \A ms : AnswersWell(Requested(ms))
<1>1. \A a : /\ AnswerWell([fresh |-> TRUE, answer |-> Nil], a)
             /\ AnswerWell([fresh |-> FALSE, answer |-> Failed], a)
             /\ AnswerWell(Nil, a)
  BY DEF AnswerWell
<1>2. AnswersWell([req EXCEPT ![m] = Nil])
  BY <1>1 DEF AnswersWell
<1>3. \A r : r \in {Nil, [fresh |-> FALSE, answer |-> Failed]} =>
          AnswersWell([req EXCEPT ![m] = r])
  BY <1>1 DEF AnswersWell
<1>4. AnswersWell([req EXCEPT ![m] = Outdated(@)])
  BY <1>3 DEF Outdated
<1>5. \A ms : AnswersWell(Requested(ms))
  BY <1>1 DEF AnswersWell, Requested
<1>. QED  BY <1>2, <1>4, <1>5

WireWell(w) == w # Nil => w \in Seq(DOMAIN Catalogue)

LEMMA ListWellParts ==
    ListWell <=> /\ ver \in DOMAIN Catalogue
                 /\ \A m \in Peers : listed[m] \in PeerBooks
                 /\ listed = [m \in Peers |-> listed[m]]
                 /\ WireWell(wire) /\ SnapWell(snap) /\ AnswersWell(req)
  BY DEF ListWell, WireWell, AnswersWell

LEMMA EmptyWell ==
    /\ SnapWell([m \in Mirrors |-> Nil])
    /\ AnswersWell([m \in Mirrors |-> Nil])
    /\ WireWell(Nil)
  BY DEF SnapWell, AnswersWell, AnswerWell, WireWell

\* A step of the panel that ends in an emit().
LEMMA PanelStep ==
    ASSUME ListInv, Emit, UNCHANGED <<age, ver, listed>>,
           WireWell(wire)', SnapWell(snap)', AnswersWell(req)'
    PROVE  ListInv'
<1>1. HeldWell'
  BY EmitKeeps DEF ListInv
<1>2. ListWell'
  BY ListWellParts DEF ListInv, ListWell, WireWell, AnswersWell
<1>. QED  BY <1>1, <1>2 DEF ListInv

\* A step that leaves the quarantines alone.
LEMMA QuietListStep ==
    ASSUME ListInv, UNCHANGED <<age, quarantineVars>>, ver' \in DOMAIN Catalogue,
           \A m \in Peers : listed'[m] \in PeerBooks, listed' = [m \in Peers |-> listed'[m]],
           WireWell(wire)', SnapWell(snap)', AnswersWell(req)'
    PROVE  ListInv'
<1>1. HeldWell'
  BY DEF ListInv, HeldWell, quarantineVars
<1>2. ListWell'
  BY DEF ListWell, WireWell, AnswersWell
<1>. QED  BY <1>1, <1>2 DEF ListInv

LEMMA PanelSteps ==
    ASSUME ListInv, Open \/ Poll \/ Connect \/ Frame \/ Disconnected
    PROVE  ListInv'
<1>0. /\ ver \in DOMAIN Catalogue /\ WireWell(wire) /\ SnapWell(snap) /\ AnswersWell(req)
      /\ Primary \in Mirrors /\ Payloads(Primary) = DOMAIN Catalogue
  BY ListWellParts DEF ListInv, Mirrors, Payloads
<1>1. CASE Open
  <2>1. Emit /\ UNCHANGED <<age, ver, listed, wire>> /\ req' = Requested(Mirrors)
    BY <1>1 DEF Open, serverVars
  <2>2. snap' = snap \/ Lose(Primary)
    BY <1>1 DEF Open
  <2>3. SnapWell(snap)'
    BY <1>0, <2>2, LoseKeeps DEF SnapWell
  <2>4. AnswersWell(req)' /\ WireWell(wire)'
    BY <1>0, <2>1, AnswersKept DEF WireWell
  <2>. QED  BY <2>1, <2>3, <2>4, PanelStep
<1>2. CASE Poll
  <2>1. Emit /\ UNCHANGED <<age, ver, listed, wire, snap>> /\ req' = Requested(refreshDisconnected)
    BY <1>2 DEF Poll, serverVars, streamVars
  <2>2. AnswersWell(req)' /\ WireWell(wire)' /\ SnapWell(snap)'
    BY <1>0, <2>1, AnswersKept DEF WireWell, SnapWell
  <2>. QED  BY <2>1, <2>2, PanelStep
<1>3. CASE Connect
  <2>1. Emit /\ UNCHANGED <<age, ver, listed>>
    BY <1>3 DEF Connect, serverVars
  <2>2. wire' = <<ver>> \/ wire' = Nil
    BY <1>3 DEF Connect
  <2>3. snap' = snap \/ Lose(Primary)
    BY <1>3 DEF Connect
  <2>4. req' = req \/ req' = [req EXCEPT ![Primary] = Outdated(@)]
    BY <1>3 DEF Connect
  <2>5. SnapWell(snap)'
    BY <1>0, <2>3, LoseKeeps DEF SnapWell
  <2>6. WireWell(wire)'
    <3>1. \A D : \A x \in D : <<x>> \in Seq(D)
      OBVIOUS
    <3>2. <<ver>> \in Seq(DOMAIN Catalogue)
      BY <1>0, <3>1
    <3>3. WireWell(<<ver>>) /\ WireWell(Nil)
      BY <3>2 DEF WireWell
    <3>. QED  BY <2>2, <3>3
  <2>7. AnswersWell(req)'
    BY <1>0, <2>4, AnswersKept
  <2>. QED  BY <2>1, <2>5, <2>6, <2>7, PanelStep
<1>4. CASE Frame
  <2>1. /\ Emit /\ UNCHANGED <<age, ver, listed>> /\ wire # Nil /\ wire # <<>> /\ wire' = Tail(wire)
        /\ Take(Primary, Head(wire)) /\ req' = [req EXCEPT ![Primary] = Outdated(@)]
    BY <1>4 DEF Frame, serverVars, Superseded
  <2>2. wire \in Seq(DOMAIN Catalogue)
    BY <1>0, <2>1 DEF WireWell
  <2>3. Head(wire) \in Payloads(Primary) /\ Tail(wire) \in Seq(DOMAIN Catalogue)
    BY <1>0, <2>1, <2>2
  <2>4. SnapWell(snap)' /\ WireWell(wire)' /\ AnswersWell(req)'
    BY <1>0, <2>1, <2>3, TakeKeeps, AnswersKept DEF WireWell
  <2>. QED  BY <2>1, <2>4, PanelStep
<1>5. CASE Disconnected
  <2>1. /\ Emit /\ UNCHANGED <<age, ver, listed, wire>> /\ Lose(Primary)
        /\ req' = [req EXCEPT ![Primary] = Outdated(@)]
    BY <1>5 DEF Disconnected, serverVars
  <2>2. SnapWell(snap)' /\ WireWell(wire)' /\ AnswersWell(req)'
    BY <1>0, <2>1, LoseKeeps, AnswersKept DEF WireWell
  <2>. QED  BY <2>1, <2>2, PanelStep
<1>. QED  BY <1>1, <1>2, <1>3, <1>4, <1>5

\* write() queues the frame behind what is on its way, or ends the connection.
LEMMA WrittenWell ==
    ASSUME WireWell(wire), NEW w \in Seq(DOMAIN Catalogue), Written(w)
    PROVE  WireWell(wire)'
<1>1. \A D : \A a, b \in Seq(D) : a \o b \in Seq(D)
  OBVIOUS
<1>2. wire # Nil => wire \o w \in Seq(DOMAIN Catalogue)
  BY <1>1 DEF WireWell
<1>3. wire' = wire \/ wire' = Nil \/ (wire # Nil /\ wire' = wire \o w)
  BY DEF Written
<1>. QED  BY <1>2, <1>3 DEF WireWell

LEMMA PushWell ==
    ASSUME WireWell(wire), ver \in DOMAIN Catalogue, pushBook
    PROVE  WireWell(wire)'
<1>1. \A D : \A x \in D : <<x>> \in Seq(D)
  OBVIOUS
<1>2. <<ver>> \in Seq(DOMAIN Catalogue)
  BY <1>1
<1>3. wire' = wire \/ Written(<<ver>>)
  BY DEF pushBook
<1>4. CASE wire' = wire
  BY <1>4 DEF WireWell
<1>5. CASE Written(<<ver>>)
  BY <1>2, <1>5, WrittenWell
<1>. QED  BY <1>3, <1>4, <1>5

\* The servers.
LEMMA ServerSteps ==
    ASSUME ListInv, \/ Change \/ Push \/ StreamTick
                    \/ \E m \in Mirrors : Down(m) \/ Up(m) \/ Answer(m)
                    \/ \E m \in Peers : PeerLists(m)
    PROVE  ListInv'
<1>0. /\ ver \in DOMAIN Catalogue /\ \A m \in Peers : listed[m] \in PeerBooks
      /\ listed = [m \in Peers |-> listed[m]]
      /\ WireWell(wire) /\ SnapWell(snap) /\ AnswersWell(req)
  BY ListWellParts DEF ListInv
<1>1. UNCHANGED snap => SnapWell(snap)'
  BY <1>0 DEF SnapWell
<1>2. UNCHANGED wire => WireWell(wire)'
  BY <1>0 DEF WireWell
<1>3. UNCHANGED req => AnswersWell(req)'
  BY <1>0
<1>4. CASE Change
  <2>1. /\ UNCHANGED <<age, quarantineVars, listed, wire, snap, req>>
        /\ ver' \in DOMAIN Catalogue
    BY <1>4 DEF Change, streamVars, tabVars
  <2>. QED  BY <1>0, <1>1, <1>2, <1>3, <2>1, QuietListStep
<1>5. CASE Push
  <2>1. UNCHANGED <<age, quarantineVars, listed, ver, snap, req>> /\ pushBook
    BY <1>5 DEF Push, tabVars
  <2>2. WireWell(wire)'
    BY <1>0, <2>1, PushWell
  <2>. QED  BY <1>0, <1>1, <1>3, <2>1, <2>2, QuietListStep
<1>6. CASE StreamTick
  <2>1. UNCHANGED <<age, quarantineVars, listed, ver, snap, req>> /\ (Written(<<>>) \/ pushBook)
    BY <1>6 DEF StreamTick, tabVars
  <2>2. <<>> \in Seq(DOMAIN Catalogue)
    OBVIOUS
  <2>3. WireWell(wire)'
    BY <1>0, <2>1, <2>2, PushWell, WrittenWell
  <2>. QED  BY <1>0, <1>1, <1>3, <2>1, <2>3, QuietListStep
<1>7. ASSUME NEW m \in Mirrors, Down(m) PROVE ListInv'
  <2>1. /\ UNCHANGED <<age, quarantineVars, listed, ver, snap, req>>
        /\ wire' = wire \/ wire' = Nil
    BY <1>7 DEF Down, tabVars
  <2>2. WireWell(wire)'
    BY <1>0, <2>1 DEF WireWell
  <2>. QED  BY <1>0, <1>1, <1>3, <2>1, <2>2, QuietListStep
<1>8. ASSUME NEW m \in Mirrors, Up(m) PROVE ListInv'
  <2>1. UNCHANGED <<age, quarantineVars, listed, ver, wire, snap, req>>
    BY <1>8 DEF Up, streamVars, tabVars
  <2>. QED  BY <1>0, <1>1, <1>2, <1>3, <2>1, QuietListStep
<1>9. ASSUME NEW m \in Mirrors, Answer(m) PROVE ListInv'
  <2>1. /\ UNCHANGED <<age, quarantineVars, listed, ver, wire, snap>> /\ req[m] # Nil
        /\ req' = [req EXCEPT ![m].answer = IF m \notin up THEN Failed
                                            ELSE IF m = Primary THEN ver ELSE listed[m]]
    BY <1>9 DEF Answer, serverVars, streamVars
  <2>. DEFINE a == IF m \notin up THEN Failed ELSE IF m = Primary THEN ver ELSE listed[m]
  <2>2. a \in {Nil, Failed} \cup Payloads(m)
    BY <1>0 DEF Payloads, Mirrors
  <2>. HIDE DEF a
  <2>3. req[m] = [fresh |-> req[m].fresh, answer |-> req[m].answer]
    BY <1>0, <2>1 DEF AnswersWell, AnswerWell
  <2>4. req' = [req EXCEPT ![m] = [fresh |-> req[m].fresh, answer |-> a]]
    <3>1. [req[m] EXCEPT !.answer = a] = [fresh |-> req[m].fresh, answer |-> a]
      BY <2>3
    <3>2. req' = [req EXCEPT ![m].answer = a]
      BY <2>1 DEF a
    <3>. QED  BY <3>1, <3>2
  <2>5. AnswerWell([fresh |-> req[m].fresh, answer |-> a], m)
    BY <2>2 DEF AnswerWell
  <2>6. \A r : AnswerWell(r, m) => AnswersWell([req EXCEPT ![m] = r])
    BY <1>0 DEF AnswersWell
  <2>7. AnswersWell(req)'
    BY <2>4, <2>5, <2>6
  <2>. QED  BY <1>0, <1>1, <1>2, <2>1, <2>7, QuietListStep
<1>10. ASSUME NEW m \in Peers, PeerLists(m) PROVE ListInv'
  <2>1. /\ UNCHANGED <<age, quarantineVars, ver, wire, snap, req>>
        /\ \E rows \in PeerBooks : listed' = [listed EXCEPT ![m] = rows]
    BY <1>10 DEF PeerLists, streamVars, tabVars
  <2>2. (\A n \in Peers : listed'[n] \in PeerBooks) /\ listed' = [n \in Peers |-> listed'[n]]
    BY <1>0, <2>1
  <2>. QED  BY <1>0, <1>1, <1>2, <1>3, <2>1, <2>2, QuietListStep
<1>. QED  BY <1>4, <1>5, <1>6, <1>7, <1>8, <1>9, <1>10

LEMMA DeliverStep ==
    ASSUME ListInv, NEW m \in Mirrors, Deliver(m)
    PROVE  ListInv'
<1>0. WireWell(wire) /\ SnapWell(snap) /\ AnswersWell(req)
  BY ListWellParts DEF ListInv
<1>1. /\ Emit /\ UNCHANGED <<age, ver, listed, wire>>
      /\ req[m] # Nil /\ req[m].answer # Nil /\ req' = [req EXCEPT ![m] = Nil]
      /\ \/ UNCHANGED snap
         \/ Lose(m)
         \/ req[m].answer # Failed /\ Take(m, req[m].answer)
  BY DEF Deliver, serverVars, streamVars
<1>2. req[m].answer \in {Nil, Failed} \cup Payloads(m)
  BY <1>0, <1>1 DEF AnswersWell, AnswerWell
<1>3. SnapWell(snap)'
  <2>1. CASE UNCHANGED snap
    BY <1>0, <2>1 DEF SnapWell
  <2>2. CASE Lose(m)
    BY <1>0, <2>2, LoseKeeps
  <2>3. CASE req[m].answer # Failed /\ Take(m, req[m].answer)
    BY <1>0, <1>1, <1>2, <2>3, TakeKeeps
  <2>. QED  BY <1>1, <2>1, <2>2, <2>3
<1>4. AnswersWell(req)' /\ WireWell(wire)'
  BY <1>0, <1>1, AnswersKept DEF WireWell
<1>. QED  BY <1>1, <1>3, <1>4, PanelStep

\* What ends the page or only touches the quarantines.
LEMMA QuarantineSteps ==
    ASSUME ListInv, \/ Close \/ PageLoads \/ StorageEvent \/ Hour
                    \/ \E i \in Ids : OtherSees(i)
                    \/ UNCHANGED listVars
    PROVE  ListInv'
<1>0. /\ ver \in DOMAIN Catalogue /\ \A m \in Peers : listed[m] \in PeerBooks
      /\ listed = [m \in Peers |-> listed[m]]
      /\ WireWell(wire) /\ SnapWell(snap) /\ AnswersWell(req)
  BY ListWellParts DEF ListInv
<1>1. UNCHANGED <<ver, listed, wire, snap, req>> => ListWell'
  BY DEF ListInv, ListWell, SnapWell, AnswerWell
<1>2. /\ age \in Nat /\ storage \in Observed /\ retained \in Observed /\ conflicted \subseteq Ids
      /\ age < Life => \A i \in Ids : retained[i] # Nil \/ i \in conflicted => storage[i] # Nil
  BY DEF ListInv, HeldWell
<1>3. CASE Close
  <2>1. /\ UNCHANGED <<age, quarantineVars, ver, listed>> /\ wire' = Nil
        /\ snap' = [m \in Mirrors |-> Nil] /\ req' = [m \in Mirrors |-> Nil]
    BY <1>3 DEF Close, serverVars
  <2>2. WireWell(wire)' /\ SnapWell(snap)' /\ AnswersWell(req)'
    BY <2>1, EmptyWell
  <2>. QED  BY <1>0, <2>1, <2>2, QuietListStep
<1>4. CASE PageLoads
  <2>1. /\ UNCHANGED <<age, ver, listed, conflicted>> /\ wire' = Nil
        /\ snap' = [m \in Mirrors |-> Nil] /\ req' = [m \in Mirrors |-> Nil]
        /\ storage' = pruneQuarantines(storage) /\ retained' = storage'
    BY <1>4 DEF PageLoads, serverVars
  <2>2. WireWell(wire)' /\ SnapWell(snap)' /\ AnswersWell(req)'
    BY <2>1, EmptyWell
  <2>3. ListWell'
    BY <1>0, <2>1, <2>2 DEF ListWell, WireWell, AnswersWell
  <2>4. storage' \in Observed /\ (age < Life => storage' = storage)
    BY <1>2, <2>1, Pruning
  <2>5. HeldWell'
    BY <1>2, <2>1, <2>4 DEF HeldWell
  <2>. QED  BY <2>3, <2>5 DEF ListInv
<1>5. CASE StorageEvent
  <2>1. /\ UNCHANGED <<age, ver, listed, wire, snap, req, storage, conflicted>>
        /\ retained' = merged(retained, storage)
    BY <1>5 DEF StorageEvent, serverVars, streamVars, tabVars
  <2>2. /\ retained' \in Observed
        /\ age < Life => \A i \in Ids : retained'[i] # Nil <=> retained[i] # Nil \/ storage[i] # Nil
    BY <1>2, <2>1, Merging
  <2>3. HeldWell'
    BY <1>2, <2>1, <2>2 DEF HeldWell
  <2>. QED  BY <1>1, <2>1, <2>3 DEF ListInv
<1>6. CASE Hour
  <2>1. UNCHANGED <<ver, listed, wire, snap, req, storage, retained, conflicted>> /\ age' = age + 1
    BY <1>6 DEF Hour, serverVars, streamVars, tabVars, quarantineVars
  <2>2. Life \in Nat
    BY MirrorAssumption
  <2>3. age' \in Nat /\ (age' < Life => age < Life)
    BY <1>2, <2>1, <2>2
  <2>4. HeldWell'
    BY <1>2, <2>1, <2>3 DEF HeldWell
  <2>. QED  BY <1>1, <2>1, <2>4 DEF ListInv
<1>7. ASSUME NEW i \in Ids, OtherSees(i) PROVE ListInv'
  <2>. DEFINE seen == [Nothing EXCEPT ![i] = age]
  <2>1. /\ UNCHANGED <<age, ver, listed, wire, snap, req, retained>>
        /\ storage' = merged(storage, seen) /\ conflicted' = conflicted \cup {i}
    BY <1>7 DEF OtherSees, serverVars, streamVars, tabVars, saveQuarantines
  <2>2. seen \in Observed /\ seen[i] # Nil
    BY <1>2, MirrorAssumption DEF Observed, Nothing
  <2>. HIDE DEF seen
  <2>3. /\ storage' \in Observed
        /\ age < Life => \A j \in Ids : storage'[j] # Nil <=> storage[j] # Nil \/ seen[j] # Nil
    BY <1>2, <2>1, <2>2, Merging
  <2>4. HeldWell'
    BY <1>2, <2>1, <2>2, <2>3 DEF HeldWell
  <2>. QED  BY <1>1, <2>1, <2>4 DEF ListInv
<1>8. CASE UNCHANGED listVars
  <2>1. UNCHANGED <<ver, listed, wire, snap, req, age, storage, retained, conflicted>>
    BY <1>8 DEF listVars, serverVars, streamVars, tabVars, quarantineVars
  <2>2. HeldWell'
    BY <1>2, <2>1 DEF HeldWell
  <2>. QED  BY <1>1, <2>1, <2>2 DEF ListInv
<1>. QED  BY <1>3, <1>4, <1>5, <1>6, <1>7, <1>8

LEMMA ListStep == ListInv /\ [ListNext]_listVars => ListInv'
<1>. SUFFICES ASSUME ListInv, [ListNext]_listVars PROVE ListInv'
  OBVIOUS
<1>1. CASE Open \/ Poll \/ Connect \/ Frame \/ Disconnected
  BY <1>1, PanelSteps
<1>2. CASE \/ Change \/ Push \/ StreamTick
           \/ \E m \in Mirrors : Down(m) \/ Up(m) \/ Answer(m)
           \/ \E m \in Peers : PeerLists(m)
  BY <1>2, ServerSteps
<1>3. CASE \E m \in Mirrors : Deliver(m)
  BY <1>3, DeliverStep
<1>4. CASE \/ Close \/ PageLoads \/ StorageEvent \/ Hour
           \/ \E i \in Ids : OtherSees(i)
           \/ UNCHANGED listVars
  BY <1>4, QuarantineSteps
<1>. QED  BY <1>1, <1>2, <1>3, <1>4 DEF ListNext

LEMMA ListStart == ListInit => ListInv
<1>. SUFFICES ASSUME ListInit PROVE ListInv
  OBVIOUS
<1>1. ListWell
  <2>1. /\ ver = 1 /\ listed \in [Peers -> PeerBooks] /\ wire = Nil
        /\ snap = [m \in Mirrors |-> Nil] /\ req = [m \in Mirrors |-> Nil]
    BY DEF ListInit
  <2>2. WireWell(wire) /\ SnapWell(snap) /\ AnswersWell(req)
    BY <2>1, EmptyWell
  <2>. QED  BY <2>1, <2>2, ListWellParts, MirrorAssumption
<1>2. HeldWell
  BY DEF ListInit, HeldWell, Nothing, Observed
<1>. QED  BY <1>1, <1>2 DEF ListInv

\* Through reloads, outages, late answers and other tabs writing the same
\* record, an order that a tab of this browser has seen signed in two variants
\* is not shown again while its signatures live (current(), saveQuarantines()).
THEOREM QuarantineStays == ListSpec => []QuarantineHolds
<1>1. ListInv => QuarantineHolds
  <2>. SUFFICES ASSUME ListInv, age < Life, NEW row \in Shown, row.id \in conflicted
                PROVE  FALSE
    BY DEF QuarantineHolds
  <2>1. row.id \in Ids /\ storage[row.id] # Nil
    BY DEF ListInv, HeldWell
  <2>2. merged(retained, storage)[row.id] # Nil
    BY <2>1, Merging DEF ListInv, HeldWell
  <2>. QED  BY <2>2 DEF Shown
<1>. QED  BY <1>1, ListStart, ListStep, PTL DEF ListSpec

==============================================================================
