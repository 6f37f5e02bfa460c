---------------------------- MODULE HTLCv3Proofs ----------------------------
(***************************************************************************)
(* Proofs about HTLCv3 for every set of accounts, swaps and tokens: what   *)
(* its storage satisfies, and that it implements AtomicEscrow.             *)
(***************************************************************************)
EXTENDS HTLCv3, TLAPS

-----------------------------------------------------------------------------
(* The inductive invariant.  `Good` is what storage satisfies between      *)
(* transactions; `InCall` says, for each kind of frame, how storage        *)
(* differs from the storage saved when the function was entered.           *)

RecordOk(s) ==
    /\ s.amount <= AmountCap
    /\ s.status = "Open" =>
        /\ s.initiator \in Accounts
        /\ s.recipient \in Accounts \cup {Zero}

Good(S) ==
    /\ S \in SnapshotType
    /\ S.entered = 1
    /\ \A h \in Hashlocks : RecordOk(S.swaps[h])
    /\ \A t \in Assets :
        /\ S.outstanding[t] = Total(S.credits[t])
        /\ S.balance[t] >= Total(OpenAmount(S.swaps, t)) + S.outstanding[t]
        /\ S.credits[t][Zero] = 0
        /\ S.credits[t][This] = 0
        /\ \A a \in Addresses :
            S.paidFor[t][a] + S.credits[t][a] = Total(GivenBy(S.swaps, t, a))

NewRecords == [initiator : Accounts, recipient : Accounts \cup {Zero},
               token : Assets, amount : 1 .. AmountCap, timeout : Times,
               status : {"Open"}, preimage : {NoPreimage}]

PullFrame(f) ==
    /\ f.token \in Tokens
    /\ credits = f.saved.credits
    /\ outstanding = f.saved.outstanding
    /\ \E h \in Hashlocks, r \in NewRecords :
        /\ f.saved.swaps[h].status = "None"
        /\ r.timeout > now
        /\ f.token = r.token
        /\ f.amount = r.amount
        /\ swaps = [f.saved.swaps EXCEPT ![h] = r]

\* The rule under which a settlement of record s, stored under h, is allowed.
MaySettle(s, h, status, p, time) ==
    \/ /\ status = "Claimed"
       /\ s.recipient # Zero
       /\ time < s.timeout
       /\ p \in Preimages
       /\ Sha256[p] = h
    \/ /\ status = "Refunded"
       /\ p = s.preimage
       /\ time >= s.timeout \/ s.recipient = Zero

DeliverFrame(f) ==
    /\ credits = f.saved.credits
    /\ outstanding = f.saved.outstanding
    /\ f.child = [f.saved EXCEPT !.swaps = swaps, !.entered = 2]
    /\ \E h \in Hashlocks, status \in Terminal, p \in Preimages \cup {NoPreimage} :
        LET s == f.saved.swaps[h] IN
        /\ s.status = "Open"
        /\ MaySettle(s, h, status, p, now)
        /\ f.token = s.token
        /\ f.amount = s.amount
        /\ f.party = Payee(s, status)
        /\ swaps = [f.saved.swaps EXCEPT ![h].status = status, ![h].preimage = p]

StrictFrame(f) ==
    /\ swaps = f.saved.swaps
    /\ f.amount <= f.saved.credits[f.token][f.party]
    /\ credits = Bump2(f.saved.credits, f.token, f.party, 0 - f.amount)
    /\ outstanding = Bump(f.saved.outstanding, f.token, 0 - f.amount)

InCall(f) ==
    /\ calls = <<f>>
    /\ entered = 2
    /\ Good(f.saved)
    /\ f.before = f.saved.balance[f.token]
    /\ paidFor = f.saved.paidFor
    /\ \A t \in Assets : balance[t] >= f.saved.balance[t]
    /\ \/ f.kind = "pull" /\ PullFrame(f)
       \/ f.kind = "deliver" /\ DeliverFrame(f)
       \/ f.kind = "strict" /\ StrictFrame(f)

IInv ==
    /\ TypeOK
    /\ \/ calls = <<>> /\ Good(Snapshot)
       \/ \E f \in FrameType : InCall(f)

-----------------------------------------------------------------------------
(* Sums over the swaps.  Each lemma says what one write to `_swaps` does   *)
(* to the sums the invariant speaks of.                                    *)

RecordsOk(S) == S \in [Hashlocks -> Swap] /\ \A h \in Hashlocks : RecordOk(S[h])

\* The three ways `_swaps` is written, from S to T.
LockWrite(S, T, h, r) ==
    /\ RecordsOk(S)
    /\ h \in Hashlocks
    /\ S[h].status = "None"
    /\ r \in NewRecords
    /\ T = [S EXCEPT ![h] = r]

AssignWrite(S, T, h, r) ==
    /\ RecordsOk(S)
    /\ h \in Hashlocks
    /\ S[h].status = "Open"
    /\ r \in Accounts
    /\ T = [S EXCEPT ![h].recipient = r]

SettleWrite(S, T, h, status, p) ==
    /\ RecordsOk(S)
    /\ h \in Hashlocks
    /\ S[h].status = "Open"
    /\ status \in Terminal
    /\ p \in Preimages \cup {NoPreimage}
    /\ T = [S EXCEPT ![h].status = status, ![h].preimage = p]

LEMMA AmountsInRange ==
    ASSUME NEW S, RecordsOk(S), NEW t \in Assets, NEW a
    PROVE  /\ OpenAmount(S, t) \in [Hashlocks -> 0 .. AmountCap]
           /\ GivenBy(S, t, a) \in [Hashlocks -> 0 .. AmountCap]
BY BoundsAssumption DEF RecordsOk, RecordOk, Swap, OpenAmount, GivenBy

LEMMA TotalsInt ==
    ASSUME NEW S, RecordsOk(S)
    PROVE  \A t \in Assets :
            /\ Total(OpenAmount(S, t)) \in Int
            /\ \A a \in Addresses : Total(GivenBy(S, t, a)) \in Int
<1> SUFFICES ASSUME NEW t \in Assets
             PROVE  /\ Total(OpenAmount(S, t)) \in Int
                    /\ \A a \in Addresses : Total(GivenBy(S, t, a)) \in Int
  OBVIOUS
<1>1. Total(OpenAmount(S, t)) \in Int
  BY AmountsInRange, TotalOverSwaps
<1>2. ASSUME NEW a \in Addresses PROVE Total(GivenBy(S, t, a)) \in Int
  BY AmountsInRange, TotalOverSwaps
<1> QED BY <1>1, <1>2

\* TotalOverSwaps, for two functions that differ in one value.
LEMMA TotalUpdate ==
    ASSUME NEW f \in [Hashlocks -> 0 .. AmountCap], NEW g, NEW h \in Hashlocks,
           NEW n \in 0 .. AmountCap, g = [f EXCEPT ![h] = n]
    PROVE  /\ Total(f) \in Int
           /\ Total(g) = Total(f) + n - f[h]
<1>1. Total([f EXCEPT ![h] = n]) = Total(f) + n - f[h]
  BY TotalOverSwaps
<1>2. Total(f) \in Int
  BY TotalOverSwaps
<1> QED BY <1>1, <1>2

\* Locking an unused hashlock adds the amount to the escrow and gives
\* nothing to anybody.
LEMMA LockSums ==
    ASSUME NEW S, NEW T, NEW h, NEW r, LockWrite(S, T, h, r)
    PROVE  /\ RecordsOk(T)
           /\ \A t \in Assets : \A a \in Addresses :
                /\ Total(OpenAmount(T, t)) =
                    Total(OpenAmount(S, t)) + (IF r.token = t THEN r.amount ELSE 0)
                /\ GivenBy(T, t, a) = GivenBy(S, t, a)
<1> USE DEF LockWrite
<1>a. RecordsOk(T)
  BY BoundsAssumption DEF RecordsOk, RecordOk, NewRecords, Swap, Addresses, Statuses
<1> SUFFICES ASSUME NEW t \in Assets, NEW a \in Addresses
    PROVE  /\ Total(OpenAmount(T, t)) =
                Total(OpenAmount(S, t)) + (IF r.token = t THEN r.amount ELSE 0)
           /\ GivenBy(T, t, a) = GivenBy(S, t, a)
  BY <1>a
<1> DEFINE n == IF r.token = t THEN r.amount ELSE 0
           F == OpenAmount(S, t)
           G == OpenAmount(T, t)
<1>1. n \in 0 .. AmountCap /\ F[h] = 0
  BY BoundsAssumption DEF NewRecords, OpenAmount
<1>2. G = [F EXCEPT ![h] = n]
  BY DEF OpenAmount, NewRecords, RecordsOk
<1>3. GivenBy(T, t, a) = GivenBy(S, t, a)
  BY DEF GivenBy, NewRecords, RecordsOk, Terminal
<1>4. F \in [Hashlocks -> 0 .. AmountCap]
  BY AmountsInRange
<1>5. Total(G) = Total(F) + n
  <2> HIDE DEF n, F, G
  <2>1. Total(F) \in Int /\ Total(G) = Total(F) + n - F[h]
    BY <1>1, <1>2, <1>4, TotalUpdate
  <2> QED BY <1>1, <2>1
<1> QED BY <1>3, <1>5

\* Settling an Open swap takes its amount out of the escrow and gives it to
\* the payee of the terminal status.
LEMMA SettleSums ==
    ASSUME NEW S, NEW T, NEW h, NEW st, NEW p, SettleWrite(S, T, h, st, p)
    PROVE  /\ RecordsOk(T)
           /\ \A t \in Assets : \A a \in Addresses :
                /\ Total(OpenAmount(T, t)) = Total(OpenAmount(S, t)) -
                        (IF S[h].token = t THEN S[h].amount ELSE 0)
                /\ Total(GivenBy(T, t, a)) = Total(GivenBy(S, t, a)) +
                        (IF S[h].token = t /\ Payee(S[h], st) = a THEN S[h].amount ELSE 0)
<1> USE DEF SettleWrite
<1>a. RecordsOk(T)
  BY ZenonT(60) DEF RecordsOk, RecordOk, Swap, Terminal, Statuses
<1> SUFFICES ASSUME NEW t \in Assets, NEW a \in Addresses
    PROVE  /\ Total(OpenAmount(T, t)) = Total(OpenAmount(S, t)) -
                (IF S[h].token = t THEN S[h].amount ELSE 0)
           /\ Total(GivenBy(T, t, a)) = Total(GivenBy(S, t, a)) +
                (IF S[h].token = t /\ Payee(S[h], st) = a THEN S[h].amount ELSE 0)
  BY <1>a
<1> DEFINE n == IF S[h].token = t THEN S[h].amount ELSE 0
           m == IF S[h].token = t /\ Payee(S[h], st) = a THEN S[h].amount ELSE 0
           F == OpenAmount(S, t)
           G == OpenAmount(T, t)
           J == GivenBy(S, t, a)
           K == GivenBy(T, t, a)
<1>1. n \in 0 .. AmountCap /\ F[h] = n
  BY BoundsAssumption DEF RecordsOk, RecordOk, Swap, OpenAmount
<1>2. m \in 0 .. AmountCap /\ J[h] = 0
  BY BoundsAssumption DEF RecordsOk, RecordOk, Swap, GivenBy, Terminal
<1>3. 0 \in 0 .. AmountCap
  BY BoundsAssumption
<1>4. G = [F EXCEPT ![h] = 0]
  BY DEF OpenAmount, RecordsOk, Swap, Terminal
<1>5. K = [J EXCEPT ![h] = m]
  BY ZenonT(60) DEF GivenBy, RecordsOk, Swap, Terminal, Payee
<1>6. F \in [Hashlocks -> 0 .. AmountCap]
  BY AmountsInRange
<1>7. J \in [Hashlocks -> 0 .. AmountCap]
  BY AmountsInRange
<1>8. Total(G) = Total(F) - n
  <2> HIDE DEF n, m, F, G, J, K
  <2>1. Total(F) \in Int /\ Total(G) = Total(F) + 0 - F[h]
    BY <1>4, <1>6, <1>3, TotalUpdate
  <2> QED BY <1>1, <2>1
<1>9. Total(K) = Total(J) + m
  <2> HIDE DEF n, m, F, G, J, K
  <2>1. Total(J) \in Int /\ Total(K) = Total(J) + m - J[h]
    BY <1>5, <1>2, <1>7, TotalUpdate
  <2> QED BY <1>2, <2>1
<1> QED BY <1>8, <1>9

\* assign changes no sum.
LEMMA AssignSums ==
    ASSUME NEW S, NEW T, NEW h, NEW r, AssignWrite(S, T, h, r)
    PROVE  /\ RecordsOk(T)
           /\ \A t \in Assets : \A a \in Addresses :
                /\ OpenAmount(T, t) = OpenAmount(S, t)
                /\ GivenBy(T, t, a) = GivenBy(S, t, a)
<1> USE DEF AssignWrite
<1>a. RecordsOk(T)
  BY DEF RecordsOk, RecordOk, Swap, Addresses
<1> SUFFICES ASSUME NEW t \in Assets, NEW a \in Addresses
    PROVE  /\ OpenAmount(T, t) = OpenAmount(S, t)
           /\ GivenBy(T, t, a) = GivenBy(S, t, a)
  BY <1>a
<1>1. OpenAmount(T, t) = OpenAmount(S, t)
  BY DEF OpenAmount, RecordsOk, Swap
<1>2. GivenBy(T, t, a) = GivenBy(S, t, a)
  BY DEF GivenBy, RecordsOk, Swap, Terminal, Payee
<1> QED BY <1>1, <1>2

\* Moving one account's entry of a two-level ledger by n.
LedgerMove(m, d, t, a, n) ==
    /\ m \in [Assets -> [Addresses -> Int]]
    /\ t \in Assets
    /\ a \in Addresses
    /\ n \in Int
    /\ d = Bump2(m, t, a, n)

LEMMA LedgerSum ==
    ASSUME NEW m, NEW d, NEW t, NEW a, NEW n, LedgerMove(m, d, t, a, n)
    PROVE  /\ d \in [Assets -> [Addresses -> Int]]
           /\ \A u \in Assets, b \in Addresses :
                d[u][b] = m[u][b] + (IF t = u /\ a = b THEN n ELSE 0)
BY DEF Bump2, LedgerMove

\* Moving one account's credit by n moves the sum of the credits by n.
CreditMove(c, d, t, a, n) ==
    /\ c \in [Assets -> [Addresses -> 0 .. WordMax]]
    /\ t \in Assets
    /\ a \in Addresses
    /\ n \in Int
    /\ c[t][a] + n \in 0 .. WordMax
    /\ d = Bump2(c, t, a, n)

LEMMA CreditSum ==
    ASSUME NEW c, NEW d, NEW t, NEW a, NEW n, CreditMove(c, d, t, a, n)
    PROVE  /\ d \in [Assets -> [Addresses -> 0 .. WordMax]]
           /\ \A u \in Assets :
                /\ Total(d[u]) = Total(c[u]) + (IF t = u THEN n ELSE 0)
                /\ \A b \in Addresses :
                    d[u][b] = c[u][b] + (IF t = u /\ a = b THEN n ELSE 0)
<1> USE DEF CreditMove
<1>1. d \in [Assets -> [Addresses -> 0 .. WordMax]]
  BY DEF Bump2
<1>2. ASSUME NEW u \in Assets
      PROVE  /\ Total(d[u]) = Total(c[u]) + (IF t = u THEN n ELSE 0)
             /\ \A b \in Addresses :
                  d[u][b] = c[u][b] + (IF t = u /\ a = b THEN n ELSE 0)
  <2>1. d[t] = [c[t] EXCEPT ![a] = c[t][a] + n]
    BY DEF Bump2
  <2>2. Total([c[t] EXCEPT ![a] = c[t][a] + n]) = Total(c[t]) + (c[t][a] + n) - c[t][a]
    BY TotalOverCredits
  <2>3. c[t][a] \in Int /\ Total(c[t]) \in Int /\ Total(c[u]) \in Int
    BY BoundsAssumption, TotalOverCredits
  <2>4. Total(d[t]) = Total(c[t]) + n
    BY <2>1, <2>2, <2>3
  <2>5. ASSUME u # t PROVE d[u] = c[u]
    BY <2>5 DEF Bump2
  <2>6. \A b \in Addresses : d[u][b] = c[u][b] + (IF t = u /\ a = b THEN n ELSE 0)
    BY BoundsAssumption DEF Bump2
  <2>7. CASE u = t
    BY <2>4, <2>6, <2>7
  <2>8. CASE u # t
    <3>1. Total(d[u]) = Total(c[u])
      BY <2>5, <2>8
    <3> QED BY <2>3, <2>6, <2>8, <3>1
  <2> QED BY <2>7, <2>8
<1> QED BY <1>1, <1>2

-----------------------------------------------------------------------------
(* The invariant is inductive.                                             *)

LEMMA TypedSnapshot == TypeOK => Snapshot \in SnapshotType
BY DEF TypeOK, Snapshot, SnapshotType

\* A function body runs only between transactions.
LEMMA Idle ==
    ASSUME IInv, NotEntered
    PROVE  /\ calls = <<>>
           /\ Good(Snapshot)
           /\ RecordsOk(swaps)
<1>1. calls = <<>> /\ Good(Snapshot)
  BY DEF IInv, NotEntered, InCall
<1>2. RecordsOk(swaps)
  BY <1>1 DEF Good, RecordsOk, Snapshot, SnapshotType
<1> QED BY <1>1, <1>2

\* A frame on the stack is the only one.
LEMMA Busy ==
    ASSUME IInv, calls # <<>>
    PROVE  /\ Top \in FrameType
           /\ InCall(Top)
           /\ Tail(calls) = <<>>
<1>1. PICK f \in FrameType : InCall(f)
  BY DEF IInv
<1>2. calls = <<f>>
  BY <1>1 DEF InCall
<1>3. Top = f /\ Tail(calls) = <<>>
  BY <1>2 DEF Top
<1> QED BY <1>1, <1>3

LEMMA InitInv == Init => IInv
<1> SUFFICES ASSUME Init PROVE IInv
  OBVIOUS
<1>1. EmptySwap \in Swap
  BY BoundsAssumption DEF EmptySwap, Swap, Addresses, Assets, Times, Statuses
<1>2. TypeOK
  <2>1. <<>> \in Seq(FrameType)
    OBVIOUS
  <2> QED BY <1>1, <2>1, BoundsAssumption DEF Init, TypeOK, Times
<1>3. ASSUME NEW t \in Assets, NEW a
      PROVE  /\ OpenAmount(swaps, t) = [h \in Hashlocks |-> 0]
             /\ GivenBy(swaps, t, a) = [h \in Hashlocks |-> 0]
  BY DEF Init, EmptySwap, OpenAmount, GivenBy, Terminal
<1>4. \A t \in Assets, a \in Addresses :
        /\ Total(OpenAmount(swaps, t)) = 0
        /\ Total(GivenBy(swaps, t, a)) = 0
        /\ Total(credits[t]) = 0
  BY <1>3, TotalOverSwaps, TotalOverCredits DEF Init
<1>5. \A h \in Hashlocks : RecordOk(swaps[h])
  BY BoundsAssumption DEF Init, EmptySwap, RecordOk
<1>6. Good(Snapshot)
  <2>1. Zero \in Addresses /\ This \in Addresses
    BY DEF Addresses
  <2> QED BY <1>2, <1>4, <1>5, <2>1, TypedSnapshot, SMTT(60) DEF Good, Snapshot, Init
<1> QED BY <1>2, <1>6 DEF Init, IInv

LEMMA LockNativeInv ==
    ASSUME IInv,
           NEW caller \in Accounts, NEW h \in Hashlocks, NEW r \in Addresses,
           NEW n \in Amounts, NEW timeout \in Times, NEW open,
           LockNative(caller, h, r, n, timeout, open)
    PROVE  IInv'
<1> DEFINE rec == [initiator |-> caller, recipient |-> r, token |-> Native,
                   amount |-> n, timeout |-> timeout, status |-> "Open",
                   preimage |-> NoPreimage]
<1>1. calls = <<>> /\ Good(Snapshot) /\ RecordsOk(swaps)
  BY Idle DEF LockNative, LockOk
<1>2. rec \in NewRecords /\ rec \in Swap /\ n \in 1 .. AmountCap
  BY BoundsAssumption DEF LockNative, LockOk, AmountOk, RecipientOk, NewRecords, Swap, Amounts,
         Addresses, Assets, Statuses
<1>3. swaps' = [swaps EXCEPT ![h] = rec] /\ swaps[h].status = "None"
  BY DEF LockNative, Locked, LockOk, Unused
<1>4. TypeOK'
  <2> HIDE DEF rec
  <2>1. swaps' \in [Hashlocks -> Swap]
    BY <1>2, <1>3 DEF IInv, TypeOK
  <2>2. balance' \in [Assets -> Int]
    BY <1>2, BoundsAssumption DEF IInv, TypeOK, LockNative, Bump, Assets
  <2> QED BY <2>1, <2>2 DEF IInv, TypeOK, LockNative
<1>5. ASSUME NEW t \in Assets, NEW a \in Addresses
      PROVE  /\ Total(OpenAmount(swaps', t)) =
                    Total(OpenAmount(swaps, t)) + (IF t = Native THEN n ELSE 0)
             /\ GivenBy(swaps', t, a) = GivenBy(swaps, t, a)
  <2> HIDE DEF rec
  <2>0. LockWrite(swaps, swaps', h, rec)
    BY <1>1, <1>2, <1>3 DEF LockWrite
  <2>1. /\ Total(OpenAmount(swaps', t)) =
                Total(OpenAmount(swaps, t)) + (IF rec.token = t THEN rec.amount ELSE 0)
        /\ GivenBy(swaps', t, a) = GivenBy(swaps, t, a)
    BY <2>0, LockSums
  <2> QED BY <2>1 DEF rec
<1>6. \A g \in Hashlocks : RecordOk(swaps'[g])
  BY <1>1, <1>2, <1>3 DEF RecordsOk, RecordOk, NewRecords
<1>7. ASSUME NEW t \in Assets
      PROVE  Total(OpenAmount(swaps, t)) \in Int
  BY <1>1, AmountsInRange, TotalOverSwaps
<1>8. Good(Snapshot)'
  <2>1. ASSUME NEW t \in Assets
        PROVE  balance'[t] >= Total(OpenAmount(swaps', t)) + outstanding'[t]
    BY <1>1, <1>2, <1>5, <1>7 DEF Good, Snapshot, SnapshotType, LockNative, Bump
  <2>2. Snapshot' \in SnapshotType
    BY <1>4 DEF TypeOK, Snapshot, SnapshotType
  <2> QED BY <1>1, <2>2, <1>5, <1>6, <2>1 DEF Good, Snapshot, LockNative
<1> QED BY <1>1, <1>4, <1>8 DEF IInv, LockNative

LEMMA AssignInv ==
    ASSUME IInv, NEW caller \in Accounts, NEW h \in Hashlocks,
           NEW r \in Addresses, Assign(caller, h, r)
    PROVE  IInv'
<1>1. calls = <<>> /\ Good(Snapshot) /\ RecordsOk(swaps)
  BY Idle DEF Assign
<1>2. AssignWrite(swaps, swaps', h, r)
  BY <1>1 DEF AssignWrite, Assign, IsOpen, Addresses
<1>3. /\ RecordsOk(swaps')
      /\ \A t \in Assets : \A a \in Addresses :
            /\ OpenAmount(swaps', t) = OpenAmount(swaps, t)
            /\ GivenBy(swaps', t, a) = GivenBy(swaps, t, a)
  BY <1>2, AssignSums
<1>4. TypeOK'
  BY <1>3 DEF IInv, TypeOK, Assign, RecordsOk
<1>5. Snapshot' \in SnapshotType
  BY <1>4 DEF TypeOK, Snapshot, SnapshotType
<1>6. \A t \in Assets : OpenAmount(swaps', t) = OpenAmount(swaps, t)
  BY <1>3 DEF Addresses
<1>7. Good(Snapshot)'
  <2>1. /\ credits' = credits /\ outstanding' = outstanding /\ balance' = balance
        /\ paidFor' = paidFor /\ entered' = 1
    BY <1>1 DEF Assign, Good, Snapshot
  <2>2. \A t \in Assets :
        /\ outstanding[t] = Total(credits[t])
        /\ balance[t] >= Total(OpenAmount(swaps', t)) + outstanding[t]
        /\ credits[t][Zero] = 0 /\ credits[t][This] = 0
        /\ \A a \in Addresses :
            paidFor[t][a] + credits[t][a] = Total(GivenBy(swaps', t, a))
    BY <1>1, <1>3, <1>6 DEF Good, Snapshot
  <2> QED BY <1>3, <1>5, <2>1, <2>2 DEF Good, Snapshot, RecordsOk
<1> QED BY <1>1, <1>4, <1>7 DEF IInv, Assign

\* Calling out from between transactions leaves exactly one frame.
LEMMA PushFrame ==
    ASSUME NEW f \in FrameType, calls = <<>>, Push(f)
    PROVE  calls' = <<f>> /\ calls' \in Seq(FrameType)
BY DEF Push

LEMMA LockTokenInv ==
    ASSUME IInv,
           NEW caller \in Accounts, NEW h \in Hashlocks, NEW r \in Addresses,
           NEW t \in Tokens, NEW n \in Amounts, NEW timeout \in Times,
           NEW open, LockToken(caller, h, r, t, n, timeout, open)
    PROVE  IInv'
<1> DEFINE rec == [initiator |-> caller, recipient |-> r, token |-> t,
                   amount |-> n, timeout |-> timeout, status |-> "Open",
                   preimage |-> NoPreimage]
           f == Frame("pull", t, caller, n, Snapshot)
<1>1. calls = <<>> /\ Good(Snapshot) /\ RecordsOk(swaps)
  BY Idle DEF LockToken, LockOk
<1>2. rec \in NewRecords /\ n \in 1 .. AmountCap /\ rec.timeout > now
  BY BoundsAssumption DEF LockToken, LockOk, AmountOk, RecipientOk, NewRecords,
         Amounts, Addresses, Assets
<1>3. LockWrite(swaps, swaps', h, rec)
  BY <1>1, <1>2 DEF LockToken, Locked, LockOk, Unused, LockWrite
<1>4. RecordsOk(swaps')
  BY <1>3, LockSums
<1>5. f \in FrameType
  <2>1. Snapshot \in SnapshotType
    BY <1>1 DEF Good
  <2>2. balance[t] \in Int /\ t \in Assets /\ caller \in Addresses /\ n \in Nat
    BY <1>2, BoundsAssumption DEF IInv, TypeOK, Assets, Addresses
  <2> QED BY <2>1, <2>2 DEF FrameType, Frame
<1>6. calls' = <<f>> /\ calls' \in Seq(FrameType)
  BY <1>1, <1>5, PushFrame DEF LockToken
<1>7. TypeOK'
  BY <1>4, <1>6 DEF IInv, TypeOK, LockToken, RecordsOk
<1>8. PICK g \in FrameType : g = f
  BY <1>5
<1>9. /\ g.saved = Snapshot /\ g.token = t /\ g.amount = n /\ g.kind = "pull"
      /\ g.before = balance[t] /\ calls' = <<g>>
  BY <1>6, <1>8 DEF Frame
<1> HIDE DEF f
<1>10. PullFrame(g)'
  <2>1. swaps' = [g.saved.swaps EXCEPT ![h] = rec] /\ g.saved.swaps[h].status = "None"
    <3> HIDE DEF rec
    <3> QED BY <1>3, <1>9 DEF LockWrite, Snapshot
  <2>2. rec.token = t /\ rec.amount = n
    OBVIOUS
  <2>3. credits' = g.saved.credits /\ outstanding' = g.saved.outstanding /\ now' = now
    BY <1>9 DEF Snapshot, LockToken
  <2> HIDE DEF rec
  <2> QED BY <1>2, <1>9, <2>1, <2>2, <2>3 DEF PullFrame
<1>11. InCall(g)'
  <2>1. paidFor' = g.saved.paidFor /\ balance' = g.saved.balance /\ entered' = 2
    BY <1>9 DEF Snapshot, LockToken
  <2>2. \A u \in Assets : balance'[u] \in Int
    BY <1>7 DEF TypeOK
  <2>3. g.before = g.saved.balance[g.token]
    BY <1>9 DEF Snapshot
  <2>4. Good(g.saved)
    BY <1>1, <1>9
  <2> QED BY <1>9, <1>10, <2>1, <2>2, <2>3, <2>4 DEF InCall
<1> QED BY <1>7, <1>11 DEF IInv

LEMMA PullReturnsInv ==
    ASSUME IInv, NEW after \in Int, PullReturns(after)
    PROVE  IInv'
<1> DEFINE f == Top
           S == f.saved
<1>1. f \in FrameType /\ InCall(f) /\ Tail(calls) = <<>>
  BY Busy DEF PullReturns
<1>2. PullFrame(f) /\ f.kind = "pull" /\ Good(S) /\ paidFor = S.paidFor
  BY <1>1 DEF InCall, PullReturns
<1>3. PICK h \in Hashlocks, r \in NewRecords :
        /\ S.swaps[h].status = "None"
        /\ f.token = r.token
        /\ f.amount = r.amount
        /\ swaps = [S.swaps EXCEPT ![h] = r]
  BY <1>2 DEF PullFrame
<1>4. LockWrite(S.swaps, swaps, h, r)
  BY <1>2, <1>3 DEF LockWrite, RecordsOk, Good, SnapshotType
<1>5. /\ RecordsOk(swaps)
      /\ \A t \in Assets : \A a \in Addresses :
            /\ Total(OpenAmount(swaps, t)) =
                Total(OpenAmount(S.swaps, t)) + (IF r.token = t THEN r.amount ELSE 0)
            /\ GivenBy(swaps, t, a) = GivenBy(S.swaps, t, a)
  BY <1>4, LockSums
<1>6. /\ f.token \in Assets
      /\ after = f.before + f.amount
      /\ f.before = S.balance[f.token]
      /\ f.before \in Int
      /\ f.amount \in Nat
  BY <1>1 DEF PullReturns, PulledExactly, FrameType, InCall
<1>7. /\ swaps' = swaps /\ credits' = S.credits /\ outstanding' = S.outstanding
      /\ paidFor' = S.paidFor /\ entered' = 1 /\ calls' = <<>>
      /\ balance' = [balance EXCEPT ![f.token] = after] /\ now' = now
  BY <1>1, <1>2 DEF PullReturns, PullFrame, Pop
<1>8. TypeOK'
  <2>1. balance' \in [Assets -> Int]
    BY <1>7 DEF IInv, TypeOK
  <2>2. calls' \in Seq(FrameType)
    BY <1>7
  <2>3. credits' = credits /\ outstanding' = outstanding /\ paidFor' = paidFor
    BY <1>7, <1>2 DEF PullFrame
  <2> QED BY <1>7, <2>1, <2>2, <2>3 DEF IInv, TypeOK
<1>9. Good(Snapshot)'
  <2>1. Snapshot' \in SnapshotType
    BY <1>8 DEF TypeOK, Snapshot, SnapshotType
  <2>2. ASSUME NEW t \in Assets
        PROVE  balance'[t] >= Total(OpenAmount(swaps', t)) + outstanding'[t]
    <3>1. Total(OpenAmount(swaps, t)) =
            Total(OpenAmount(S.swaps, t)) + (IF r.token = t THEN r.amount ELSE 0)
      BY <1>5 DEF Addresses
    <3>2. S.balance[t] >= Total(OpenAmount(S.swaps, t)) + S.outstanding[t]
      BY <1>2 DEF Good
    <3>3. balance'[t] = IF t = f.token THEN after ELSE balance[t]
      BY <1>7 DEF IInv, TypeOK
    <3>4. balance[t] >= S.balance[t] /\ balance[t] \in Int
      BY <1>1 DEF InCall, IInv, TypeOK
    <3>5. /\ Total(OpenAmount(S.swaps, t)) \in Int
          /\ S.outstanding[t] \in Int
          /\ S.balance[t] \in Int
      BY <1>2, <1>4, AmountsInRange, TotalOverSwaps DEF LockWrite, Good, SnapshotType
    <3>6. r.amount \in Nat /\ Total(OpenAmount(swaps', t)) = Total(OpenAmount(swaps, t))
          /\ outstanding'[t] = S.outstanding[t]
      BY <1>3, <1>6, <1>7
    <3> HIDE DEF f, S
    <3>7. CASE t = f.token
      BY <1>3, <1>6, <3>1, <3>2, <3>3, <3>5, <3>6, <3>7
    <3>8. CASE t # f.token
      BY <1>3, <3>1, <3>2, <3>3, <3>4, <3>5, <3>6, <3>8
    <3> QED BY <3>7, <3>8
  <2>3. \A t \in Assets :
          /\ S.outstanding[t] = Total(S.credits[t])
          /\ S.credits[t][Zero] = 0 /\ S.credits[t][This] = 0
          /\ \A a \in Addresses :
                S.paidFor[t][a] + S.credits[t][a] = Total(GivenBy(S.swaps, t, a))
    BY <1>2 DEF Good
  <2> HIDE DEF f, S
  <2> QED BY <1>5, <1>7, <2>1, <2>2, <2>3 DEF Good, Snapshot, RecordsOk
<1> QED BY <1>7, <1>8, <1>9 DEF IInv

LEMMA SettleInv ==
    ASSUME IInv, NotEntered, NEW h \in Hashlocks, NEW st \in Terminal,
           NEW p \in Preimages \cup {NoPreimage}, IsOpen(swaps[h]),
           MaySettle(swaps[h], h, st, p, now), Settle(h, st, p)
    PROVE  IInv'
<1> DEFINE settled == [swaps EXCEPT ![h].status = st, ![h].preimage = p]
           c == [Snapshot EXCEPT !.swaps = settled, !.entered = 2]
           s == swaps[h]
           f == Frame("deliver", s.token, Payee(s, st), s.amount, c)
<1>1. calls = <<>> /\ Good(Snapshot) /\ RecordsOk(swaps)
  BY Idle
<1>2. SettleWrite(swaps, swaps', h, st, p) /\ swaps' = settled
  BY <1>1 DEF SettleWrite, Settle, IsOpen
<1>3. RecordsOk(swaps')
  BY <1>2, SettleSums
<1>4. f \in FrameType
  <2>1. Snapshot \in SnapshotType
    BY <1>1 DEF Good
  <2>2. c \in SnapshotType
    BY <2>1, <1>2, <1>3 DEF SnapshotType, RecordsOk
  <2>3. s.token \in Assets /\ Payee(s, st) \in Addresses /\ s.amount \in Nat
    BY DEF IInv, TypeOK, Swap, Payee
  <2>4. balance[s.token] \in Int
    BY <2>3 DEF IInv, TypeOK
  <2> HIDE DEF c, s
  <2> QED BY <2>1, <2>2, <2>3, <2>4 DEF FrameType, Frame
<1>5. PICK g \in FrameType : g = f
  BY <1>4
<1>6. calls' = <<g>> /\ calls' \in Seq(FrameType)
  <2>1. Push(f)
    BY DEF Settle
  <2> HIDE DEF f
  <2> QED BY <1>1, <1>4, <1>5, <2>1, PushFrame
<1>7. /\ g.saved = Snapshot /\ g.token = s.token /\ g.amount = s.amount
      /\ g.kind = "deliver" /\ g.before = balance[s.token] /\ g.child = c
      /\ g.party = Payee(s, st)
  BY <1>5 DEF Frame
<1>8. TypeOK'
  BY <1>3, <1>6 DEF IInv, TypeOK, Settle, RecordsOk
<1> HIDE DEF f
<1>9. DeliverFrame(g)'
  <2>1. g.saved.swaps = swaps /\ g.saved.credits = credits
        /\ g.saved.outstanding = outstanding
    BY <1>7 DEF Snapshot
  <2>2. g.child = [g.saved EXCEPT !.swaps = swaps', !.entered = 2]
    BY <1>2, <1>7
  <2>3. credits' = credits /\ outstanding' = outstanding /\ now' = now
    BY DEF Settle
  <2>4. \E k \in Hashlocks, status \in Terminal, q \in Preimages \cup {NoPreimage} :
          LET x == g.saved.swaps[k] IN
            /\ x.status = "Open"
            /\ MaySettle(x, k, status, q, now')
            /\ g.token = x.token
            /\ g.amount = x.amount
            /\ g.party = Payee(x, status)
            /\ swaps' = [g.saved.swaps EXCEPT ![k].status = status, ![k].preimage = q]
    <3>1. WITNESS h \in Hashlocks, st \in Terminal, p \in Preimages \cup {NoPreimage}
    <3>2. MaySettle(g.saved.swaps[h], h, st, p, now')
      BY <2>1, <2>3
    <3> QED BY <1>2, <1>7, <2>1, <3>2 DEF IsOpen
  <2> HIDE DEF c, s, settled
  <2> QED BY <2>1, <2>2, <2>3, <2>4 DEF DeliverFrame
<1>10. InCall(g)'
  <2>1. paidFor' = g.saved.paidFor /\ balance' = g.saved.balance /\ entered' = 2
    BY <1>7 DEF Snapshot, Settle
  <2>2. \A u \in Assets : balance'[u] \in Int
    BY <1>8 DEF TypeOK
  <2>3. g.before = g.saved.balance[g.token]
    BY <1>7 DEF Snapshot
  <2>4. Good(g.saved)
    BY <1>1, <1>7
  <2> HIDE DEF c, s, settled
  <2> QED BY <1>6, <1>7, <1>9, <2>1, <2>2, <2>3, <2>4 DEF InCall
<1> QED BY <1>8, <1>10 DEF IInv

LEMMA TakeCreditInv ==
    ASSUME IInv, NotEntered, NEW t \in Assets, NEW a \in Addresses, NEW n \in Nat,
           n # 0, n <= credits[t][a], TakeCredit(a, t, n)
    PROVE  IInv'
<1> DEFINE f == Frame("strict", t, a, n, Snapshot)
<1>1. calls = <<>> /\ Good(Snapshot) /\ RecordsOk(swaps)
  BY Idle
<1>2. Snapshot \in SnapshotType /\ balance[t] \in Int
  BY <1>1 DEF Good, IInv, TypeOK
<1>3. f \in FrameType
  BY <1>2 DEF FrameType, Frame
<1>4. PICK g \in FrameType : g = f
  BY <1>3
<1>5. calls' = <<g>> /\ calls' \in Seq(FrameType)
  <2>1. Push(f)
    BY DEF TakeCredit
  <2> HIDE DEF f
  <2> QED BY <1>1, <1>3, <1>4, <2>1, PushFrame
<1>6. /\ g.saved = Snapshot /\ g.token = t /\ g.amount = n /\ g.party = a
      /\ g.kind = "strict" /\ g.before = balance[t]
  BY <1>4 DEF Frame
<1> HIDE DEF f
<1>7. TypeOK'
  <2>1. credits \in [Assets -> [Addresses -> 0 .. WordMax]]
        /\ outstanding \in [Assets -> Int]
    BY DEF IInv, TypeOK
  <2>2. credits[t][a] + (0 - n) \in 0 .. WordMax /\ 0 - n \in Int
    BY <2>1, BoundsAssumption
  <2>3. credits' \in [Assets -> [Addresses -> 0 .. WordMax]]
    <3>1. CreditMove(credits, credits', t, a, 0 - n)
      BY <2>1, <2>2 DEF CreditMove, TakeCredit
    <3> QED BY <3>1, CreditSum
  <2>4. outstanding' \in [Assets -> Int]
    BY <2>1, <2>2 DEF TakeCredit, Bump
  <2> QED BY <1>5, <2>3, <2>4 DEF IInv, TypeOK, TakeCredit
<1>8. InCall(g)'
  <2>1. /\ paidFor' = g.saved.paidFor /\ balance' = g.saved.balance /\ entered' = 2
        /\ swaps' = g.saved.swaps
        /\ credits' = Bump2(g.saved.credits, t, a, 0 - n)
        /\ outstanding' = Bump(g.saved.outstanding, t, 0 - n)
        /\ n <= g.saved.credits[t][a]
    BY <1>6 DEF Snapshot, TakeCredit
  <2>2. \A u \in Assets : balance'[u] \in Int
    BY <1>7 DEF TypeOK
  <2>3. g.before = g.saved.balance[g.token]
    BY <1>6 DEF Snapshot
  <2>4. Good(g.saved)
    BY <1>1, <1>6
  <2>5. StrictFrame(g)'
    BY <1>6, <2>1 DEF StrictFrame
  <2> QED BY <1>5, <1>6, <2>1, <2>2, <2>3, <2>4, <2>5 DEF InCall
<1> QED BY <1>7, <1>8 DEF IInv

\* A revert puts back storage that was good.
LEMMA RevertsInv ==
    ASSUME IInv, Reverts
    PROVE  IInv'
<1>1. Top \in FrameType /\ InCall(Top) /\ Tail(calls) = <<>>
  BY Busy DEF Reverts
<1>2. PICK S \in SnapshotType : S = Top.saved
  BY <1>1 DEF FrameType
<1>3. Good(S)
  BY <1>1, <1>2 DEF InCall
<1>4. /\ swaps' = S.swaps /\ credits' = S.credits /\ outstanding' = S.outstanding
      /\ entered' = S.entered /\ balance' = S.balance /\ paidFor' = S.paidFor
      /\ calls' = <<>> /\ now' = now
  BY <1>1, <1>2 DEF Reverts, Restore, Pop
<1>5. Snapshot' = S
  BY <1>4 DEF Snapshot, SnapshotType
<1>6. TypeOK'
  <2>1. <<>> \in Seq(FrameType)
    OBVIOUS
  <2> QED BY <1>2, <1>4, <2>1 DEF IInv, TypeOK, SnapshotType
<1>7. Good(Snapshot')
  BY <1>3, <1>5
<1>8. Good(Snapshot)'
  BY <1>7 DEF Good
<1> QED BY <1>4, <1>6, <1>8 DEF IInv

LEMMA TickInv ==
    ASSUME IInv, Tick
    PROVE  IInv'
<1>1. calls = <<>> /\ Good(Snapshot)
  BY DEF IInv, Tick, InCall
<1>2. TypeOK'
  BY BoundsAssumption DEF IInv, TypeOK, Tick, contractVars, Times
<1>3. Good(Snapshot)'
  BY <1>1 DEF Good, Snapshot, Tick, contractVars
<1> QED BY <1>1, <1>2, <1>3 DEF IInv, Tick

\* Unasked-for value never hurts, between transactions or inside one.
LEMMA DonateInv ==
    ASSUME IInv, NEW t \in Assets, Donate(t)
    PROVE  IInv'
<1>1. TypeOK' /\ \A u \in Assets : balance'[u] >= balance[u] /\ balance[u] \in Int
                                   /\ balance'[u] \in Int
  BY DEF IInv, TypeOK, Donate, Bump
<1>2. ASSUME calls = <<>>, Good(Snapshot)
      PROVE  IInv'
  <2>1. Snapshot' \in SnapshotType
    BY <1>1 DEF TypeOK, Snapshot, SnapshotType
  <2>2. RecordsOk(swaps)
    BY <1>2 DEF Good, RecordsOk, Snapshot, SnapshotType
  <2>3. ASSUME NEW u \in Assets
        PROVE  balance'[u] >= Total(OpenAmount(swaps, u)) + outstanding[u]
    <3>1. Total(OpenAmount(swaps, u)) \in Int /\ outstanding[u] \in Int
      BY <2>2, TotalsInt DEF IInv, TypeOK
    <3>2. balance[u] >= Total(OpenAmount(swaps, u)) + outstanding[u]
      BY <1>2 DEF Good, Snapshot
    <3> QED BY <1>1, <3>1, <3>2
  <2>4. Good(Snapshot)'
    BY <1>2, <2>1, <2>3 DEF Good, Snapshot, Donate
  <2> QED BY <1>1, <1>2, <2>4 DEF IInv, Donate
<1>3. ASSUME NEW f \in FrameType, InCall(f)
      PROVE  IInv'
  <2>1. \A u \in Assets : balance'[u] >= f.saved.balance[u]
    <3>1. \A u \in Assets : f.saved.balance[u] \in Int /\ balance[u] >= f.saved.balance[u]
      BY <1>3 DEF InCall, FrameType, SnapshotType
    <3> QED BY <1>1, <3>1
  <2>2. PullFrame(f) => PullFrame(f)'
    BY DEF PullFrame, Donate
  <2>3. DeliverFrame(f) => DeliverFrame(f)'
    BY SMTT(60) DEF DeliverFrame, Donate
  <2>4. StrictFrame(f) => StrictFrame(f)'
    BY DEF StrictFrame, Donate
  <2>5. InCall(f)'
    BY <1>3, <2>1, <2>2, <2>3, <2>4 DEF InCall, Donate
  <2> QED BY <1>1, <1>3, <2>5 DEF IInv
<1> QED BY <1>2, <1>3 DEF IInv

\* The effect of a payout that went through, on the paying frame's asset.
LEMMA PaidEffect ==
    ASSUME IInv, calls # <<>>, NEW after \in Int, Paid(Top, after)
    PROVE  /\ Top \in FrameType
           /\ InCall(Top)
           /\ calls' = <<>>
           /\ swaps' = swaps /\ credits' = credits /\ outstanding' = outstanding
           /\ entered' = 1 /\ now' = now
           /\ balance' \in [Assets -> Int]
           /\ paidFor' = Bump2(Top.saved.paidFor, Top.token, Top.party, Top.amount)
           /\ \A u \in Assets : balance'[u] >=
                    Top.saved.balance[u] - (IF u = Top.token THEN Top.amount ELSE 0)
<1>1. Top \in FrameType /\ InCall(Top) /\ Tail(calls) = <<>>
  BY Busy
<1>2. PICK f \in FrameType : f = Top
  BY <1>1
<1>3. /\ f.token \in Assets /\ f.amount \in Nat /\ f.before \in Int
      /\ f.before = f.saved.balance[f.token] /\ paidFor = f.saved.paidFor
      /\ \A u \in Assets : balance[u] >= f.saved.balance[u]
                            /\ balance[u] \in Int /\ f.saved.balance[u] \in Int
  BY <1>1, <1>2 DEF InCall, FrameType, SnapshotType, IInv, TypeOK
<1>4. /\ calls' = <<>>
      /\ swaps' = swaps /\ credits' = credits /\ outstanding' = outstanding
      /\ entered' = 1 /\ now' = now
      /\ balance' = [balance EXCEPT ![f.token] = after]
      /\ IF f.token = Native THEN after = balance[Native] - f.amount
                              ELSE f.before - after = f.amount
      /\ paidFor' = Bump2(paidFor, f.token, f.party,
                          IF f.token = Native THEN f.amount ELSE f.before - after)
  BY <1>1, <1>2 DEF Paid, LeftExactly, Pop
<1>5. balance' \in [Assets -> Int]
  BY <1>4 DEF IInv, TypeOK
<1>6. paidFor' = Bump2(f.saved.paidFor, f.token, f.party, f.amount)
  BY <1>3, <1>4
<1>7. ASSUME NEW u \in Assets
      PROVE  balance'[u] >= f.saved.balance[u] - (IF u = f.token THEN f.amount ELSE 0)
  <2>1. balance'[u] = IF u = f.token THEN after ELSE balance[u]
    BY <1>4 DEF IInv, TypeOK
  <2>2. CASE u = f.token /\ f.token = Native
    BY <1>3, <1>4, <2>1, <2>2
  <2>3. CASE u = f.token /\ f.token # Native
    BY <1>3, <1>4, <2>1, <2>3
  <2>4. CASE u # f.token
    BY <1>3, <2>1, <2>4
  <2> QED BY <2>2, <2>3, <2>4
<1> QED BY <1>1, <1>2, <1>4, <1>5, <1>6, <1>7

\* A delivered settlement commits the terminal record together with the
\* payment to its payee.
LEMMA DeliverReturnsInv ==
    ASSUME IInv, NEW after \in Int, DeliverReturns(after)
    PROVE  IInv'
<1>1. PICK f \in FrameType : f = Top
  BY Busy DEF DeliverReturns
<1> DEFINE S == f.saved
<1>2. /\ InCall(f) /\ calls' = <<>>
      /\ swaps' = swaps /\ credits' = credits /\ outstanding' = outstanding
      /\ entered' = 1 /\ now' = now
      /\ balance' \in [Assets -> Int]
      /\ paidFor' = Bump2(S.paidFor, f.token, f.party, f.amount)
      /\ \A u \in Assets : balance'[u] >=
                    S.balance[u] - (IF u = f.token THEN f.amount ELSE 0)
  BY <1>1, PaidEffect DEF DeliverReturns
<1>3. DeliverFrame(f) /\ Good(S) /\ credits = S.credits /\ outstanding = S.outstanding
  BY <1>1, <1>2 DEF InCall, DeliverReturns, DeliverFrame
<1>4. PICK h \in Hashlocks, st \in Terminal, p \in Preimages \cup {NoPreimage} :
        /\ S.swaps[h].status = "Open"
        /\ f.token = S.swaps[h].token
        /\ f.amount = S.swaps[h].amount
        /\ f.party = Payee(S.swaps[h], st)
        /\ swaps = [S.swaps EXCEPT ![h].status = st, ![h].preimage = p]
  BY <1>3, SMTT(60) DEF DeliverFrame
<1>5. RecordsOk(S.swaps) /\ SettleWrite(S.swaps, swaps, h, st, p)
  BY <1>3, <1>4 DEF SettleWrite, RecordsOk, Good, SnapshotType
<1> HIDE DEF S
<1>6. /\ RecordsOk(swaps)
      /\ \A t \in Assets : \A a \in Addresses :
            /\ Total(OpenAmount(swaps, t)) = Total(OpenAmount(S.swaps, t)) -
                    (IF f.token = t THEN f.amount ELSE 0)
            /\ Total(GivenBy(swaps, t, a)) = Total(GivenBy(S.swaps, t, a)) +
                    (IF f.token = t /\ f.party = a THEN f.amount ELSE 0)
  BY <1>4, <1>5, SettleSums
<1>7. f.token \in Assets /\ f.party \in Addresses /\ f.amount \in Nat
      /\ S.paidFor \in [Assets -> [Addresses -> Int]]
      /\ S.credits \in [Assets -> [Addresses -> Int]]
      /\ S.outstanding \in [Assets -> Int]
      /\ S.balance \in [Assets -> Int]
  BY BoundsAssumption DEF S, FrameType, SnapshotType
<1>8. /\ paidFor' \in [Assets -> [Addresses -> Int]]
      /\ \A t \in Assets, a \in Addresses : paidFor'[t][a] =
            S.paidFor[t][a] + (IF f.token = t /\ f.party = a THEN f.amount ELSE 0)
  <2>1. LedgerMove(S.paidFor, paidFor', f.token, f.party, f.amount)
    BY <1>2, <1>7 DEF LedgerMove, S
  <2> QED BY <2>1, LedgerSum
<1>9. TypeOK'
  <2>1. <<>> \in Seq(FrameType)
    OBVIOUS
  <2> QED BY <1>2, <1>8, <2>1 DEF IInv, TypeOK
<1>10. ASSUME NEW t \in Assets
       PROVE  balance'[t] >= Total(OpenAmount(swaps', t)) + outstanding'[t]
  <2>1. Total(OpenAmount(swaps, t)) = Total(OpenAmount(S.swaps, t)) -
                    (IF f.token = t THEN f.amount ELSE 0)
    BY <1>6 DEF Addresses
  <2>2. S.balance[t] >= Total(OpenAmount(S.swaps, t)) + S.outstanding[t]
    BY <1>3 DEF Good
  <2>3. balance'[t] >= S.balance[t] - (IF t = f.token THEN f.amount ELSE 0)
    BY <1>2
  <2>4. Total(OpenAmount(S.swaps, t)) \in Int
    BY <1>5, TotalsInt
  <2>5. balance'[t] \in Int /\ S.balance[t] \in Int /\ S.outstanding[t] \in Int
    BY <1>2, <1>7
  <2> QED BY <1>2, <1>3, <1>7, <2>1, <2>2, <2>3, <2>4, <2>5
<1>11. ASSUME NEW t \in Assets, NEW a \in Addresses
       PROVE  paidFor'[t][a] + credits'[t][a] = Total(GivenBy(swaps', t, a))
  <2>1. Total(GivenBy(swaps, t, a)) = Total(GivenBy(S.swaps, t, a)) +
                    (IF f.token = t /\ f.party = a THEN f.amount ELSE 0)
    BY <1>6
  <2>2. S.paidFor[t][a] + S.credits[t][a] = Total(GivenBy(S.swaps, t, a))
    BY <1>3 DEF Good
  <2>3. paidFor'[t][a] =
            S.paidFor[t][a] + (IF f.token = t /\ f.party = a THEN f.amount ELSE 0)
    BY <1>8
  <2>4. S.paidFor[t][a] \in Int /\ S.credits[t][a] \in Int
    BY <1>7
  <2> QED BY <1>2, <1>3, <1>7, <2>1, <2>2, <2>3, <2>4
<1>12. Good(Snapshot)'
  <2>1. Snapshot' \in SnapshotType
    BY <1>9 DEF TypeOK, Snapshot, SnapshotType
  <2>2. \A t \in Assets :
          /\ outstanding'[t] = Total(credits'[t])
          /\ credits'[t][Zero] = 0 /\ credits'[t][This] = 0
    BY <1>2, <1>3 DEF Good
  <2> QED BY <1>2, <1>6, <1>10, <1>11, <2>1, <2>2 DEF Good, Snapshot, RecordsOk
<1> QED BY <1>2, <1>9, <1>12 DEF IInv

LEMMA StrictReturnsInv ==
    ASSUME IInv, NEW after \in Int, StrictReturns(after)
    PROVE  IInv'
<1>1. PICK f \in FrameType : f = Top
  BY Busy DEF StrictReturns
<1> DEFINE S == f.saved
<1>2. /\ InCall(f) /\ calls' = <<>>
      /\ swaps' = swaps /\ credits' = credits /\ outstanding' = outstanding
      /\ entered' = 1 /\ now' = now
      /\ balance' \in [Assets -> Int]
      /\ paidFor' = Bump2(S.paidFor, f.token, f.party, f.amount)
      /\ \A u \in Assets : balance'[u] >=
                    S.balance[u] - (IF u = f.token THEN f.amount ELSE 0)
  BY <1>1, PaidEffect DEF StrictReturns
<1>3. StrictFrame(f) /\ Good(S) /\ swaps = S.swaps
  BY <1>1, <1>2 DEF InCall, StrictReturns, StrictFrame
<1>4. f.token \in Assets /\ f.party \in Addresses /\ f.amount \in Nat
      /\ S.paidFor \in [Assets -> [Addresses -> Int]]
      /\ S.credits \in [Assets -> [Addresses -> 0 .. WordMax]]
      /\ S.outstanding \in [Assets -> Int]
      /\ S.balance \in [Assets -> Int]
  BY DEF FrameType, SnapshotType
<1>5. RecordsOk(swaps)
  BY <1>3 DEF Good, RecordsOk, SnapshotType
<1> HIDE DEF S
<1>6. S.credits[f.token][f.party] + (0 - f.amount) \in 0 .. WordMax /\ 0 - f.amount \in Int
  BY <1>3, <1>4, BoundsAssumption DEF StrictFrame, S
<1>7. /\ credits = Bump2(S.credits, f.token, f.party, 0 - f.amount)
      /\ outstanding = Bump(S.outstanding, f.token, 0 - f.amount)
  BY <1>3 DEF StrictFrame, S
<1>8. \A t \in Assets :
        /\ Total(credits[t]) = Total(S.credits[t]) +
              (IF f.token = t THEN 0 - f.amount ELSE 0)
        /\ \A a \in Addresses : credits[t][a] = S.credits[t][a] +
              (IF f.token = t /\ f.party = a THEN 0 - f.amount ELSE 0)
  <2>1. CreditMove(S.credits, credits, f.token, f.party, 0 - f.amount)
    BY <1>4, <1>6, <1>7 DEF CreditMove
  <2> QED BY <2>1, CreditSum
<1>9. ASSUME NEW t \in Assets
      PROVE  outstanding[t] = S.outstanding[t] + (IF t = f.token THEN 0 - f.amount ELSE 0)
  BY <1>4, <1>7 DEF Bump
<1>10. /\ paidFor' \in [Assets -> [Addresses -> Int]]
       /\ \A t \in Assets, a \in Addresses : paidFor'[t][a] =
            S.paidFor[t][a] + (IF f.token = t /\ f.party = a THEN f.amount ELSE 0)
  <2>1. LedgerMove(S.paidFor, paidFor', f.token, f.party, f.amount)
    BY <1>2, <1>4 DEF LedgerMove, S
  <2> QED BY <2>1, LedgerSum
<1>11. TypeOK'
  <2>1. <<>> \in Seq(FrameType)
    OBVIOUS
  <2> QED BY <1>2, <1>10, <2>1 DEF IInv, TypeOK
<1>12. ASSUME NEW t \in Assets
       PROVE  /\ balance'[t] >= Total(OpenAmount(swaps', t)) + outstanding'[t]
              /\ outstanding'[t] = Total(credits'[t])
              /\ credits'[t][Zero] = 0
              /\ credits'[t][This] = 0
  <2>1. /\ S.balance[t] >= Total(OpenAmount(S.swaps, t)) + S.outstanding[t]
        /\ S.outstanding[t] = Total(S.credits[t])
        /\ S.credits[t][Zero] = 0
        /\ S.credits[t][This] = 0
    BY <1>3 DEF Good
  <2>2. balance'[t] >= S.balance[t] - (IF t = f.token THEN f.amount ELSE 0)
    BY <1>2
  <2>3. Total(OpenAmount(swaps, t)) \in Int
    BY <1>5, TotalsInt
  <2>4. balance'[t] \in Int /\ S.balance[t] \in Int /\ S.outstanding[t] \in Int
    BY <1>2, <1>4
  <2>5. balance'[t] >= Total(OpenAmount(swaps', t)) + outstanding'[t]
    BY <1>2, <1>3, <1>4, <1>9, <2>1, <2>2, <2>3, <2>4
  <2>6. outstanding'[t] = Total(credits'[t])
    <3>1. Total(credits[t]) = Total(S.credits[t]) + (IF f.token = t THEN 0 - f.amount ELSE 0)
      BY <1>8
    <3> QED BY <1>2, <1>9, <2>1, <3>1
  <2>7. credits[t] \in [Addresses -> 0 .. WordMax] /\ Zero \in Addresses /\ This \in Addresses
    BY DEF IInv, TypeOK, Addresses
  <2>8. credits'[t][Zero] = 0 /\ credits'[t][This] = 0
    <3>1. ASSUME NEW a \in Addresses, S.credits[t][a] = 0 PROVE credits[t][a] = 0
      <4>1. credits[t][a] = 0 + (IF f.token = t /\ f.party = a THEN 0 - f.amount ELSE 0)
        BY <1>8, <3>1
      <4>2. credits[t][a] \in 0 .. WordMax
        BY <2>7
      <4> QED BY <1>4, <4>1, <4>2, BoundsAssumption
    <3> QED BY <1>2, <2>1, <2>7, <3>1
  <2> QED BY <2>5, <2>6, <2>8
<1>13. ASSUME NEW t \in Assets, NEW a \in Addresses
       PROVE  paidFor'[t][a] + credits'[t][a] = Total(GivenBy(swaps', t, a))
  <2>1. S.paidFor[t][a] + S.credits[t][a] = Total(GivenBy(S.swaps, t, a))
    BY <1>3 DEF Good
  <2>2. S.paidFor[t][a] \in Int /\ S.credits[t][a] \in Int
    BY <1>4, BoundsAssumption
  <2>3. credits[t][a] = S.credits[t][a] +
              (IF f.token = t /\ f.party = a THEN 0 - f.amount ELSE 0)
    BY <1>8
  <2>4. paidFor'[t][a] =
            S.paidFor[t][a] + (IF f.token = t /\ f.party = a THEN f.amount ELSE 0)
    BY <1>10
  <2> QED BY <1>2, <1>3, <1>4, <2>1, <2>2, <2>3, <2>4
<1>14. Good(Snapshot)'
  <2>1. Snapshot' \in SnapshotType
    BY <1>11 DEF TypeOK, Snapshot, SnapshotType
  <2> QED BY <1>2, <1>5, <1>12, <1>13, <2>1 DEF Good, Snapshot, RecordsOk
<1> QED BY <1>2, <1>11, <1>14 DEF IInv

\* A failed delivery commits the terminal record together with the credit.
LEMMA DeliverFailsInv ==
    ASSUME IInv, DeliverFails
    PROVE  IInv'
<1>1. PICK f \in FrameType : f = Top /\ InCall(f) /\ Tail(calls) = <<>>
  BY Busy DEF DeliverFails
<1> DEFINE S == f.saved
<1>2. DeliverFrame(f) /\ Good(S) /\ f.kind = "deliver"
  BY <1>1 DEF InCall, DeliverFails
<1>3. PICK h \in Hashlocks, st \in Terminal, p \in Preimages \cup {NoPreimage} :
        /\ S.swaps[h].status = "Open"
        /\ MaySettle(S.swaps[h], h, st, p, now)
        /\ f.token = S.swaps[h].token
        /\ f.amount = S.swaps[h].amount
        /\ f.party = Payee(S.swaps[h], st)
        /\ swaps = [S.swaps EXCEPT ![h].status = st, ![h].preimage = p]
  BY <1>2 DEF DeliverFrame
<1>4. RecordsOk(S.swaps) /\ SettleWrite(S.swaps, swaps, h, st, p)
  BY <1>2, <1>3 DEF SettleWrite, RecordsOk, Good, SnapshotType
<1>5. f.child = [S EXCEPT !.swaps = swaps, !.entered = 2]
  BY <1>2 DEF DeliverFrame
<1>6. /\ f.token \in Assets /\ f.party \in Addresses /\ f.amount \in Nat
      /\ S.paidFor \in [Assets -> [Addresses -> Int]]
      /\ S.credits \in [Assets -> [Addresses -> 0 .. WordMax]]
      /\ S.outstanding \in [Assets -> Int]
      /\ S.balance \in [Assets -> Int]
      /\ S \in SnapshotType
  BY DEF FrameType, SnapshotType
<1>7. f.child.swaps = swaps /\ f.child.credits = S.credits /\ f.child.outstanding = S.outstanding
      /\ f.child.balance = S.balance /\ f.child.paidFor = S.paidFor
  BY <1>5, <1>6 DEF SnapshotType
<1>8. /\ swaps' = swaps
      /\ credits' = Bump2(S.credits, f.token, f.party, f.amount)
      /\ outstanding' = Bump(S.outstanding, f.token, f.amount)
      /\ balance' = S.balance
      /\ paidFor' = S.paidFor
      /\ entered' = 1 /\ calls' = <<>> /\ now' = now
      /\ S.credits[f.token][f.party] + f.amount <= WordMax
  BY <1>1, <1>7 DEF DeliverFails, Pop
<1>9. f.party \in Accounts
  BY <1>2, <1>3 DEF Good, RecordOk, MaySettle, Payee, Terminal
<1> HIDE DEF S
<1>10. /\ RecordsOk(swaps)
       /\ \A t \in Assets : \A a \in Addresses :
            /\ Total(OpenAmount(swaps, t)) = Total(OpenAmount(S.swaps, t)) -
                    (IF f.token = t THEN f.amount ELSE 0)
            /\ Total(GivenBy(swaps, t, a)) = Total(GivenBy(S.swaps, t, a)) +
                    (IF f.token = t /\ f.party = a THEN f.amount ELSE 0)
  BY <1>3, <1>4, SettleSums
<1>11. /\ credits' \in [Assets -> [Addresses -> 0 .. WordMax]]
       /\ \A t \in Assets :
            /\ Total(credits'[t]) = Total(S.credits[t]) +
                  (IF f.token = t THEN f.amount ELSE 0)
            /\ \A a \in Addresses : credits'[t][a] = S.credits[t][a] +
                  (IF f.token = t /\ f.party = a THEN f.amount ELSE 0)
  <2>1. S.credits[f.token][f.party] + f.amount \in 0 .. WordMax
    BY <1>6, <1>8, BoundsAssumption
  <2>2. CreditMove(S.credits, credits', f.token, f.party, f.amount)
    BY <1>6, <1>8, <2>1 DEF CreditMove
  <2> QED BY <2>2, CreditSum
<1>12. /\ outstanding' \in [Assets -> Int]
       /\ \A t \in Assets : outstanding'[t] =
              S.outstanding[t] + (IF f.token = t THEN f.amount ELSE 0)
  BY <1>6, <1>8 DEF Bump
<1>13. TypeOK'
  <2>1. <<>> \in Seq(FrameType)
    OBVIOUS
  <2> QED BY <1>6, <1>8, <1>10, <1>11, <1>12, <2>1 DEF IInv, TypeOK, RecordsOk
<1>14. ASSUME NEW t \in Assets
       PROVE  /\ balance'[t] >= Total(OpenAmount(swaps', t)) + outstanding'[t]
              /\ outstanding'[t] = Total(credits'[t])
              /\ credits'[t][Zero] = 0
              /\ credits'[t][This] = 0
  <2>1. /\ S.balance[t] >= Total(OpenAmount(S.swaps, t)) + S.outstanding[t]
        /\ S.outstanding[t] = Total(S.credits[t])
        /\ S.credits[t][Zero] = 0
        /\ S.credits[t][This] = 0
    BY <1>2 DEF Good
  <2>2. Total(OpenAmount(S.swaps, t)) \in Int
    BY <1>4, TotalsInt
  <2>3. S.balance[t] \in Int /\ S.outstanding[t] \in Int
    BY <1>6
  <2>4. Total(OpenAmount(swaps, t)) = Total(OpenAmount(S.swaps, t)) -
                    (IF f.token = t THEN f.amount ELSE 0)
    BY <1>10 DEF Addresses
  <2>5. outstanding'[t] = S.outstanding[t] + (IF f.token = t THEN f.amount ELSE 0)
    BY <1>12
  <2>6. balance'[t] >= Total(OpenAmount(swaps', t)) + outstanding'[t]
    BY <1>6, <1>8, <2>1, <2>2, <2>3, <2>4, <2>5
  <2>7. Total(credits'[t]) = Total(S.credits[t]) + (IF f.token = t THEN f.amount ELSE 0)
    BY <1>11
  <2>8. Zero \in Addresses /\ This \in Addresses /\ f.party # Zero /\ f.party # This
    BY <1>9, NamesAssumption DEF Addresses
  <2>9. credits'[t][Zero] = 0 /\ credits'[t][This] = 0
    BY <1>6, <1>11, <2>1, <2>8
  <2> QED BY <2>1, <2>5, <2>6, <2>7, <2>9
<1>15. ASSUME NEW t \in Assets, NEW a \in Addresses
       PROVE  paidFor'[t][a] + credits'[t][a] = Total(GivenBy(swaps', t, a))
  <2>1. S.paidFor[t][a] + S.credits[t][a] = Total(GivenBy(S.swaps, t, a))
    BY <1>2 DEF Good
  <2>2. S.paidFor[t][a] \in Int /\ S.credits[t][a] \in Int
    BY <1>6, BoundsAssumption
  <2>3. credits'[t][a] = S.credits[t][a] +
              (IF f.token = t /\ f.party = a THEN f.amount ELSE 0)
    BY <1>11
  <2>4. Total(GivenBy(swaps, t, a)) = Total(GivenBy(S.swaps, t, a)) +
              (IF f.token = t /\ f.party = a THEN f.amount ELSE 0)
    BY <1>10
  <2> QED BY <1>6, <1>8, <2>1, <2>2, <2>3, <2>4
<1>16. Good(Snapshot)'
  <2>1. Snapshot' \in SnapshotType
    BY <1>13 DEF TypeOK, Snapshot, SnapshotType
  <2> QED BY <1>8, <1>10, <1>14, <1>15, <2>1 DEF Good, Snapshot, RecordsOk
<1> QED BY <1>8, <1>13, <1>16 DEF IInv

\* The three settling functions satisfy the settlement rule.
LEMMA SettleSwapInv ==
    ASSUME IInv, SettleSwap
    PROVE  IInv'
<1>1. PICK h \in Hashlocks :
        \/ Refund(h)
        \/ \E p \in Preimages : Claim(h, p)
        \/ \E caller \in Accounts : Release(caller, h)
  BY DEF SettleSwap
<1>2. swaps[h].preimage \in Preimages \cup {NoPreimage}
  BY DEF IInv, TypeOK, Swap
<1>3. CASE Refund(h)
  <2>1. MaySettle(swaps[h], h, "Refunded", swaps[h].preimage, now)
    BY <1>3 DEF Refund, MaySettle
  <2> QED BY <1>2, <1>3, <2>1, SettleInv DEF Refund, Terminal
<1>4. CASE \E p \in Preimages : Claim(h, p)
  <2>1. PICK p \in Preimages : Claim(h, p)
    BY <1>4
  <2>2. MaySettle(swaps[h], h, "Claimed", p, now)
    BY <2>1 DEF Claim, MaySettle, Unassigned
  <2> QED BY <2>1, <2>2, SettleInv DEF Claim, Terminal
<1>5. CASE \E caller \in Accounts : Release(caller, h)
  <2>1. PICK caller \in Accounts : Release(caller, h)
    BY <1>5
  <2>2. MaySettle(swaps[h], h, "Refunded", swaps[h].preimage, now)
    BY <2>1 DEF Release, MaySettle, Unassigned
  <2> QED BY <1>2, <2>1, <2>2, SettleInv DEF Release, Terminal
<1> QED BY <1>1, <1>3, <1>4, <1>5

LEMMA MoveCreditInv ==
    ASSUME IInv, MoveCredit
    PROVE  IInv'
<1>1. PICK t \in Assets :
        \/ \E a \in Addresses : PushCredit(t, a)
        \/ \E a \in Accounts, to \in Addresses, n \in 0 .. WordMax : Withdraw(a, t, to, n)
  BY DEF MoveCredit
<1>2. ASSUME NEW a \in Addresses PROVE credits[t][a] \in Nat
  BY BoundsAssumption DEF IInv, TypeOK
<1>3. ASSUME NEW a \in Addresses, PushCredit(t, a) PROVE IInv'
  BY <1>2, <1>3, TakeCreditInv DEF PushCredit
<1>4. ASSUME NEW a \in Accounts, NEW to \in Addresses, NEW n \in 0 .. WordMax,
             Withdraw(a, t, to, n)
      PROVE  IInv'
  <2>1. a \in Addresses /\ n \in Nat
    BY BoundsAssumption DEF Addresses
  <2> QED BY <1>4, <2>1, TakeCreditInv DEF Withdraw, CanWithdraw
<1> QED BY <1>1, <1>3, <1>4

LEMMA CallEndsInv ==
    ASSUME IInv, CallEnds
    PROVE  IInv'
<1>1. ASSUME NEW after \in Afters PROVE after \in Int
  <2>1. CASE calls = <<>>
    BY <1>1, <2>1 DEF Afters
  <2>2. CASE calls # <<>>
    <3>1. balance[Top.token] \in Int
      BY <2>2, Busy DEF IInv, TypeOK, FrameType
    <3> QED BY <1>1, <2>2, <3>1, BoundsAssumption DEF Afters
  <2> QED BY <2>1, <2>2
<1>2. CASE DeliverFails
  BY <1>2, DeliverFailsInv
<1>3. CASE Reverts
  BY <1>3, RevertsInv
<1>4. ASSUME NEW after \in Afters,
             PullReturns(after) \/ DeliverReturns(after) \/ StrictReturns(after)
      PROVE  IInv'
  BY <1>1, <1>4, PullReturnsInv, DeliverReturnsInv, StrictReturnsInv
<1> QED BY <1>2, <1>3, <1>4 DEF CallEnds

LEMMA LockInv ==
    ASSUME IInv, Lock
    PROVE  IInv'
<1>1. PICK h \in Hashlocks, caller \in Accounts, n \in Amounts, timeout \in Times :
        \/ \E r \in Addresses : LockNative(caller, h, r, n, timeout, FALSE)
        \/ \E r \in Addresses, t \in Tokens : LockToken(caller, h, r, t, n, timeout, FALSE)
        \/ LockNative(caller, h, Zero, n, timeout, TRUE)
        \/ \E t \in Tokens : LockToken(caller, h, Zero, t, n, timeout, TRUE)
  BY DEF Lock
<1>2. Zero \in Addresses
  BY DEF Addresses
<1>3. ASSUME NEW r \in Addresses, NEW open, LockNative(caller, h, r, n, timeout, open)
      PROVE  IInv'
  BY <1>3, LockNativeInv
<1>4. ASSUME NEW r \in Addresses, NEW open, NEW t \in Tokens,
             LockToken(caller, h, r, t, n, timeout, open)
      PROVE  IInv'
  BY <1>4, LockTokenInv
<1> QED BY <1>1, <1>2, <1>3, <1>4

LEMMA NextInv ==
    ASSUME IInv, [Next]_vars
    PROVE  IInv'
<1>1. CASE Lock BY <1>1, LockInv
<1>2. CASE \E h \in Hashlocks, caller \in Accounts, r \in Addresses : Assign(caller, h, r)
  BY <1>2, AssignInv
<1>3. CASE SettleSwap BY <1>3, SettleSwapInv
<1>4. CASE MoveCredit BY <1>4, MoveCreditInv
<1>5. CASE CallEnds BY <1>5, CallEndsInv
<1>6. CASE \E t \in Assets : Donate(t) BY <1>6, DonateInv
<1>7. CASE Tick BY <1>7, TickInv
<1>8. CASE UNCHANGED vars
  <2> USE <1>8 DEF vars
  <2>1. TypeOK'
    BY DEF IInv, TypeOK
  <2>2. Good(Snapshot) => Good(Snapshot)'
    BY DEF Good, Snapshot
  <2>3. ASSUME NEW f \in FrameType, InCall(f) PROVE InCall(f)'
    <3>1. (PullFrame(f) => PullFrame(f)') /\ (StrictFrame(f) => StrictFrame(f)')
      BY DEF PullFrame, StrictFrame
    <3>2. DeliverFrame(f) => DeliverFrame(f)'
      BY SMTT(60) DEF DeliverFrame
    <3> QED BY <2>3, <3>1, <3>2 DEF InCall
  <2> QED BY <2>1, <2>2, <2>3 DEF IInv
<1> QED BY <1>1, <1>2, <1>3, <1>4, <1>5, <1>6, <1>7, <1>8 DEF Next

LEMMA Inductive == Spec => []IInv
BY InitInv, NextInv, PTL DEF Spec

\* HTLCv3's storage and call stack keep their types.
THEOREM TypeCorrect == Spec => []TypeOK
<1>1. IInv => TypeOK
  BY DEF IInv
<1> QED BY <1>1, Inductive, PTL

\* Between transactions HTLCv3 holds, of every asset, at least the amounts of
\* all Open swaps plus all credits, whatever its callees do.
THEOREM SolvencyHolds == Spec => []Solvency
<1>1. IInv => Solvency
  BY DEF IInv, Solvency, Good, Snapshot, InCall
<1> QED BY <1>1, Inductive, PTL

\* Between transactions each account was paid or is credited exactly what
\* the settled swaps gave it.
THEOREM EntitlementHolds == Spec => []Entitlement
<1>1. IInv => Entitlement
  BY DEF IInv, Entitlement, Good, Snapshot, InCall
<1> QED BY <1>1, Inductive, PTL

\* Neither the zero address nor the contract itself ever owns a credit, during
\* calls included: a settlement's payee is an account, and a withdrawal takes
\* from a credit that is there.
THEOREM ReachabilityHolds == Spec => []CreditsReachable
<1>1. ASSUME IInv PROVE CreditsReachable
  <2> Zero \in Addresses /\ This \in Addresses
    BY DEF Addresses
  <2>1. CASE calls = <<>> /\ Good(Snapshot)
    BY <2>1 DEF CreditsReachable, Good, Snapshot
  <2>2. ASSUME NEW f \in FrameType, InCall(f)
        PROVE  CreditsReachable
    <3>1. \A t \in Assets : f.saved.credits[t][Zero] = 0 /\ f.saved.credits[t][This] = 0
      BY <2>2 DEF InCall, Good
    <3>2. CASE credits = f.saved.credits
      BY <3>1, <3>2 DEF CreditsReachable
    <3>3. CASE StrictFrame(f)
      <4>1. f.amount \in Nat /\ f.token \in Assets /\ f.party \in Addresses
        BY DEF FrameType
      <4>2. f.saved.credits \in [Assets -> [Addresses -> 0 .. WordMax]]
        BY DEF FrameType, SnapshotType
      <4>3. f.party \in {Zero, This} => f.amount = 0
        BY <3>1, <3>3, <4>1 DEF StrictFrame
      <4> QED BY <3>1, <3>3, <4>1, <4>2, <4>3 DEF StrictFrame, Bump2, CreditsReachable
    <3> QED BY <2>2, <3>2, <3>3 DEF InCall, PullFrame, DeliverFrame
  <2> QED BY <1>1, <2>1, <2>2 DEF IInv
<1> QED BY <1>1, Inductive, PTL

-----------------------------------------------------------------------------
(* The credits of a settlement fit.  Together with the Open swaps they     *)
(* never exceed what was ever locked, and that fits a word.                *)

\* What was locked of an asset, per hashlock, whatever became of it.
TakenIn(S, t) ==
    [h \in Hashlocks |-> IF S[h].status # "None" /\ S[h].token = t
                         THEN S[h].amount ELSE 0]

Backed(S, out) ==
    \A t \in Assets : out[t] + Total(OpenAmount(S, t)) <= Total(TakenIn(S, t))

\* Storage as of the last transaction is backed.
BackedInv ==
    /\ calls = <<>> => Backed(swaps, outstanding)
    /\ calls # <<>> => Backed(Top.saved.swaps, Top.saved.outstanding)

LEMMA TakenInRange ==
    ASSUME NEW S, RecordsOk(S), NEW t \in Assets
    PROVE  /\ TakenIn(S, t) \in [Hashlocks -> 0 .. AmountCap]
           /\ Total(TakenIn(S, t)) \in Int /\ Total(TakenIn(S, t)) <= WordMax
<1>1. TakenIn(S, t) \in [Hashlocks -> 0 .. AmountCap]
  BY BoundsAssumption DEF RecordsOk, RecordOk, Swap, TakenIn
<1> QED BY <1>1, TotalOverSwaps, SwapsFit

LEMMA LockBacked ==
    ASSUME NEW S, NEW T, NEW h, NEW r, LockWrite(S, T, h, r),
           NEW out \in [Assets -> Int], Backed(S, out)
    PROVE  Backed(T, out)
<1> SUFFICES ASSUME NEW t \in Assets
             PROVE  out[t] + Total(OpenAmount(T, t)) <= Total(TakenIn(T, t))
  BY DEF Backed
<1> DEFINE n == IF r.token = t THEN r.amount ELSE 0
           F == TakenIn(S, t)
           G == TakenIn(T, t)
<1>0. RecordsOk(S) /\ h \in Hashlocks /\ Zero \in Addresses
  BY DEF LockWrite, Addresses
<1>1. n \in 0 .. AmountCap /\ F[h] = 0 /\ G = [F EXCEPT ![h] = n]
  <2>1. n \in 0 .. AmountCap
    BY BoundsAssumption DEF LockWrite, NewRecords
  <2>2. F[h] = 0
    BY DEF LockWrite, TakenIn
  <2>3. G = [F EXCEPT ![h] = n]
    BY DEF LockWrite, NewRecords, RecordsOk, TakenIn
  <2> QED BY <2>1, <2>2, <2>3
<1>2. F \in [Hashlocks -> 0 .. AmountCap]
  BY <1>0, TakenInRange
<1>3. Total(OpenAmount(T, t)) = Total(OpenAmount(S, t)) + n
  BY <1>0, LockSums
<1>4. Total(OpenAmount(S, t)) \in Int /\ out[t] \in Int
  BY <1>0, TotalsInt
<1>5. out[t] + Total(OpenAmount(S, t)) <= Total(F)
  BY DEF Backed
<1> HIDE DEF n, F, G
<1>6. Total(F) \in Int /\ Total(G) = Total(F) + n - F[h]
  BY <1>0, <1>1, <1>2, TotalUpdate
<1>7. out[t] + Total(OpenAmount(T, t)) <= Total(G)
  BY <1>1, <1>3, <1>4, <1>5, <1>6
<1> QED BY <1>7 DEF G

\* A settlement takes the amount out of the escrow; at most that is credited.
LEMMA SettleBacked ==
    ASSUME NEW S, NEW T, NEW h, NEW st, NEW p, SettleWrite(S, T, h, st, p),
           NEW out \in [Assets -> Int], NEW out2 \in [Assets -> Int], Backed(S, out),
           \A t \in Assets :
               out2[t] <= out[t] + (IF S[h].token = t THEN S[h].amount ELSE 0)
    PROVE  Backed(T, out2)
<1> SUFFICES ASSUME NEW t \in Assets
             PROVE  out2[t] + Total(OpenAmount(T, t)) <= Total(TakenIn(T, t))
  BY DEF Backed
<1> DEFINE n == IF S[h].token = t THEN S[h].amount ELSE 0
<1>0. RecordsOk(S) /\ h \in Hashlocks /\ Zero \in Addresses
  BY DEF SettleWrite, Addresses
<1>1. TakenIn(T, t) = TakenIn(S, t)
  BY DEF SettleWrite, RecordsOk, Swap, TakenIn, Terminal
<1>2. Total(OpenAmount(T, t)) = Total(OpenAmount(S, t)) - n
  BY <1>0, SettleSums
<1>3. /\ Total(OpenAmount(S, t)) \in Int /\ Total(TakenIn(S, t)) \in Int
      /\ out[t] \in Int /\ out2[t] \in Int /\ n \in Int
  BY <1>0, TotalsInt, TakenInRange DEF RecordsOk, Swap
<1>4. out[t] + Total(OpenAmount(S, t)) <= Total(TakenIn(S, t)) /\ out2[t] <= out[t] + n
  BY DEF Backed
<1> HIDE DEF n
<1> QED BY <1>1, <1>2, <1>3, <1>4

LEMMA AssignBacked ==
    ASSUME NEW S, NEW T, NEW h, NEW r, AssignWrite(S, T, h, r), NEW out, Backed(S, out)
    PROVE  Backed(T, out)
<1>1. ASSUME NEW t \in Assets
      PROVE  TakenIn(T, t) = TakenIn(S, t) /\ OpenAmount(T, t) = OpenAmount(S, t)
  BY DEF AssignWrite, RecordsOk, Swap, TakenIn, OpenAmount
<1> QED BY <1>1 DEF Backed

LEMMA LowerBacked ==
    ASSUME NEW S, RecordsOk(S), NEW out \in [Assets -> Int], NEW out2 \in [Assets -> Int],
           Backed(S, out), \A t \in Assets : out2[t] <= out[t]
    PROVE  Backed(S, out2)
<1> SUFFICES ASSUME NEW t \in Assets
             PROVE  out2[t] + Total(OpenAmount(S, t)) <= Total(TakenIn(S, t))
  BY DEF Backed
<1>1. /\ Total(OpenAmount(S, t)) \in Int /\ Total(TakenIn(S, t)) \in Int
      /\ out[t] \in Int /\ out2[t] \in Int
  BY TotalsInt, TakenInRange
<1>2. out[t] + Total(OpenAmount(S, t)) <= Total(TakenIn(S, t)) /\ out2[t] <= out[t]
  BY DEF Backed
<1> QED BY <1>1, <1>2

\* A call out of the contract keeps the storage it may have to put back.
LEMMA CallsOutBacked ==
    ASSUME IInv, BackedInv, NotEntered, NEW kind, NEW t, NEW a, NEW n, NEW c,
           Push(Frame(kind, t, a, n, c))
    PROVE  BackedInv'
<1>1. calls = <<>>
  BY Idle
<1>2. PICK g : g = Frame(kind, t, a, n, c)
  OBVIOUS
<1>3. g.saved.swaps = swaps /\ g.saved.outstanding = outstanding
  BY <1>2 DEF Frame, Snapshot
<1>4. calls' = <<g>>
  BY <1>1, <1>2 DEF Push
<1>5. calls' # <<>> /\ Top' = g
  BY <1>4 DEF Top
<1>6. Backed(swaps, outstanding)
  BY <1>1 DEF BackedInv
<1> QED BY <1>3, <1>5, <1>6 DEF BackedInv

\* The end of a transaction.
LEMMA EndsBacked ==
    ASSUME calls' = <<>>, NEW S, NEW out, swaps' = S, outstanding' = out, Backed(S, out)
    PROVE  BackedInv'
BY DEF BackedInv, Backed, OpenAmount, TakenIn

\* The write of a settlement that waits for its payout.
LEMMA DeliverWrite ==
    ASSUME NEW f \in FrameType, InCall(f), f.kind = "deliver"
    PROVE  /\ outstanding = f.saved.outstanding
           /\ f.child.swaps = swaps /\ f.child.outstanding = f.saved.outstanding
           /\ \E h, st, p : /\ SettleWrite(f.saved.swaps, swaps, h, st, p)
                            /\ f.token = f.saved.swaps[h].token
                            /\ f.amount = f.saved.swaps[h].amount
<1>1. DeliverFrame(f) /\ Good(f.saved)
  BY DEF InCall
<1>2. f.saved \in SnapshotType
  BY DEF FrameType
<1>3. f.child = [f.saved EXCEPT !.swaps = swaps, !.entered = 2]
  BY <1>1 DEF DeliverFrame
<1>4. f.child.swaps = swaps /\ f.child.outstanding = f.saved.outstanding
  BY <1>2, <1>3 DEF SnapshotType
<1>5. PICK h \in Hashlocks, st \in Terminal, p \in Preimages \cup {NoPreimage} :
        /\ f.saved.swaps[h].status = "Open"
        /\ MaySettle(f.saved.swaps[h], h, st, p, now)
        /\ f.token = f.saved.swaps[h].token
        /\ f.amount = f.saved.swaps[h].amount
        /\ f.party = Payee(f.saved.swaps[h], st)
        /\ swaps = [f.saved.swaps EXCEPT ![h].status = st, ![h].preimage = p]
  BY <1>1 DEF DeliverFrame
<1>6. RecordsOk(f.saved.swaps)
  BY <1>1 DEF RecordsOk, Good, SnapshotType
<1>7. SettleWrite(f.saved.swaps, swaps, h, st, p)
  BY <1>5, <1>6 DEF SettleWrite
<1> QED BY <1>1, <1>4, <1>5, <1>7 DEF DeliverFrame

LEMMA CallEndsBacked ==
    ASSUME IInv, BackedInv, CallEnds
    PROVE  BackedInv'
<1>1. calls # <<>>
  BY DEF CallEnds, PullReturns, DeliverReturns, StrictReturns, DeliverFails, Reverts
<1>2. PICK f \in FrameType : f = Top /\ InCall(f) /\ Tail(calls) = <<>>
  BY <1>1, Busy
<1>3. /\ Backed(f.saved.swaps, f.saved.outstanding)
      /\ f.saved.outstanding \in [Assets -> Int] /\ f.token \in Assets /\ f.amount \in Nat
      /\ RecordsOk(f.saved.swaps)
  BY <1>1, <1>2 DEF BackedInv, FrameType, SnapshotType, InCall, Good, RecordsOk
<1>4. ASSUME NEW after, PullReturns(after) PROVE BackedInv'
  <2>1. PullFrame(f)
    BY <1>2, <1>4 DEF PullReturns, InCall
  <2>2. PICK h \in Hashlocks, r \in NewRecords :
          /\ f.saved.swaps[h].status = "None"
          /\ swaps = [f.saved.swaps EXCEPT ![h] = r]
    BY <2>1 DEF PullFrame
  <2>3. LockWrite(f.saved.swaps, swaps, h, r)
    BY <1>3, <2>2 DEF LockWrite
  <2>4. Backed(swaps, f.saved.outstanding)
    BY <1>3, <2>3, LockBacked
  <2>5. swaps' = swaps /\ outstanding' = f.saved.outstanding /\ calls' = <<>>
    BY <1>2, <1>4, <2>1 DEF PullReturns, PullFrame, Pop
  <2> QED BY <2>4, <2>5, EndsBacked
<1>5. ASSUME f.kind = "deliver"
      PROVE  Backed(swaps, f.saved.outstanding)
  <2>1. PICK h, st, p : SettleWrite(f.saved.swaps, swaps, h, st, p)
    BY <1>2, <1>5, DeliverWrite
  <2>2. \A t \in Assets : f.saved.outstanding[t] <= f.saved.outstanding[t] +
            (IF f.saved.swaps[h].token = t THEN f.saved.swaps[h].amount ELSE 0)
    BY <1>3, <2>1 DEF SettleWrite, RecordsOk, Swap
  <2> QED BY <1>3, <2>1, <2>2, SettleBacked
<1>6. ASSUME NEW after, DeliverReturns(after) PROVE BackedInv'
  <2>1. /\ swaps' = swaps /\ outstanding' = outstanding /\ calls' = <<>>
        /\ f.kind = "deliver"
    BY <1>2, <1>6 DEF DeliverReturns, Paid, Pop
  <2>2. outstanding = f.saved.outstanding
    BY <1>2, <2>1, DeliverWrite
  <2> QED BY <1>5, <2>1, <2>2, EndsBacked
<1>7. ASSUME DeliverFails PROVE BackedInv'
  <2>1. f.kind = "deliver"
    BY <1>2, <1>7 DEF DeliverFails
  <2>2. PICK h, st, p : /\ SettleWrite(f.saved.swaps, swaps, h, st, p)
                        /\ f.token = f.saved.swaps[h].token
                        /\ f.amount = f.saved.swaps[h].amount
    BY <1>2, <2>1, DeliverWrite
  <2>3. /\ swaps' = swaps /\ calls' = <<>>
        /\ outstanding' = Bump(f.saved.outstanding, f.token, f.amount)
    BY <1>2, <1>7, <2>1, DeliverWrite DEF DeliverFails, Pop
  <2>4. PICK out : out = Bump(f.saved.outstanding, f.token, f.amount)
    OBVIOUS
  <2>5. out \in [Assets -> Int]
    BY <1>3, <2>4 DEF Bump
  <2>6. \A t \in Assets : out[t] <= f.saved.outstanding[t] +
            (IF f.saved.swaps[h].token = t THEN f.saved.swaps[h].amount ELSE 0)
    BY <1>3, <2>2, <2>4 DEF Bump
  <2>7. Backed(swaps, out)
    BY <1>3, <2>2, <2>5, <2>6, SettleBacked
  <2> QED BY <2>3, <2>4, <2>7, EndsBacked
<1>8. ASSUME NEW after, StrictReturns(after) PROVE BackedInv'
  <2>1. StrictFrame(f) /\ swaps' = swaps /\ outstanding' = outstanding /\ calls' = <<>>
    BY <1>2, <1>8 DEF StrictReturns, Paid, Pop, InCall
  <2>2. /\ swaps = f.saved.swaps
        /\ outstanding = Bump(f.saved.outstanding, f.token, 0 - f.amount)
        /\ outstanding \in [Assets -> Int]
    BY <2>1 DEF StrictFrame, IInv, TypeOK
  <2>3. \A t \in Assets : outstanding[t] <= f.saved.outstanding[t]
    BY <1>3, <2>2 DEF Bump
  <2>4. Backed(f.saved.swaps, outstanding)
    BY <1>3, <2>2, <2>3, LowerBacked
  <2> QED BY <2>1, <2>2, <2>4, EndsBacked
<1>9. ASSUME Reverts PROVE BackedInv'
  <2>1. swaps' = f.saved.swaps /\ outstanding' = f.saved.outstanding /\ calls' = <<>>
    BY <1>2, <1>9 DEF Reverts, Restore, Pop
  <2> QED BY <1>3, <2>1, EndsBacked
<1> QED BY <1>4, <1>6, <1>7, <1>8, <1>9 DEF CallEnds

LEMMA LockBackedInv ==
    ASSUME IInv, BackedInv, Lock
    PROVE  BackedInv'
<1>1. ASSUME NEW caller \in Accounts, NEW h \in Hashlocks, NEW r \in Addresses,
             NEW n \in Amounts, NEW timeout \in Times, NEW open,
             LockNative(caller, h, r, n, timeout, open)
      PROVE  BackedInv'
  <2> DEFINE rec == [initiator |-> caller, recipient |-> r, token |-> Native,
                     amount |-> n, timeout |-> timeout, status |-> "Open",
                     preimage |-> NoPreimage]
  <2>1. calls = <<>> /\ RecordsOk(swaps)
    BY <1>1, Idle DEF LockNative, LockOk
  <2>2. rec \in NewRecords
    BY <1>1, BoundsAssumption DEF LockNative, LockOk, AmountOk, RecipientOk, NewRecords,
           Amounts, Addresses, Assets
  <2>3. LockWrite(swaps, swaps', h, rec)
    BY <1>1, <2>1, <2>2 DEF LockNative, Locked, LockOk, Unused, LockWrite
  <2>4. Backed(swaps, outstanding) /\ outstanding \in [Assets -> Int]
    BY <2>1 DEF BackedInv, IInv, TypeOK
  <2>5. calls' = <<>> /\ outstanding' = outstanding
    BY <1>1, <2>1 DEF LockNative
  <2>6. PICK T : T = swaps'
    OBVIOUS
  <2> HIDE DEF rec
  <2>7. Backed(T, outstanding)
    BY <2>3, <2>4, <2>6, LockBacked
  <2> QED BY <2>5, <2>6, <2>7, EndsBacked
<1>2. ASSUME NEW caller, NEW h, NEW r, NEW t, NEW n, NEW timeout, NEW open,
             LockToken(caller, h, r, t, n, timeout, open)
      PROVE  BackedInv'
  BY <1>2, CallsOutBacked DEF LockToken, LockOk
<1>3. PICK h \in Hashlocks, caller \in Accounts, n \in Amounts, timeout \in Times :
        \/ \E r \in Addresses : LockNative(caller, h, r, n, timeout, FALSE)
        \/ \E r \in Addresses, t \in Tokens : LockToken(caller, h, r, t, n, timeout, FALSE)
        \/ LockNative(caller, h, Zero, n, timeout, TRUE)
        \/ \E t \in Tokens : LockToken(caller, h, Zero, t, n, timeout, TRUE)
  BY DEF Lock
<1>4. Zero \in Addresses
  BY DEF Addresses
<1> QED BY <1>1, <1>2, <1>3, <1>4

LEMMA NextBacked ==
    ASSUME IInv, BackedInv, [Next]_vars
    PROVE  BackedInv'
<1>1. CASE Lock
  BY <1>1, LockBackedInv
<1>2. ASSUME NEW h \in Hashlocks, NEW caller \in Accounts, NEW r \in Addresses,
             Assign(caller, h, r)
      PROVE  BackedInv'
  <2>1. calls = <<>> /\ RecordsOk(swaps)
    BY <1>2, Idle DEF Assign
  <2>2. AssignWrite(swaps, swaps', h, r)
    BY <1>2, <2>1 DEF AssignWrite, Assign, IsOpen, Addresses
  <2>3. PICK T : T = swaps'
    OBVIOUS
  <2>4. Backed(T, outstanding)
    BY <2>1, <2>2, <2>3, AssignBacked DEF BackedInv
  <2>5. calls' = <<>> /\ outstanding' = outstanding
    BY <1>2, <2>1 DEF Assign
  <2> QED BY <2>3, <2>4, <2>5, EndsBacked
<1>3. CASE SettleSwap
  BY <1>3, CallsOutBacked DEF SettleSwap, Refund, Claim, Release, Settle
<1>4. CASE MoveCredit
  BY <1>4, CallsOutBacked DEF MoveCredit, PushCredit, Withdraw, TakeCredit
<1>5. CASE CallEnds
  BY <1>5, CallEndsBacked
<1>6. CASE \/ \E t \in Assets : Donate(t)
           \/ Tick
           \/ UNCHANGED vars
  <2>1. swaps' = swaps /\ outstanding' = outstanding /\ calls' = calls
    BY <1>6 DEF Donate, Tick, contractVars, vars
  <2> QED BY <2>1 DEF BackedInv, Backed, OpenAmount, TakenIn, Top
<1> QED BY <1>1, <1>2, <1>3, <1>4, <1>5, <1>6 DEF Next

LEMMA InitBacked == Init => BackedInv
<1> SUFFICES ASSUME Init PROVE BackedInv
  OBVIOUS
<1>1. ASSUME NEW t \in Assets
      PROVE  /\ OpenAmount(swaps, t) = [h \in Hashlocks |-> 0]
             /\ TakenIn(swaps, t) = [h \in Hashlocks |-> 0]
  BY DEF Init, EmptySwap, OpenAmount, TakenIn
<1>2. Backed(swaps, outstanding)
  BY <1>1, TotalOverSwaps DEF Backed, Init
<1> QED BY <1>2 DEF BackedInv, Init

\* The amount of one Open swap is part of what all of them hold.
LEMMA OneOfTheOpen ==
    ASSUME NEW S, RecordsOk(S), NEW h \in Hashlocks, S[h].status = "Open"
    PROVE  /\ S[h].amount \in Nat /\ S[h].token \in Assets
           /\ S[h].amount <= Total(OpenAmount(S, S[h].token))
<1> DEFINE F == OpenAmount(S, S[h].token)
           G == [F EXCEPT ![h] = 0]
<1>1. S[h].amount \in Nat /\ S[h].token \in Assets /\ F[h] = S[h].amount
  BY DEF RecordsOk, Swap, OpenAmount
<1>2. F \in [Hashlocks -> 0 .. AmountCap] /\ 0 \in 0 .. AmountCap
  BY <1>1, AmountsInRange, BoundsAssumption
<1>3. G \in [Hashlocks -> 0 .. AmountCap]
  <2> HIDE DEF F
  <2> QED BY <1>2
<1>4. Total(G) \in Nat /\ Total(F) \in Int
  BY <1>2, <1>3, TotalOverSwaps
<1>5. Total(G) = Total(F) + 0 - F[h]
  <2> HIDE DEF F
  <2> QED BY <1>2, TotalUpdate
<1> HIDE DEF F, G
<1>6. S[h].amount <= Total(F)
  BY <1>1, <1>4, <1>5
<1> QED BY <1>1, <1>6 DEF F

\* However many payouts failed before, the amount of an Open swap still fits
\* the credit counters between transactions: a settlement that publishes a
\* preimage cannot revert because its credit overflows (HTLCv3.hyp, the
\* uint128 cap of _lock), even if tokens misreport their balances.
THEOREM CreditFits == Spec => []CreditAlwaysFits
<1>1. ASSUME IInv, BackedInv PROVE CreditAlwaysFits
  <2> SUFFICES ASSUME calls = <<>>, NEW h \in Hashlocks, IsOpen(swaps[h])
               PROVE  outstanding[swaps[h].token] + swaps[h].amount <= WordMax
    BY DEF CreditAlwaysFits
  <2>1. RecordsOk(swaps)
    BY <1>1 DEF IInv, InCall, Good, RecordsOk, Snapshot, SnapshotType
  <2>2. PICK t : t = swaps[h].token
    OBVIOUS
  <2>3. /\ swaps[h].amount \in Nat /\ t \in Assets
        /\ swaps[h].amount <= Total(OpenAmount(swaps, t))
    BY <2>1, <2>2, OneOfTheOpen DEF IsOpen
  <2>4. outstanding[t] + Total(OpenAmount(swaps, t)) <= Total(TakenIn(swaps, t))
    BY <1>1, <2>3 DEF BackedInv, Backed
  <2>5. /\ Total(TakenIn(swaps, t)) \in Int /\ Total(TakenIn(swaps, t)) <= WordMax
        /\ Total(OpenAmount(swaps, t)) \in Int /\ outstanding[t] \in Int
        /\ WordMax \in Nat
    BY <1>1, <2>1, <2>3, TakenInRange, TotalsInt, BoundsAssumption DEF IInv, TypeOK
  <2> QED BY <2>2, <2>3, <2>4, <2>5
<1> QED BY <1>1, Inductive, InitBacked, NextBacked, PTL DEF Spec

-----------------------------------------------------------------------------
(* The refinement: HTLCv3 implements AtomicEscrow.  Seen at transaction     *)
(* boundaries, every function is one atomic step of the abstract escrow or  *)
(* no step at all.                                                          *)

(* The committed storage.                                                  *)

GivenIn(S) == [t \in Assets |-> [a \in Addresses |-> S.credits[t][a] + S.paidFor[t][a]]]

\* A step from committed storage S to committed storage T.
CommitStep(S, T) ==
    /\ Committed = S
    /\ Committed' = T
    /\ CommittedGiven = GivenIn(S)
    /\ CommittedGiven' = GivenIn(T)

LEMMA CommittedIdle == calls = <<>> => Committed = Snapshot /\ CommittedGiven = GivenIn(Snapshot)
BY DEF Committed, CommittedGiven, GivenIn

LEMMA CommittedBusy ==
    ASSUME NEW f, calls = <<f>>
    PROVE  Committed = f.saved /\ CommittedGiven = GivenIn(f.saved)
BY DEF Committed, CommittedGiven, GivenIn

\* A step that leaves the committed records and gifts alone is a stutter.
LEMMA HiddenStep ==
    ASSUME NEW S, NEW T, CommitStep(S, T), T.swaps = S.swaps,
           GivenIn(T) = GivenIn(S), now' = now
    PROVE  UNCHANGED Escrow!absVars
BY DEF CommitStep, Escrow!absVars

LEMMA CreateStep ==
    ASSUME NEW S, NEW T, CommitStep(S, T), NEW h \in Hashlocks, NEW r \in NewRecords,
           S.swaps[h].status = "None", r.timeout > now,
           T.swaps = [S.swaps EXCEPT ![h] = r], GivenIn(T) = GivenIn(S), now' = now
    PROVE  Escrow!AbsNext
<1>1. r = [initiator |-> r.initiator, recipient |-> r.recipient, token |-> r.token,
           amount |-> r.amount, timeout |-> r.timeout, status |-> "Open",
           preimage |-> NoPreimage]
  BY DEF NewRecords
<1>2. /\ r.initiator \in Accounts /\ r.recipient \in Accounts \cup {Zero}
      /\ r.token \in Assets /\ r.amount \in 1 .. AmountCap /\ r.timeout \in Times
  BY DEF NewRecords
<1>3. Escrow!Create(h)
  BY <1>1, <1>2 DEF Escrow!Create, CommitStep
<1> QED BY <1>3 DEF Escrow!AbsNext

LEMMA FixStep ==
    ASSUME NEW S, NEW T, CommitStep(S, T), NEW h \in Hashlocks, NEW r \in Accounts,
           S.swaps[h].status = "Open", S.swaps[h].recipient = Zero,
           now < S.swaps[h].timeout,
           T.swaps = [S.swaps EXCEPT ![h].recipient = r],
           GivenIn(T) = GivenIn(S), now' = now
    PROVE  Escrow!AbsNext
<1>1. Escrow!FixRecipient(h)
  BY DEF Escrow!FixRecipient, CommitStep
<1> QED BY <1>1 DEF Escrow!AbsNext

\* Settling S's record under h and giving its amount to the payee.
SettleCommit(S, T, h, st, p) ==
    /\ S \in SnapshotType
    /\ h \in Hashlocks
    /\ st \in Terminal
    /\ S.swaps[h].status = "Open"
    /\ T.swaps = [S.swaps EXCEPT ![h].status = st, ![h].preimage = p]
    /\ GivenIn(T) = Bump2(GivenIn(S), S.swaps[h].token, Payee(S.swaps[h], st),
                          S.swaps[h].amount)

LEMMA SettleStep ==
    ASSUME NEW S, NEW T, CommitStep(S, T), NEW h, NEW st, NEW p,
           SettleCommit(S, T, h, st, p), MaySettle(S.swaps[h], h, st, p, now), now' = now
    PROVE  Escrow!AbsNext
<1> USE DEF SettleCommit
<1>1. CASE st = "Claimed"
  <2>1. Escrow!ClaimSwap(h)
    BY <1>1 DEF Escrow!ClaimSwap, Escrow!Give, CommitStep, MaySettle, Payee, Bump2
  <2> QED BY <2>1 DEF Escrow!AbsNext
<1>2. CASE st = "Refunded"
  <2>1. p = S.swaps[h].preimage /\ (now >= S.swaps[h].timeout \/ S.swaps[h].recipient = Zero)
    BY <1>2 DEF MaySettle
  <2>2. T.swaps = [S.swaps EXCEPT ![h].status = "Refunded"]
    BY <1>2, <2>1 DEF SnapshotType, Swap
  <2>3. Escrow!ReturnSwap(h)
    BY <1>2, <2>1, <2>2 DEF Escrow!ReturnSwap, Escrow!Give, CommitStep, Payee, Bump2
  <2> QED BY <2>3 DEF Escrow!AbsNext
<1> QED BY <1>1, <1>2 DEF Terminal

-----------------------------------------------------------------------------
(* The functions, one lemma per kind of step.                              *)

LEMMA IdleToIdle ==
    ASSUME calls = <<>>, calls' = <<>>
    PROVE  \E S, T : S = Snapshot /\ T = Snapshot' /\ CommitStep(S, T)
BY DEF CommitStep, Committed, CommittedGiven, GivenIn

LEMMA BusyToIdle ==
    ASSUME NEW f, calls = <<f>>, calls' = <<>>
    PROVE  \E T : T = Snapshot' /\ CommitStep(f.saved, T)
BY DEF CommitStep, Committed, CommittedGiven, GivenIn

\* A function that calls out has committed nothing yet.
LEMMA PushStep ==
    ASSUME calls = <<>>, NEW g, calls' = <<g>>, g.saved = Snapshot, now' = now
    PROVE  UNCHANGED Escrow!absVars
<1>1. CommitStep(g.saved, g.saved)
  BY DEF CommitStep, Committed, CommittedGiven, GivenIn
<1> QED BY <1>1, HiddenStep

LEMMA FrameSaved ==
    ASSUME IInv, NotEntered, NEW kind, NEW t, NEW a, NEW n, NEW c,
           Push(Frame(kind, t, a, n, c)), now' = now
    PROVE  UNCHANGED Escrow!absVars
<1>1. calls = <<>>
  BY Idle
<1>2. PICK g : g = Frame(kind, t, a, n, c)
  OBVIOUS
<1>3. calls' = <<g>>
  BY <1>1, <1>2 DEF Push
<1>4. g.saved = Snapshot
  BY <1>2 DEF Frame
<1> QED BY <1>1, <1>3, <1>4, PushStep

LEMMA LockNativeStep ==
    ASSUME IInv,
           NEW caller \in Accounts, NEW h \in Hashlocks, NEW r \in Addresses,
           NEW n \in Amounts, NEW timeout \in Times, NEW open,
           LockNative(caller, h, r, n, timeout, open)
    PROVE  Escrow!AbsNext
<1> DEFINE rec == [initiator |-> caller, recipient |-> r, token |-> Native,
                   amount |-> n, timeout |-> timeout, status |-> "Open",
                   preimage |-> NoPreimage]
<1>1. calls = <<>> /\ calls' = <<>>
  BY Idle DEF LockNative, LockOk
<1>2. PICK S, T : S = Snapshot /\ T = Snapshot' /\ CommitStep(S, T)
  BY <1>1, IdleToIdle
<1>3. rec \in NewRecords /\ rec.timeout > now
  BY BoundsAssumption DEF LockNative, LockOk, AmountOk, RecipientOk, NewRecords,
         Amounts, Addresses, Assets
<1>4. S.swaps[h].status = "None" /\ T.swaps = [S.swaps EXCEPT ![h] = rec]
  BY <1>2 DEF Snapshot, LockNative, LockOk, Locked, Unused
<1>5. GivenIn(T) = GivenIn(S) /\ now' = now
  BY <1>2 DEF Snapshot, GivenIn, LockNative
<1> HIDE DEF rec
<1> QED BY <1>2, <1>3, <1>4, <1>5, CreateStep

LEMMA AssignStep ==
    ASSUME IInv, NEW caller \in Accounts, NEW h \in Hashlocks,
           NEW r \in Addresses, Assign(caller, h, r)
    PROVE  Escrow!AbsNext
<1>1. calls = <<>> /\ calls' = <<>>
  BY Idle DEF Assign
<1>2. PICK S, T : S = Snapshot /\ T = Snapshot' /\ CommitStep(S, T)
  BY <1>1, IdleToIdle
<1>3. /\ r \in Accounts
      /\ S.swaps[h].status = "Open" /\ S.swaps[h].recipient = Zero
      /\ now < S.swaps[h].timeout
      /\ T.swaps = [S.swaps EXCEPT ![h].recipient = r]
  BY <1>2 DEF Snapshot, Assign, IsOpen, Unassigned, Addresses
<1>4. GivenIn(T) = GivenIn(S) /\ now' = now
  BY <1>2 DEF Snapshot, GivenIn, Assign
<1> QED BY <1>2, <1>3, <1>4, FixStep

LEMMA PullReturnsStep ==
    ASSUME IInv, NEW after \in Int, PullReturns(after)
    PROVE  Escrow!AbsNext
<1>1. PICK f \in FrameType : f = Top /\ InCall(f) /\ calls' = <<>>
  BY Busy DEF PullReturns, Pop
<1>2. calls = <<f>> /\ PullFrame(f) /\ paidFor = f.saved.paidFor
  BY <1>1 DEF InCall, PullReturns
<1>3. PICK h \in Hashlocks, r \in NewRecords :
        /\ f.saved.swaps[h].status = "None"
        /\ r.timeout > now
        /\ swaps = [f.saved.swaps EXCEPT ![h] = r]
  BY <1>2 DEF PullFrame
<1>4. PICK T : T = Snapshot' /\ CommitStep(f.saved, T)
  BY <1>1, <1>2, BusyToIdle
<1>5. T.swaps = swaps /\ GivenIn(T) = GivenIn(f.saved) /\ now' = now
  BY <1>2, <1>4 DEF Snapshot, GivenIn, PullReturns, PullFrame
<1> QED BY <1>3, <1>4, <1>5, CreateStep

LEMMA LedgerEqual ==
    ASSUME NEW m \in [Assets -> [Addresses -> Int]], NEW d \in [Assets -> [Addresses -> Int]],
           \A u \in Assets : \A b \in Addresses : m[u][b] = d[u][b]
    PROVE  m = d
<1>1. ASSUME NEW u \in Assets PROVE m[u] = d[u]
  OBVIOUS
<1> QED BY <1>1

\* Gifts move with either of the two ledgers they are made of.
GiftMove(S, T, t, a, n) ==
    /\ S.paidFor \in [Assets -> [Addresses -> Int]]
    /\ S.credits \in [Assets -> [Addresses -> Int]]
    /\ \/ T.credits = S.credits /\ LedgerMove(S.paidFor, T.paidFor, t, a, n)
       \/ T.paidFor = S.paidFor /\ LedgerMove(S.credits, T.credits, t, a, n)

LEMMA GivenMoves ==
    ASSUME NEW S, NEW T, NEW t, NEW a, NEW n, GiftMove(S, T, t, a, n)
    PROVE  GivenIn(T) = Bump2(GivenIn(S), t, a, n)
<1> USE DEF GiftMove
<1>1. n \in Int /\ t \in Assets /\ a \in Addresses
  BY DEF LedgerMove
<1>2. GivenIn(S) \in [Assets -> [Addresses -> Int]]
  BY DEF GivenIn
<1>3. PICK d : d = Bump2(GivenIn(S), t, a, n)
  OBVIOUS
<1>4. /\ d \in [Assets -> [Addresses -> Int]]
      /\ \A u \in Assets, b \in Addresses :
            d[u][b] = GivenIn(S)[u][b] + (IF t = u /\ a = b THEN n ELSE 0)
  <2>1. LedgerMove(GivenIn(S), d, t, a, n)
    BY <1>1, <1>2, <1>3 DEF LedgerMove
  <2> QED BY <2>1, LedgerSum
<1>5. /\ T.paidFor \in [Assets -> [Addresses -> Int]]
      /\ T.credits \in [Assets -> [Addresses -> Int]]
      /\ \A u \in Assets, b \in Addresses :
            T.credits[u][b] + T.paidFor[u][b] =
                S.credits[u][b] + S.paidFor[u][b] + (IF t = u /\ a = b THEN n ELSE 0)
  <2>1. CASE T.credits = S.credits /\ LedgerMove(S.paidFor, T.paidFor, t, a, n)
    <3>1. /\ T.paidFor \in [Assets -> [Addresses -> Int]]
          /\ \A u \in Assets, b \in Addresses :
                T.paidFor[u][b] = S.paidFor[u][b] + (IF t = u /\ a = b THEN n ELSE 0)
      BY <2>1, LedgerSum
    <3> QED BY <1>1, <2>1, <3>1
  <2>2. CASE T.paidFor = S.paidFor /\ LedgerMove(S.credits, T.credits, t, a, n)
    <3>1. /\ T.credits \in [Assets -> [Addresses -> Int]]
          /\ \A u \in Assets, b \in Addresses :
                T.credits[u][b] = S.credits[u][b] + (IF t = u /\ a = b THEN n ELSE 0)
      BY <2>2, LedgerSum
    <3> QED BY <1>1, <2>2, <3>1
  <2> QED BY <2>1, <2>2
<1>6. GivenIn(T) \in [Assets -> [Addresses -> Int]]
  BY <1>5 DEF GivenIn
<1>7. \A u \in Assets : \A b \in Addresses : GivenIn(T)[u][b] = d[u][b]
  BY <1>4, <1>5 DEF GivenIn
<1>8. GivenIn(T) = d
  BY <1>4, <1>6, <1>7, LedgerEqual
<1> QED BY <1>3, <1>8

\* Paying and crediting are the same abstract step.
LEMMA DeliverStep ==
    ASSUME NEW f \in FrameType, InCall(f), f.kind = "deliver",
           calls' = <<>>, swaps' = swaps, now' = now,
           \/ /\ credits' = credits
              /\ paidFor' = Bump2(f.saved.paidFor, f.token, f.party, f.amount)
           \/ /\ credits' = Bump2(f.saved.credits, f.token, f.party, f.amount)
              /\ paidFor' = f.saved.paidFor
    PROVE  Escrow!AbsNext
<1>1. calls = <<f>> /\ DeliverFrame(f) /\ credits = f.saved.credits
  BY DEF InCall, DeliverFrame
<1>2. PICK h \in Hashlocks, st \in Terminal, p \in Preimages \cup {NoPreimage} :
        /\ f.saved.swaps[h].status = "Open"
        /\ MaySettle(f.saved.swaps[h], h, st, p, now)
        /\ f.token = f.saved.swaps[h].token
        /\ f.amount = f.saved.swaps[h].amount
        /\ f.party = Payee(f.saved.swaps[h], st)
        /\ swaps = [f.saved.swaps EXCEPT ![h].status = st, ![h].preimage = p]
  BY <1>1 DEF DeliverFrame
<1>3. PICK T : T = Snapshot' /\ CommitStep(f.saved, T)
  BY <1>1, BusyToIdle
<1>4. /\ f.saved \in SnapshotType
      /\ f.token \in Assets /\ f.party \in Addresses /\ f.amount \in Int
      /\ f.saved.paidFor \in [Assets -> [Addresses -> Int]]
      /\ f.saved.credits \in [Assets -> [Addresses -> Int]]
  BY BoundsAssumption DEF FrameType, SnapshotType
<1>5. GivenIn(T) = Bump2(GivenIn(f.saved), f.token, f.party, f.amount)
  <2>1. T.credits = credits' /\ T.paidFor = paidFor'
    BY <1>3 DEF Snapshot
  <2>2. CASE /\ credits' = credits
             /\ paidFor' = Bump2(f.saved.paidFor, f.token, f.party, f.amount)
    <3>1. LedgerMove(f.saved.paidFor, T.paidFor, f.token, f.party, f.amount)
      BY <1>4, <2>1, <2>2 DEF LedgerMove
    <3>2. GiftMove(f.saved, T, f.token, f.party, f.amount)
      BY <1>1, <1>4, <2>1, <2>2, <3>1 DEF GiftMove
    <3> QED BY <3>2, GivenMoves
  <2>3. CASE /\ credits' = Bump2(f.saved.credits, f.token, f.party, f.amount)
             /\ paidFor' = f.saved.paidFor
    <3>1. LedgerMove(f.saved.credits, T.credits, f.token, f.party, f.amount)
      BY <1>4, <2>1, <2>3 DEF LedgerMove
    <3>2. GiftMove(f.saved, T, f.token, f.party, f.amount)
      BY <1>4, <2>1, <2>3, <3>1 DEF GiftMove
    <3> QED BY <3>2, GivenMoves
  <2> QED BY <2>2, <2>3
<1>6. T.swaps = [f.saved.swaps EXCEPT ![h].status = st, ![h].preimage = p]
  BY <1>2, <1>3 DEF Snapshot
<1>7. GivenIn(T) = Bump2(GivenIn(f.saved), f.saved.swaps[h].token,
                         Payee(f.saved.swaps[h], st), f.saved.swaps[h].amount)
  BY <1>2, <1>5
<1>8. SettleCommit(f.saved, T, h, st, p)
  BY <1>2, <1>4, <1>6, <1>7 DEF SettleCommit
<1> QED BY <1>2, <1>3, <1>8, SettleStep

LEMMA DeliverReturnsStep ==
    ASSUME IInv, NEW after \in Int, DeliverReturns(after)
    PROVE  Escrow!AbsNext
<1>1. PICK f \in FrameType : f = Top
  BY Busy DEF DeliverReturns
<1>2. /\ InCall(f) /\ calls' = <<>> /\ swaps' = swaps /\ credits' = credits /\ now' = now
      /\ paidFor' = Bump2(f.saved.paidFor, f.token, f.party, f.amount)
      /\ f.kind = "deliver"
  BY <1>1, PaidEffect DEF DeliverReturns
<1> QED BY <1>2, DeliverStep

LEMMA DeliverFailsStep ==
    ASSUME IInv, DeliverFails
    PROVE  Escrow!AbsNext
<1>1. PICK f \in FrameType : f = Top /\ InCall(f) /\ Tail(calls) = <<>>
  BY Busy DEF DeliverFails
<1>2. DeliverFrame(f) /\ f.kind = "deliver" /\ f.saved \in SnapshotType
  BY <1>1 DEF InCall, DeliverFails, FrameType
<1>3. f.child.swaps = swaps /\ f.child.credits = f.saved.credits
      /\ f.child.paidFor = f.saved.paidFor
  BY <1>2 DEF DeliverFrame, SnapshotType
<1>4. /\ calls' = <<>> /\ swaps' = swaps /\ now' = now
      /\ credits' = Bump2(f.saved.credits, f.token, f.party, f.amount)
      /\ paidFor' = f.saved.paidFor
  BY <1>1, <1>3 DEF DeliverFails, Pop
<1> QED BY <1>1, <1>2, <1>4, DeliverStep

\* Withdrawing a credit moves it from credited to paid.
LEMMA StrictReturnsStep ==
    ASSUME IInv, NEW after \in Int, StrictReturns(after)
    PROVE  UNCHANGED Escrow!absVars
<1>1. PICK f \in FrameType : f = Top
  BY Busy DEF StrictReturns
<1>2. /\ InCall(f) /\ calls' = <<>> /\ swaps' = swaps /\ credits' = credits /\ now' = now
      /\ paidFor' = Bump2(f.saved.paidFor, f.token, f.party, f.amount)
      /\ f.kind = "strict"
  BY <1>1, PaidEffect DEF StrictReturns
<1>3. /\ calls = <<f>> /\ swaps = f.saved.swaps
      /\ credits = Bump2(f.saved.credits, f.token, f.party, 0 - f.amount)
  BY <1>2 DEF InCall, StrictFrame
<1>4. PICK T : T = Snapshot' /\ CommitStep(f.saved, T)
  BY <1>2, <1>3, BusyToIdle
<1>5. /\ f.token \in Assets /\ f.party \in Addresses /\ f.amount \in Int
      /\ f.saved.paidFor \in [Assets -> [Addresses -> Int]]
      /\ f.saved.credits \in [Assets -> [Addresses -> Int]]
  BY BoundsAssumption DEF FrameType, SnapshotType
<1>6. T.swaps = f.saved.swaps /\ T.credits = credits' /\ T.paidFor = paidFor'
  BY <1>2, <1>3, <1>4 DEF Snapshot
<1>7. GivenIn(T) = GivenIn(f.saved)
  <2>9. LedgerMove(f.saved.paidFor, T.paidFor, f.token, f.party, f.amount)
    BY <1>2, <1>5, <1>6 DEF LedgerMove
  <2>1. LedgerMove(f.saved.credits, T.credits, f.token, f.party, 0 - f.amount)
    <3>1. T.credits = Bump2(f.saved.credits, f.token, f.party, 0 - f.amount)
      BY <1>2, <1>3, <1>6
    <3>2. 0 - f.amount \in Int
      BY <1>5
    <3> QED BY <1>5, <3>1, <3>2 DEF LedgerMove
  <2>2. /\ T.paidFor \in [Assets -> [Addresses -> Int]]
        /\ \A u \in Assets, b \in Addresses : T.paidFor[u][b] = f.saved.paidFor[u][b] +
                (IF f.token = u /\ f.party = b THEN f.amount ELSE 0)
    BY <2>9, LedgerSum
  <2>3. /\ T.credits \in [Assets -> [Addresses -> Int]]
        /\ \A u \in Assets, b \in Addresses : T.credits[u][b] = f.saved.credits[u][b] +
                (IF f.token = u /\ f.party = b THEN 0 - f.amount ELSE 0)
    BY <2>1, LedgerSum
  <2>4. \A u \in Assets : \A b \in Addresses :
            T.credits[u][b] + T.paidFor[u][b] = f.saved.credits[u][b] + f.saved.paidFor[u][b]
    <3>1. ASSUME NEW u \in Assets, NEW b \in Addresses
          PROVE  T.credits[u][b] + T.paidFor[u][b] =
                    f.saved.credits[u][b] + f.saved.paidFor[u][b]
      <4>1. f.saved.credits[u][b] \in Int /\ f.saved.paidFor[u][b] \in Int
        BY <1>5
      <4>2. T.paidFor[u][b] = f.saved.paidFor[u][b] +
                (IF f.token = u /\ f.party = b THEN f.amount ELSE 0)
        BY <2>2
      <4>3. T.credits[u][b] = f.saved.credits[u][b] +
                (IF f.token = u /\ f.party = b THEN 0 - f.amount ELSE 0)
        BY <2>3
      <4>4. f.amount \in Int
        BY <1>5
      <4> QED BY <4>1, <4>2, <4>3, <4>4
    <3> QED BY <3>1
  <2> QED BY <2>4 DEF GivenIn
<1> QED BY <1>2, <1>4, <1>6, <1>7, HiddenStep

LEMMA RevertsStep ==
    ASSUME IInv, Reverts
    PROVE  UNCHANGED Escrow!absVars
<1>1. PICK f \in FrameType : f = Top /\ InCall(f) /\ Tail(calls) = <<>>
  BY Busy DEF Reverts
<1>2. calls = <<f>> /\ calls' = <<>> /\ now' = now
  BY <1>1 DEF InCall, Reverts, Pop
<1>3. PICK T : T = Snapshot' /\ CommitStep(f.saved, T)
  BY <1>2, BusyToIdle
<1>4. T.swaps = f.saved.swaps /\ T.credits = f.saved.credits /\ T.paidFor = f.saved.paidFor
  BY <1>1, <1>3 DEF Snapshot, Reverts, Restore
<1>5. GivenIn(T) = GivenIn(f.saved)
  BY <1>4 DEF GivenIn
<1> QED BY <1>2, <1>3, <1>4, <1>5, HiddenStep

LEMMA DonateStep ==
    ASSUME IInv, NEW t \in Assets, Donate(t)
    PROVE  UNCHANGED Escrow!absVars
<1>1. CASE calls = <<>>
  <2>1. calls' = <<>> /\ now' = now
    BY <1>1 DEF Donate
  <2>2. PICK S, T : S = Snapshot /\ T = Snapshot' /\ CommitStep(S, T)
    BY <1>1, <2>1, IdleToIdle
  <2>3. T.swaps = S.swaps /\ GivenIn(T) = GivenIn(S)
    BY <2>2 DEF Snapshot, Donate, GivenIn
  <2> QED BY <2>1, <2>2, <2>3, HiddenStep
<1>2. CASE calls # <<>>
  <2>1. PICK f \in FrameType : InCall(f)
    BY <1>2, Busy
  <2>2. calls = <<f>> /\ calls' = <<f>> /\ now' = now
    BY <2>1 DEF InCall, Donate
  <2>3. CommitStep(f.saved, f.saved)
    BY <2>2 DEF CommitStep, Committed, CommittedGiven, GivenIn
  <2> QED BY <2>2, <2>3, HiddenStep
<1> QED BY <1>1, <1>2

LEMMA TickStep ==
    ASSUME IInv, Tick
    PROVE  Escrow!AbsNext
<1>1. calls = <<>> /\ calls' = <<>>
  BY DEF Tick
<1>2. PICK S, T : S = Snapshot /\ T = Snapshot' /\ CommitStep(S, T)
  BY <1>1, IdleToIdle
<1>3. T = S /\ now' = now + 1
  BY <1>2 DEF Snapshot, Tick, contractVars
<1>4. Escrow!Advance
  BY <1>2, <1>3 DEF CommitStep, Escrow!Advance
<1> QED BY <1>4 DEF Escrow!AbsNext

-----------------------------------------------------------------------------

LEMMA InitAbs == Init => Escrow!AbsInit
<1> SUFFICES ASSUME Init PROVE Escrow!AbsInit
  OBVIOUS
<1>1. Committed = Snapshot /\ CommittedGiven = GivenIn(Snapshot)
  BY CommittedIdle DEF Init
<1> QED BY <1>1 DEF Init, Escrow!AbsInit, Snapshot, GivenIn

LEMMA NextAbs ==
    ASSUME IInv, [Next]_vars
    PROVE  [Escrow!AbsNext]_Escrow!absVars
<1>1. CASE Lock
  <2>1. PICK h \in Hashlocks, caller \in Accounts, n \in Amounts, timeout \in Times :
          \/ \E r \in Addresses : LockNative(caller, h, r, n, timeout, FALSE)
          \/ \E r \in Addresses, t \in Tokens : LockToken(caller, h, r, t, n, timeout, FALSE)
          \/ LockNative(caller, h, Zero, n, timeout, TRUE)
          \/ \E t \in Tokens : LockToken(caller, h, Zero, t, n, timeout, TRUE)
    BY <1>1 DEF Lock
  <2>2. Zero \in Addresses
    BY DEF Addresses
  <2>3. ASSUME NEW r \in Addresses, NEW open, LockNative(caller, h, r, n, timeout, open)
        PROVE  Escrow!AbsNext
    BY <2>3, LockNativeStep
  <2>4. ASSUME NEW r \in Addresses, NEW open, NEW t \in Tokens,
               LockToken(caller, h, r, t, n, timeout, open)
        PROVE  UNCHANGED Escrow!absVars
    BY <2>4, FrameSaved DEF LockToken, LockOk
  <2> QED BY <2>1, <2>2, <2>3, <2>4
<1>2. CASE \E h \in Hashlocks, caller \in Accounts, r \in Addresses : Assign(caller, h, r)
  BY <1>2, AssignStep
<1>3. CASE SettleSwap
  <2>1. PICK h, st, p : NotEntered /\ Settle(h, st, p)
    BY <1>3 DEF SettleSwap, Refund, Claim, Release
  <2> QED BY <2>1, FrameSaved DEF Settle
<1>4. CASE MoveCredit
  <2>1. PICK a, t, n : NotEntered /\ TakeCredit(a, t, n)
    BY <1>4 DEF MoveCredit, PushCredit, Withdraw
  <2> QED BY <2>1, FrameSaved DEF TakeCredit
<1>5. CASE CallEnds
  <2>1. ASSUME NEW after \in Afters PROVE after \in Int
    <3>1. CASE calls = <<>>
      BY <2>1, <3>1 DEF Afters
    <3>2. CASE calls # <<>>
      <4>1. balance[Top.token] \in Int
        BY <3>2, Busy DEF IInv, TypeOK, FrameType
      <4> QED BY <2>1, <3>2, <4>1, BoundsAssumption DEF Afters
    <3> QED BY <3>1, <3>2
  <2>2. CASE DeliverFails BY <2>2, DeliverFailsStep
  <2>3. CASE Reverts BY <2>3, RevertsStep
  <2>4. ASSUME NEW after \in Afters, PullReturns(after) PROVE Escrow!AbsNext
    BY <2>1, <2>4, PullReturnsStep
  <2>5. ASSUME NEW after \in Afters, DeliverReturns(after) PROVE Escrow!AbsNext
    BY <2>1, <2>5, DeliverReturnsStep
  <2>6. ASSUME NEW after \in Afters, StrictReturns(after) PROVE UNCHANGED Escrow!absVars
    BY <2>1, <2>6, StrictReturnsStep
  <2> QED BY <1>5, <2>2, <2>3, <2>4, <2>5, <2>6 DEF CallEnds
<1>6. CASE \E t \in Assets : Donate(t) BY <1>6, DonateStep
<1>7. CASE Tick BY <1>7, TickStep
<1>8. CASE UNCHANGED vars
  BY <1>8 DEF vars, Escrow!absVars, Committed, CommittedGiven, Snapshot
<1> QED BY <1>1, <1>2, <1>3, <1>4, <1>5, <1>6, <1>7, <1>8 DEF Next

\* Every behaviour of HTLCv3, seen at transaction boundaries, is a behaviour
\* of AtomicEscrow.
THEOREM Implements == Spec => EscrowSpec
<1>1. Init => Escrow!AbsInit
  BY InitAbs
<1>2. IInv /\ [Next]_vars => [Escrow!AbsNext]_Escrow!absVars
  BY NextAbs
<1> QED BY <1>1, <1>2, Inductive, PTL DEF Spec, EscrowSpec, Escrow!AbsSpec

=============================================================================
