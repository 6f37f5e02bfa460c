--------------------------- MODULE OrderBookProofs ---------------------------
(***************************************************************************)
(* What a mirror's row of the order book says of the documents it took, for *)
(* any number of mirrors, variants and proposals and any windows.           *)
(*                                                                          *)
(* The invariant is about one row and what it heard: RowInv(r, h).  It is   *)
(* kept by a sweep, by every document, and by the clock and the signers,    *)
(* and the actions are made of those.                                       *)
(***************************************************************************)
EXTENDS OrderBook, FiniteSetTheorems, TLAPS

-----------------------------------------------------------------------------
(* Types.                                                                  *)

Typed ==
    /\ now \in Nat
    /\ row \in [Mirrors -> Row \cup {Null}]
    /\ offer \in [Mirrors -> SUBSET Documents]
    /\ intentDoc \in [Intents -> Proposal \cup {Null}]
    /\ fillDoc \in [Intents -> Nat \cup {Null}]
    /\ \A i \in Intents : fillDoc[i] # Null => intentDoc[i] # Null
    /\ cancelDoc \in [Variants -> {"signed", Null}]
    /\ heard \in [Mirrors -> SUBSET Documents]

-----------------------------------------------------------------------------
(* A row r of signed terms, and the documents h it has accepted.           *)

Terminal(d) == d.kind \in {"fill-v2", "cancel-v2"}

\* A row has one terminal document of its own at most.
Own(r, d) == \/ r.fill # Null /\ d = FillOf(r.fill)
             \/ r.cancelProof # Null /\ d = CancelOf(r.cancelProof)

HeardHolds(r, h) ==
    /\ IsFiniteSet(h)
    /\ \A d \in h : Signed(d)
    /\ OrderOf(r.primary) \in h
    /\ r.fill # Null => FillOf(r.fill) \in h
    /\ r.cancelProof # Null => CancelOf(r.cancelProof) \in h
    /\ r.fill = Null \/ r.cancelProof = Null

\* What contradicts the row's own documents makes it equivocated, and nothing
\* else does.
VerdictHolds(r, h) ==
    /\ \A d \in h : Terminal(d) => r.fill # Null \/ r.cancelProof # Null
    /\ \A d \in h : Terminal(d) => Own(r, d) \/ r.equivocated
    /\ \A d \in h : d.kind = "order-v2" => d = OrderOf(r.primary) \/ r.equivocated
    /\ r.equivocated =>
          \/ \E d \in h : d.kind = "order-v2" /\ d # OrderOf(r.primary)
          \/ \E d \in h : Terminal(d) /\ ~Own(r, d)

\* The contradicting documents that are kept.
ProofsHold(r, h) ==
    /\ \A d \in ToSet(r.conflicts) : d \in h /\ Terminal(d) /\ ~Own(r, d)
    /\ \A v \in ToSet(r.orderConflicts) : OrderOf(v) \in h /\ v # r.primary
    /\ Len(r.conflicts) <= MaxConflicts /\ IsInjective(r.conflicts)
    /\ Len(r.orderConflicts) <= MaxConflicts /\ IsInjective(r.orderConflicts)

\* A release that was taken marks its proposal for as long as it is retained.
ReleaseHolds(r, h) ==
    /\ r.releasedIntents \subseteq r.fillIntents
    /\ \A i \in r.releasedIntents : ReleaseOf(i) \in h
    /\ \A i \in Intents : ReleaseOf(i) \in h =>
          i \in r.releasedIntents \/ (r.fill = i /\ r.released) \/ ~Retained(i)
    /\ \A i \in Intents :
          r.fill = i /\ r.direct /\ ReleaseOf(i) \in h => r.released

\* What the row says of its fill.
TermsHold(r) ==
    /\ \A i \in r.fillIntents : intentDoc[i] # Null /\ verifyFillIntent(i, r.primary, TRUE)
    /\ r.fill # Null => LET v == intentDoc[r.fill].v
                        IN  /\ verifyFillIntent(r.fill, v, TRUE)
                            /\ verifyFill(r.fill, v, TRUE)
                            /\ r.t1 = initiatorTimeout(r.fill)
    /\ r.fill = Null => r.t1 = PrelockT1[r.primary]
    /\ StatusLoads(r)

RowInv(r, h) ==
    HeardHolds(r, h) /\ VerdictHolds(r, h) /\ ProofsHold(r, h)
    /\ ReleaseHolds(r, h) /\ TermsHold(r)

BookInv ==
    \A m \in Mirrors :
        usesPortableTerminalProtocol(row[m]) => RowInv(row[m], heard[m])

\* A fill that was announced is still on the row, or some fill's time is over.
Passed == \E j \in Intents : fillDoc[j] # Null /\ now > initiatorTimeout(j) + Linger

FilledInv ==
    \A m \in Mirrors, i \in Intents :
        FillOf(i) \in offer[m] /\ (\A v \in Variants : cancelDoc[v] = Null) =>
            \/ Passed
            \/ usesPortableTerminalProtocol(row[m]) /\ row[m].fill # Null

-----------------------------------------------------------------------------
(* Documents, sets and sequences.                                          *)

LEMMA DocFields ==
    \A x : /\ OrderOf(x).kind = "order-v2" /\ OrderOf(x).of = x
           /\ IntentOf(x).kind = "fill-intent-v2" /\ IntentOf(x).of = x
           /\ FillOf(x).kind = "fill-v2" /\ FillOf(x).of = x
           /\ CancelOf(x).kind = "cancel-v2" /\ CancelOf(x).of = x
           /\ ReleaseOf(x).kind = "release-v2" /\ ReleaseOf(x).of = x
           /\ FillReleaseOf(x).kind = "release-v2-fill" /\ FillReleaseOf(x).of = x
BY DEF OrderOf, IntentOf, FillOf, CancelOf, ReleaseOf, FillReleaseOf

LEMMA DocSorts ==
    ASSUME NEW d \in Documents
    PROVE  \/ \E v \in Variants : d = OrderOf(v)
           \/ \E v \in Variants : d = CancelOf(v)
           \/ \E i \in Intents : d = IntentOf(i)
           \/ \E i \in Intents : d = FillOf(i)
           \/ \E i \in Intents : d = ReleaseOf(i)
           \/ \E i \in Intents : d = FillReleaseOf(i)
BY DEF Documents

LEMMA DocTypes ==
    /\ \A v \in Variants : OrderOf(v) \in Documents /\ CancelOf(v) \in Documents
    /\ \A i \in Intents : /\ IntentOf(i) \in Documents /\ FillOf(i) \in Documents
                          /\ ReleaseOf(i) \in Documents /\ FillReleaseOf(i) \in Documents
BY DEF Documents

\* What becomes part of `heard`.
LEMMA WeighedDocs ==
    /\ \A v \in Variants : OrderOf(v) \in Weighed /\ CancelOf(v) \in Weighed
    /\ \A i \in Intents : /\ FillOf(i) \in Weighed /\ ReleaseOf(i) \in Weighed
                          /\ IntentOf(i) \notin Weighed /\ FillReleaseOf(i) \notin Weighed
BY DocFields, DocTypes DEF Weighed

LEMMA TwoOrMore ==
    ASSUME NEW S, IsFiniteSet(S)
    PROVE  Cardinality(S) > 1 <=> \E a, b \in S : a # b
<1>1. Cardinality(S) \in Nat
  BY FS_CardinalityType
<1>2. ASSUME Cardinality(S) > 1
      PROVE  \E a, b \in S : a # b
  <2>1. S # {}
    BY <1>2, FS_EmptySet
  <2>2. PICK a \in S : TRUE
    BY <2>1
  <2>3. S # {a}
    BY <1>2, FS_Singleton
  <2>. QED  BY <2>2, <2>3
<1>3. ASSUME NEW a \in S, NEW b \in S, a # b
      PROVE  Cardinality(S) > 1
  <2>1. Cardinality(S) # 0
    BY <1>3, FS_EmptySet
  <2>2. Cardinality(S) # 1
    BY <1>3, FS_Singleton
  <2>. QED  BY <1>1, <2>1, <2>2
<1>. QED  BY <1>2, <1>3

\* The kept proofs are distinct and bounded, and the new one is among them.
LEMMA RememberedHolds ==
    ASSUME NEW S, NEW s \in Seq(S), NEW x \in S, x \notin ToSet(s),
           Len(s) <= MaxConflicts, IsInjective(s)
    PROVE  /\ Remembered(s, x) \in Seq(S)
           /\ ToSet(Remembered(s, x)) \subseteq ToSet(s) \cup {x}
           /\ Len(Remembered(s, x)) <= MaxConflicts
           /\ IsInjective(Remembered(s, x))
<1>0. MaxConflicts \in Nat /\ MaxConflicts > 0
  BY BookAssumption
<1>1. \A k \in 1 .. Len(s) : s[k] # x
  BY DEF ToSet
<1>2. \A j, k \in 1 .. Len(s) : s[j] = s[k] => j = k
  BY DEF IsInjective
<1>3. CASE Len(s) < MaxConflicts
  <2>. DEFINE q == Append(s, x)
  <2>1. q \in Seq(S) /\ Len(q) = Len(s) + 1 /\ DOMAIN q = 1 .. Len(s) + 1
    OBVIOUS
  <2>2. \A k \in 1 .. Len(s) + 1 : q[k] = IF k <= Len(s) THEN s[k] ELSE x
    OBVIOUS
  <2>. HIDE DEF q
  <2>3. IsInjective(q)
    BY <1>1, <1>2, <2>1, <2>2 DEF IsInjective
  <2>4. ToSet(q) \subseteq ToSet(s) \cup {x}
    BY <2>1, <2>2 DEF ToSet
  <2>. QED  BY <1>0, <1>3, <2>1, <2>3, <2>4 DEF Remembered, q
<1>4. CASE ~(Len(s) < MaxConflicts)
  <2>0. Len(s) = MaxConflicts /\ Len(s) >= 1 /\ Len(s) \in Nat
    BY <1>0, <1>4
  <2>. DEFINE t == Tail(s)
              q == Append(t, x)
  <2>1. /\ t \in Seq(S) /\ Len(t) = Len(s) - 1
        /\ \A k \in 1 .. Len(s) - 1 : t[k] = s[k + 1]
    BY <2>0
  <2>. HIDE DEF t
  <2>2. q \in Seq(S) /\ Len(q) = Len(s) /\ DOMAIN q = 1 .. Len(s)
    BY <2>0, <2>1
  <2>3. \A k \in 1 .. Len(s) : q[k] = IF k <= Len(s) - 1 THEN s[k + 1] ELSE x
    BY <2>0, <2>1
  <2>. HIDE DEF q
  <2>4. IsInjective(q)
    <3>1. SUFFICES ASSUME NEW j \in 1 .. Len(s), NEW k \in 1 .. Len(s), q[j] = q[k]
                   PROVE  j = k
      BY <2>2 DEF IsInjective
    <3>2. \A l \in 1 .. Len(s) : l <= Len(s) - 1 => l + 1 \in 1 .. Len(s)
      BY <2>0
    <3>3. CASE j <= Len(s) - 1 /\ k <= Len(s) - 1
      <4>1. s[j + 1] = s[k + 1]
        BY <2>3, <3>1, <3>3
      <4>2. j + 1 = k + 1
        BY <1>2, <3>2, <3>3, <4>1
      <4>. QED  BY <4>2
    <3>4. CASE j <= Len(s) - 1 /\ ~(k <= Len(s) - 1)
      BY <1>1, <2>3, <3>1, <3>2, <3>4
    <3>5. CASE ~(j <= Len(s) - 1) /\ k <= Len(s) - 1
      BY <1>1, <2>3, <3>1, <3>2, <3>5
    <3>6. CASE ~(j <= Len(s) - 1) /\ ~(k <= Len(s) - 1)
      BY <2>0, <3>6
    <3>. QED  BY <3>3, <3>4, <3>5, <3>6
  <2>5. ToSet(q) \subseteq ToSet(s) \cup {x}
    <3>1. SUFFICES ASSUME NEW k \in 1 .. Len(s) PROVE q[k] \in ToSet(s) \cup {x}
      BY <2>2 DEF ToSet
    <3>2. CASE k <= Len(s) - 1
      <4>1. k + 1 \in DOMAIN s /\ q[k] = s[k + 1]
        BY <2>0, <2>3, <3>2
      <4>. QED  BY <4>1 DEF ToSet
    <3>3. CASE ~(k <= Len(s) - 1)
      BY <2>3, <3>3
    <3>. QED  BY <3>2, <3>3
  <2>6. Remembered(s, x) = q
    BY <1>4 DEF Remembered, q, t
  <2>. QED  BY <2>0, <2>2, <2>4, <2>5, <2>6
<1>. QED  BY <1>3, <1>4

-----------------------------------------------------------------------------
(* Signed terms.                                                           *)

LEMMA SignedTerms ==
    ASSUME Typed, NEW i \in Intents
    PROVE  /\ intentDoc[i] # Null => /\ intentDoc[i].v \in Variants /\ intentDoc[i].at \in Nat
                                     /\ expiresAt(i) \in Nat
           /\ fillDoc[i] # Null => /\ intentDoc[i] # Null /\ fillDoc[i] \in Nat
                                   /\ initiatorTimeout(i) \in Nat /\ respondBy(i) \in Nat
<1>1. ASSUME intentDoc[i] # Null
      PROVE  /\ intentDoc[i].v \in Variants /\ intentDoc[i].at \in Nat
             /\ expiresAt(i) \in Nat
  BY <1>1, BookAssumption DEF Typed, Proposal, expiresAt
<1>2. ASSUME fillDoc[i] # Null
      PROVE  /\ intentDoc[i] # Null /\ fillDoc[i] \in Nat
             /\ initiatorTimeout(i) \in Nat /\ respondBy(i) \in Nat
  <2>1. intentDoc[i] # Null /\ fillDoc[i] \in Nat
    BY <1>2 DEF Typed
  <2>2. PrelockT1[intentDoc[i].v] \in Nat \cup {Null}
    BY <1>1, <2>1, BookAssumption
  <2>3. fillDoc[i] + InitiatorWindow \in Nat /\ fillDoc[i] + Response \in Nat
    BY <2>1, BookAssumption
  <2>. QED  BY <2>1, <2>2, <2>3 DEF initiatorTimeout, respondBy
<1>. QED  BY <1>1, <1>2

\* A document that is signed names something that was signed.
LEMMA SignedDocs ==
    /\ \A v \in Variants : Signed(OrderOf(v))
    /\ \A v \in Variants : Signed(CancelOf(v)) <=> cancelDoc[v] # Null
    /\ \A i \in Intents : /\ Signed(FillOf(i)) <=> fillDoc[i] # Null
                          /\ Signed(FillReleaseOf(i)) <=> fillDoc[i] # Null
                          /\ Signed(IntentOf(i)) <=> intentDoc[i] # Null
                          /\ Signed(ReleaseOf(i)) <=> intentDoc[i] # Null
BY DocFields DEF Signed

-----------------------------------------------------------------------------
(* What a document does to a row.                                          *)

\* The row after another variant of the order, a cancellation and a release.
Contested(r, v) ==
    [r EXCEPT !.orderConflicts = Remembered(@, v), !.equivocated = TRUE,
              !.status = IF @ \in {"open", "accepted"} THEN "cancelled" ELSE @,
              !.updatedAt = now]

Cancelled(r, v) ==
    [r EXCEPT !.cancelProof = v, !.status = "cancelled", !.updatedAt = now]

Released(r, i) ==
    [r EXCEPT !.releasedIntents = @ \cup ({i} \cap r.fillIntents),
              !.released = @ \/ r.fill = i, !.updatedAt = now]

\* A document that the row has heard of changes nothing.
LEMMA HeardAgain ==
    ASSUME NEW h, NEW d, d \in h \/ d \notin Weighed
    PROVE  h \cup ({d} \cap Weighed) = h
OBVIOUS

LEMMA HeardMore ==
    ASSUME NEW r, NEW h, NEW d, HeardHolds(r, h), Signed(d)
    PROVE  HeardHolds(r, h \cup {d})
<1>1. IsFiniteSet(h \cup {d})
  BY FS_AddElement DEF HeardHolds
<1>. QED  BY <1>1 DEF HeardHolds

LEMMA RememberedType ==
    ASSUME NEW S, NEW s \in Seq(S), NEW x \in S
    PROVE  Remembered(s, x) \in Seq(S)
<1>0. MaxConflicts \in Nat /\ MaxConflicts > 0
  BY BookAssumption
<1>1. CASE Len(s) < MaxConflicts
  BY <1>1 DEF Remembered
<1>2. CASE ~(Len(s) < MaxConflicts)
  <2>1. Len(s) >= 1
    BY <1>0, <1>2
  <2>2. Tail(s) \in Seq(S)
    BY <2>1
  <2>. QED  BY <1>2, <2>2 DEF Remembered
<1>. QED  BY <1>1, <1>2

LEMMA ContestedType ==
    ASSUME Typed, NEW r \in Row, NEW v \in Variants
    PROVE  Contested(r, v) \in Row /\ Contested(r, v).primary = r.primary
<1>1. r.orderConflicts \in Seq(Variants) /\ now \in Nat
  BY DEF Row, Typed
<1>2. Remembered(r.orderConflicts, v) \in Seq(Variants)
  BY <1>1, RememberedType
<1>3. Contested(r, v) \in Row
  BY <1>1, <1>2, ZenonT(60) DEF Row, Contested
<1>4. Contested(r, v).primary = r.primary
  BY DEF Row, Contested
<1>. QED  BY <1>3, <1>4

\* A second variant of the order.
LEMMA OrderConflicts ==
    ASSUME Typed, NEW r \in Row, r.primary # Null, NEW h \in SUBSET Documents,
           RowInv(r, h), NEW v \in Variants, v # r.primary,
           v \notin ToSet(r.orderConflicts)
    PROVE  Contested(r, v) \in Row /\ RowInv(Contested(r, v), h \cup {OrderOf(v)})
<1>. DEFINE q == Contested(r, v)
<1>0. HeardHolds(r, h) /\ VerdictHolds(r, h) /\ ProofsHold(r, h) /\ ReleaseHolds(r, h)
      /\ TermsHold(r)
  BY DEF RowInv
<1>1. r.orderConflicts \in Seq(Variants) /\ now \in Nat
  BY DEF Row, Typed
<1>2. /\ Remembered(r.orderConflicts, v) \in Seq(Variants)
      /\ ToSet(Remembered(r.orderConflicts, v)) \subseteq ToSet(r.orderConflicts) \cup {v}
      /\ Len(Remembered(r.orderConflicts, v)) <= MaxConflicts
      /\ IsInjective(Remembered(r.orderConflicts, v))
  BY <1>0, <1>1, RememberedHolds DEF ProofsHold
<1>3. q \in Row
  BY <1>1, <1>2, ZenonT(60) DEF Row, Contested
<1>4. /\ q.orderConflicts = Remembered(r.orderConflicts, v) /\ q.equivocated = TRUE
      /\ q.status = IF r.status \in {"open", "accepted"} THEN "cancelled" ELSE r.status
      /\ q.primary = r.primary /\ q.fillIntents = r.fillIntents
      /\ q.releasedIntents = r.releasedIntents /\ q.fill = r.fill /\ q.direct = r.direct
      /\ q.cancelProof = r.cancelProof /\ q.conflicts = r.conflicts
      /\ q.released = r.released /\ q.t1 = r.t1
  BY DEF Row, Contested
<1>. HIDE DEF q
<1>. DEFINE k == h \cup {OrderOf(v)}
<1>5. HeardHolds(q, k)
  <2>1. HeardHolds(r, k)
    BY <1>0, HeardMore, SignedDocs
  <2>. QED  BY <1>4, <2>1 DEF HeardHolds
<1>6. VerdictHolds(q, k)
  <2>1. OrderOf(v).kind = "order-v2" /\ OrderOf(v) # OrderOf(r.primary) /\ ~Terminal(OrderOf(v))
    BY DocFields DEF Terminal
  <2>. QED  BY <1>0, <1>4, <2>1 DEF VerdictHolds, Own
<1>7. ProofsHold(q, k)
  BY <1>0, <1>2, <1>4 DEF ProofsHold, Own
<1>8. ReleaseHolds(q, k)
  <2>1. \A i : ReleaseOf(i) # OrderOf(v)
    BY DocFields
  <2>. QED  BY <1>0, <1>4, <2>1 DEF ReleaseHolds
<1>9. TermsHold(q)
  BY <1>0, <1>4 DEF TermsHold, StatusLoads
<1>. QED  BY <1>3, <1>5, <1>6, <1>7, <1>8, <1>9 DEF RowInv, q

\* A proposal.
LEMMA IntentTaken ==
    ASSUME Typed, NEW r \in Row, r.primary # Null, NEW h \in SUBSET Documents,
           RowInv(r, h), NEW i \in Intents, intentDoc[i] # Null,
           verifyFillIntent(i, r.primary, TRUE),
           NEW q, q = [r EXCEPT !.fillIntents = @ \cup {i}, !.updatedAt = now]
    PROVE  q \in Row /\ RowInv(q, h)
<1>0. HeardHolds(r, h) /\ VerdictHolds(r, h) /\ ProofsHold(r, h) /\ ReleaseHolds(r, h)
      /\ TermsHold(r)
  BY DEF RowInv
<1>1. q \in Row
  BY DEF Row, Typed
<1>2. /\ q.orderConflicts = r.orderConflicts /\ q.equivocated = r.equivocated
      /\ q.status = r.status
      /\ q.primary = r.primary /\ q.fillIntents = r.fillIntents \cup {i}
      /\ q.releasedIntents = r.releasedIntents /\ q.fill = r.fill /\ q.direct = r.direct
      /\ q.cancelProof = r.cancelProof /\ q.conflicts = r.conflicts
      /\ q.released = r.released /\ q.t1 = r.t1
  BY DEF Row
<1>3. HeardHolds(q, h) /\ VerdictHolds(q, h) /\ ProofsHold(q, h)
  BY <1>0, <1>2 DEF HeardHolds, VerdictHolds, ProofsHold, Own
<1>4. ReleaseHolds(q, h)
  BY <1>0, <1>2 DEF ReleaseHolds
<1>5. TermsHold(q)
  BY <1>0, <1>2 DEF TermsHold, StatusLoads
<1>. QED  BY <1>1, <1>3, <1>4, <1>5 DEF RowInv

\* A terminal document other than the row's own.
LEMMA TerminalConflicts ==
    ASSUME Typed, NEW r \in Row, r.primary # Null, NEW h \in SUBSET Documents,
           RowInv(r, h), NEW d \in Documents, Terminal(d), Signed(d), ~Own(r, d),
           r.fill # Null \/ r.cancelProof # Null
    PROVE  /\ rememberTerminalConflict(r, d) \in Row
           /\ RowInv(rememberTerminalConflict(r, d), h \cup {d})
<1>0. HeardHolds(r, h) /\ VerdictHolds(r, h) /\ ProofsHold(r, h) /\ ReleaseHolds(r, h)
      /\ TermsHold(r)
  BY DEF RowInv
<1>1. CASE d \in ToSet(r.conflicts)
  <2>1. h \cup {d} = h
    BY <1>0, <1>1 DEF ProofsHold
  <2>2. rememberTerminalConflict(r, d) = r
    BY <1>1 DEF rememberTerminalConflict
  <2>. QED  BY <2>1, <2>2
<1>2. CASE d \notin ToSet(r.conflicts)
  <2>. DEFINE q == [r EXCEPT !.conflicts = Remembered(@, d), !.equivocated = TRUE,
                             !.updatedAt = now]
  <2>1. r.conflicts \in Seq(Documents) /\ now \in Nat
    BY DEF Row, Typed
  <2>2. /\ Remembered(r.conflicts, d) \in Seq(Documents)
        /\ ToSet(Remembered(r.conflicts, d)) \subseteq ToSet(r.conflicts) \cup {d}
        /\ Len(Remembered(r.conflicts, d)) <= MaxConflicts
        /\ IsInjective(Remembered(r.conflicts, d))
    BY <1>0, <1>2, <2>1, RememberedHolds DEF ProofsHold
  <2>3. q \in Row
    BY <2>1, <2>2 DEF Row
  <2>4. /\ q.orderConflicts = r.orderConflicts /\ q.equivocated = TRUE
        /\ q.status = r.status
        /\ q.primary = r.primary /\ q.fillIntents = r.fillIntents
        /\ q.releasedIntents = r.releasedIntents /\ q.fill = r.fill /\ q.direct = r.direct
        /\ q.cancelProof = r.cancelProof /\ q.conflicts = Remembered(r.conflicts, d)
        /\ q.released = r.released /\ q.t1 = r.t1
    BY DEF Row
  <2>5. rememberTerminalConflict(r, d) = q
    BY <1>2 DEF rememberTerminalConflict
  <2>. HIDE DEF q
  <2>6. HeardHolds(q, h \cup {d})
    <3>1. HeardHolds(r, h \cup {d})
      BY <1>0, HeardMore
    <3>. QED  BY <2>4, <3>1 DEF HeardHolds
  <2>7. VerdictHolds(q, h \cup {d})
    BY <1>0, <2>4 DEF VerdictHolds, Own
  <2>8. ProofsHold(q, h \cup {d})
    BY <1>0, <2>2, <2>4 DEF ProofsHold, Own
  <2>9. ReleaseHolds(q, h \cup {d})
    <3>1. \A i : ReleaseOf(i) # d
      BY DocFields DEF Terminal
    <3>. QED  BY <1>0, <2>4, <3>1 DEF ReleaseHolds
  <2>10. TermsHold(q)
    BY <1>0, <2>4 DEF TermsHold, StatusLoads
  <2>. QED  BY <2>3, <2>5, <2>6, <2>7, <2>8, <2>9, <2>10 DEF RowInv
<1>. QED  BY <1>1, <1>2

\* The fill: a release of its proposal that was taken before still counts,
\* since a fill that can be posted is younger than what is retained.
LEMMA FillTaken ==
    ASSUME Typed, NEW r \in Row, r.primary # Null, NEW h \in SUBSET Documents,
           RowInv(r, h), NEW i \in Intents, fillDoc[i] # Null,
           NEW federated \in BOOLEAN,
           verifyFillIntent(i, intentDoc[i].v, TRUE),
           verifyFill(i, intentDoc[i].v, federated),
           r.fill = Null, r.cancelProof = Null
    PROVE  Filled(r, i, federated) \in Row /\ RowInv(Filled(r, i, federated), h \cup {FillOf(i)})
<1>0. HeardHolds(r, h) /\ VerdictHolds(r, h) /\ ProofsHold(r, h) /\ ReleaseHolds(r, h)
      /\ TermsHold(r)
  BY DEF RowInv
<1>. DEFINE q == Filled(r, i, federated)
<1>1. /\ now \in Nat /\ initiatorTimeout(i) \in Nat /\ i # Null /\ intentDoc[i] # Null
      /\ expiresAt(i) \in Nat /\ fillDoc[i] \in Nat
  BY SignedTerms, BookAssumption DEF Typed
<1>2. (i \in r.releasedIntents) \in BOOLEAN /\ (~federated) \in BOOLEAN
  OBVIOUS
<1>3. q \in Row
  BY <1>1, <1>2, ZenonT(60) DEF Row, Filled
<1>4. /\ q.orderConflicts = r.orderConflicts /\ q.equivocated = r.equivocated
      /\ q.status = "locking"
      /\ q.primary = r.primary /\ q.fillIntents = r.fillIntents
      /\ q.releasedIntents = r.releasedIntents /\ q.fill = i /\ q.direct = ~federated
      /\ q.cancelProof = r.cancelProof /\ q.conflicts = r.conflicts
      /\ q.released = (i \in r.releasedIntents) /\ q.t1 = initiatorTimeout(i)
  BY DEF Row, Filled
<1>. HIDE DEF q
<1>5. FillOf(i).kind = "fill-v2" /\ Terminal(FillOf(i)) /\ \A j : ReleaseOf(j) # FillOf(i)
  BY DocFields DEF Terminal
<1>6. \A d \in h : ~Terminal(d)
  BY <1>0 DEF VerdictHolds
<1>7. HeardHolds(q, h \cup {FillOf(i)})
  <2>1. HeardHolds(r, h \cup {FillOf(i)})
    BY <1>0, HeardMore, SignedDocs
  <2>. QED  BY <1>4, <2>1 DEF HeardHolds
<1>8. VerdictHolds(q, h \cup {FillOf(i)})
  <2>1. Own(q, FillOf(i))
    BY <1>1, <1>4 DEF Own
  <2>. QED  BY <1>0, <1>1, <1>4, <1>5, <1>6, <2>1 DEF VerdictHolds
<1>9. ProofsHold(q, h \cup {FillOf(i)})
  <2>1. ToSet(r.conflicts) = {}
    BY <1>0, <1>6 DEF ProofsHold
  <2>. QED  BY <1>0, <1>4, <2>1 DEF ProofsHold
<1>10. ASSUME ~federated
       PROVE  Retained(i)
  <2>1. fillDoc[i] < expiresAt(i) /\ now < fillDoc[i] + Response
    BY <1>10 DEF verifyFill, respondBy
  <2>2. expiresAt(i) + Response + Grace > now
    BY <1>1, <2>1, BookAssumption
  <2>. QED  BY <2>2 DEF Retained
<1>11. ReleaseHolds(q, h \cup {FillOf(i)})
  <2>1. \A j \in Intents : ReleaseOf(j) \in h => j \in r.releasedIntents \/ ~Retained(j)
    BY <1>0, BookAssumption DEF ReleaseHolds
  <2>2. q.direct /\ ReleaseOf(i) \in h => i \in r.releasedIntents
    BY <1>4, <1>10, <2>1
  <2>. QED  BY <1>0, <1>4, <1>5, <2>1, <2>2 DEF ReleaseHolds
<1>12. TermsHold(q)
  <2>1. verifyFill(i, intentDoc[i].v, TRUE)
    BY DEF verifyFill
  <2>. QED  BY <1>0, <1>1, <1>4, <2>1 DEF TermsHold, StatusLoads
<1>. QED  BY <1>3, <1>7, <1>8, <1>9, <1>11, <1>12 DEF RowInv, q

\* The cancellation.
LEMMA CancelTaken ==
    ASSUME Typed, NEW r \in Row, r.primary # Null, NEW h \in SUBSET Documents,
           RowInv(r, h), NEW v \in Variants, cancelDoc[v] # Null,
           r.fill = Null, r.cancelProof = Null
    PROVE  Cancelled(r, v) \in Row /\ RowInv(Cancelled(r, v), h \cup {CancelOf(v)})
<1>. DEFINE q == Cancelled(r, v)
<1>0. HeardHolds(r, h) /\ VerdictHolds(r, h) /\ ProofsHold(r, h) /\ ReleaseHolds(r, h)
      /\ TermsHold(r)
  BY DEF RowInv
<1>1. now \in Nat /\ v # Null
  BY BookAssumption DEF Typed
<1>2. q \in Row
  BY <1>1 DEF Row, Cancelled
<1>3. /\ q.orderConflicts = r.orderConflicts /\ q.equivocated = r.equivocated
      /\ q.status = "cancelled"
      /\ q.primary = r.primary /\ q.fillIntents = r.fillIntents
      /\ q.releasedIntents = r.releasedIntents /\ q.fill = r.fill /\ q.direct = r.direct
      /\ q.cancelProof = v /\ q.conflicts = r.conflicts
      /\ q.released = r.released /\ q.t1 = r.t1
  BY DEF Row, Cancelled
<1>. HIDE DEF q
<1>4. CancelOf(v).kind = "cancel-v2" /\ Terminal(CancelOf(v)) /\ \A j : ReleaseOf(j) # CancelOf(v)
  BY DocFields DEF Terminal
<1>5. \A d \in h : ~Terminal(d)
  BY <1>0 DEF VerdictHolds
<1>6. HeardHolds(q, h \cup {CancelOf(v)})
  <2>1. HeardHolds(r, h \cup {CancelOf(v)})
    BY <1>0, HeardMore, SignedDocs
  <2>. QED  BY <1>3, <2>1 DEF HeardHolds
<1>7. VerdictHolds(q, h \cup {CancelOf(v)})
  <2>1. Own(q, CancelOf(v))
    BY <1>1, <1>3 DEF Own
  <2>. QED  BY <1>0, <1>1, <1>3, <1>4, <1>5, <2>1 DEF VerdictHolds
<1>8. ProofsHold(q, h \cup {CancelOf(v)})
  <2>1. ToSet(r.conflicts) = {}
    BY <1>0, <1>5 DEF ProofsHold
  <2>. QED  BY <1>0, <1>3, <2>1 DEF ProofsHold
<1>9. ReleaseHolds(q, h \cup {CancelOf(v)})
  BY <1>0, <1>3, <1>4 DEF ReleaseHolds
<1>10. TermsHold(q)
  BY <1>0, <1>3 DEF TermsHold, StatusLoads
<1>. QED  BY <1>2, <1>6, <1>7, <1>8, <1>9, <1>10 DEF RowInv, q

\* A release of a proposal.
LEMMA ReleaseTaken ==
    ASSUME Typed, NEW r \in Row, r.primary # Null, NEW h \in SUBSET Documents,
           RowInv(r, h), NEW i \in Intents, intentDoc[i] # Null,
           i \in r.fillIntents \/ r.fill = i
    PROVE  Released(r, i) \in Row /\ RowInv(Released(r, i), h \cup {ReleaseOf(i)})
<1>. DEFINE q == Released(r, i)
<1>0. HeardHolds(r, h) /\ VerdictHolds(r, h) /\ ProofsHold(r, h) /\ ReleaseHolds(r, h)
      /\ TermsHold(r)
  BY DEF RowInv
<1>1. now \in Nat /\ (r.released \/ r.fill = i) \in BOOLEAN
      /\ r.releasedIntents \cup ({i} \cap r.fillIntents) \subseteq Intents /\ i # Null
  BY BookAssumption DEF Typed, Row
<1>2. q \in Row
  BY <1>1, ZenonT(60) DEF Row, Released
<1>3. /\ q.orderConflicts = r.orderConflicts /\ q.equivocated = r.equivocated
      /\ q.status = r.status
      /\ q.primary = r.primary /\ q.fillIntents = r.fillIntents
      /\ q.releasedIntents = r.releasedIntents \cup ({i} \cap r.fillIntents)
      /\ q.fill = r.fill /\ q.direct = r.direct
      /\ q.cancelProof = r.cancelProof /\ q.conflicts = r.conflicts
      /\ q.released = (r.released \/ r.fill = i) /\ q.t1 = r.t1
  BY DEF Row, Released
<1>. HIDE DEF q
<1>4. \A d : d = ReleaseOf(i) => ~Terminal(d) /\ d.kind # "order-v2"
  BY DocFields DEF Terminal
<1>5. HeardHolds(q, h \cup {ReleaseOf(i)})
  <2>1. HeardHolds(r, h \cup {ReleaseOf(i)})
    BY <1>0, HeardMore, SignedDocs
  <2>. QED  BY <1>3, <2>1 DEF HeardHolds
<1>6. VerdictHolds(q, h \cup {ReleaseOf(i)})
  BY <1>0, <1>3, <1>4 DEF VerdictHolds, Own
<1>7. ProofsHold(q, h \cup {ReleaseOf(i)})
  BY <1>0, <1>3 DEF ProofsHold, Own
<1>8. ReleaseHolds(q, h \cup {ReleaseOf(i)})
  <2>1. \A j : ReleaseOf(j) = ReleaseOf(i) => j = i
    BY DocFields
  <2>. QED  BY <1>0, <1>3, <2>1 DEF ReleaseHolds
<1>9. TermsHold(q)
  BY <1>0, <1>1, <1>3 DEF TermsHold, StatusLoads
<1>. QED  BY <1>2, <1>5, <1>6, <1>7, <1>8, <1>9 DEF RowInv, q

\* The same release, heard again after the fill's own.
LEMMA ReleaseHeard ==
    ASSUME NEW r \in Row, NEW h, RowInv(r, h), NEW i \in Intents, intentDoc[i] # Null,
           r.fill = i, r.released
    PROVE  RowInv(r, h \cup {ReleaseOf(i)})
<1>0. HeardHolds(r, h) /\ VerdictHolds(r, h) /\ ProofsHold(r, h) /\ ReleaseHolds(r, h)
      /\ TermsHold(r)
  BY DEF RowInv
<1>1. \A d : d = ReleaseOf(i) => ~Terminal(d) /\ d.kind # "order-v2"
  BY DocFields DEF Terminal
<1>2. HeardHolds(r, h \cup {ReleaseOf(i)})
  BY <1>0, HeardMore, SignedDocs
<1>3. VerdictHolds(r, h \cup {ReleaseOf(i)}) /\ ProofsHold(r, h \cup {ReleaseOf(i)})
  BY <1>0, <1>1 DEF VerdictHolds, ProofsHold
<1>4. ReleaseHolds(r, h \cup {ReleaseOf(i)})
  <2>1. \A j : ReleaseOf(j) = ReleaseOf(i) => j = i
    BY DocFields
  <2>. QED  BY <1>0, <2>1 DEF ReleaseHolds
<1>. QED  BY <1>0, <1>2, <1>3, <1>4 DEF RowInv

\* A release of the fill.
LEMMA FillReleased ==
    ASSUME Typed, NEW r \in Row, r.primary # Null, NEW h \in SUBSET Documents,
           RowInv(r, h), NEW i \in Intents, r.fill = i,
           NEW q, q = [r EXCEPT !.released = TRUE, !.updatedAt = now]
    PROVE  q \in Row /\ RowInv(q, h)
<1>0. HeardHolds(r, h) /\ VerdictHolds(r, h) /\ ProofsHold(r, h) /\ ReleaseHolds(r, h)
      /\ TermsHold(r)
  BY DEF RowInv
<1>1. now \in Nat /\ i # Null
  BY BookAssumption DEF Typed
<1>2. q \in Row
  BY <1>1 DEF Row
<1>3. /\ q.orderConflicts = r.orderConflicts /\ q.equivocated = r.equivocated
      /\ q.status = r.status
      /\ q.primary = r.primary /\ q.fillIntents = r.fillIntents
      /\ q.releasedIntents = r.releasedIntents /\ q.fill = r.fill /\ q.direct = r.direct
      /\ q.cancelProof = r.cancelProof /\ q.conflicts = r.conflicts
      /\ q.released = TRUE /\ q.t1 = r.t1
  BY DEF Row
<1>4. HeardHolds(q, h) /\ VerdictHolds(q, h) /\ ProofsHold(q, h)
  BY <1>0, <1>3 DEF HeardHolds, VerdictHolds, ProofsHold, Own
<1>5. ReleaseHolds(q, h)
  BY <1>0, <1>3 DEF ReleaseHolds
<1>6. TermsHold(q)
  BY <1>0, <1>1, <1>3 DEF TermsHold, StatusLoads
<1>. QED  BY <1>2, <1>4, <1>5, <1>6 DEF RowInv

-----------------------------------------------------------------------------
(* A new row and a swept one.                                              *)

LEMMA NewRowHolds ==
    ASSUME Typed, NEW v \in Variants, NEW visibility \in {"public", "private"}
    PROVE  /\ NewRow(v, visibility) \in Row /\ NewRow(v, visibility).primary = v
           /\ NewRow(v, visibility).fill = Null
           /\ RowInv(NewRow(v, visibility), {OrderOf(v)})
<1>. DEFINE q == NewRow(v, visibility)
            h == {OrderOf(v)}
<1>0. /\ now \in Nat /\ v # Null /\ PrelockT1[v] \in Nat \cup {Null}
      /\ <<>> \in Seq(Variants) /\ <<>> \in Seq(Documents) /\ MaxConflicts \in Nat
  BY BookAssumption DEF Typed
<1>1. q \in Row
  BY <1>0 DEF NewRow, Row
<1>2. /\ q.orderConflicts = <<>> /\ q.equivocated = FALSE /\ q.status = "open"
      /\ q.primary = v /\ q.fillIntents = {} /\ q.releasedIntents = {}
      /\ q.fill = Null /\ q.direct = FALSE /\ q.cancelProof = Null
      /\ q.conflicts = <<>> /\ q.released = FALSE /\ q.t1 = PrelockT1[v]
  BY <1>0 DEF NewRow
<1>. HIDE DEF q
<1>3. /\ ToSet(q.conflicts) = {} /\ ToSet(q.orderConflicts) = {}
      /\ Len(q.conflicts) = 0 /\ Len(q.orderConflicts) = 0
      /\ IsInjective(q.conflicts) /\ IsInjective(q.orderConflicts)
  BY <1>2 DEF ToSet, IsInjective
<1>4. \A d \in h : d.kind = "order-v2" /\ ~Terminal(d) /\ \A i : d # ReleaseOf(i)
  BY DocFields DEF Terminal
<1>5. HeardHolds(q, h)
  BY <1>2, FS_Singleton, SignedDocs DEF HeardHolds
<1>6. VerdictHolds(q, h)
  BY <1>2, <1>4 DEF VerdictHolds
<1>7. ProofsHold(q, h)
  BY <1>0, <1>3 DEF ProofsHold
<1>8. ReleaseHolds(q, h)
  BY <1>2, <1>4 DEF ReleaseHolds
<1>9. TermsHold(q)
  BY <1>2 DEF TermsHold, StatusLoads
<1>. QED  BY <1>1, <1>2, <1>5, <1>6, <1>7, <1>8, <1>9 DEF RowInv, q

\* What a sweep leaves of a row, signed or not.
LEMMA SweptFields ==
    ASSUME Typed, NEW r \in Row, Swept(r) # Null
    PROVE  LET q == Swept(r) IN
           /\ q \in Row
           /\ q.orderConflicts = r.orderConflicts /\ q.equivocated = r.equivocated
           /\ q.status = r.status \/ (q.status = "cancelled" /\ r.status \in {"open", "accepted"})
           /\ q.status = r.status \/ Expires(r)
           /\ q.status = "open" => ~Expires(r)
           /\ q.primary = r.primary /\ q.visibility = r.visibility
           /\ q.fillIntents = {i \in r.fillIntents : Retained(i)}
           /\ q.releasedIntents = r.releasedIntents \cap {i \in r.fillIntents : Retained(i)}
           /\ q.fill = r.fill /\ q.direct = r.direct
           /\ q.cancelProof = r.cancelProof /\ q.conflicts = r.conflicts
           /\ q.released = r.released /\ q.t1 = r.t1
<1>. DEFINE kept == {i \in r.fillIntents : Retained(i)}
            s == [r EXCEPT !.fillIntents = kept, !.releasedIntents = @ \cap kept]
            t == [s EXCEPT !.status = "cancelled", !.updatedAt = now]
<1>0. r # Null /\ now \in Nat /\ kept \in SUBSET Intents
      /\ r.releasedIntents \cap kept \in SUBSET Intents
  BY NullAssumption DEF Typed, Row
<1>1. Swept(r) = IF Expires(s) THEN t ELSE IF Purged(s) THEN Null ELSE s
  BY <1>0 DEF Swept
<1>. HIDE DEF kept
<1>2. s \in Row
  BY <1>0 DEF Row
<1>3. /\ s.orderConflicts = r.orderConflicts /\ s.equivocated = r.equivocated
      /\ s.status = r.status /\ s.primary = r.primary /\ s.fillIntents = kept
      /\ s.visibility = r.visibility /\ (Expires(s) <=> Expires(r))
      /\ s.releasedIntents = r.releasedIntents \cap kept
      /\ s.fill = r.fill /\ s.direct = r.direct
      /\ s.cancelProof = r.cancelProof /\ s.conflicts = r.conflicts
      /\ s.released = r.released /\ s.t1 = r.t1
  BY DEF Row, Expires
<1>. HIDE DEF s
<1>4. t \in Row
  BY <1>0, <1>2, ZenonT(60) DEF Row
<1>5. /\ t.orderConflicts = s.orderConflicts /\ t.equivocated = s.equivocated
      /\ t.status = "cancelled" /\ t.primary = s.primary /\ t.fillIntents = s.fillIntents
      /\ t.visibility = s.visibility
      /\ t.releasedIntents = s.releasedIntents
      /\ t.fill = s.fill /\ t.direct = s.direct
      /\ t.cancelProof = s.cancelProof /\ t.conflicts = s.conflicts
      /\ t.released = s.released /\ t.t1 = s.t1
  BY <1>2 DEF Row
<1>. HIDE DEF t
<1>6. CASE Expires(s)
  <2>1. r.status \in {"open", "accepted"}
    BY <1>3, <1>6 DEF Expires
  <2>2. Swept(r) = t
    BY <1>1, <1>6
  <2>3. Expires(r) /\ t.status # "open" /\ t.visibility = r.visibility
    BY <1>3, <1>5, <1>6
  <2>. QED  BY <1>3, <1>4, <1>5, <2>1, <2>2, <2>3 DEF kept
<1>7. CASE ~Expires(s)
  <2>1. Swept(r) = s
    BY <1>1, <1>7
  <2>2. ~Expires(r) /\ s.visibility = r.visibility
    BY <1>3, <1>7
  <2>. QED  BY <1>2, <1>3, <2>1, <2>2 DEF kept
<1>. QED  BY <1>6, <1>7

LEMMA SweptHolds ==
    ASSUME Typed, NEW r \in Row, NEW h, RowInv(r, h), Swept(r) # Null
    PROVE  Swept(r) \in Row /\ Swept(r).primary = r.primary /\ RowInv(Swept(r), h)
<1>0. HeardHolds(r, h) /\ VerdictHolds(r, h) /\ ProofsHold(r, h) /\ ReleaseHolds(r, h)
      /\ TermsHold(r)
  BY DEF RowInv
<1>. DEFINE q == Swept(r)
<1>1. /\ q \in Row
      /\ q.orderConflicts = r.orderConflicts /\ q.equivocated = r.equivocated
      /\ q.status = r.status \/ (q.status = "cancelled" /\ r.status \in {"open", "accepted"})
      /\ q.primary = r.primary
      /\ q.fillIntents = {i \in r.fillIntents : Retained(i)}
      /\ q.releasedIntents = r.releasedIntents \cap {i \in r.fillIntents : Retained(i)}
      /\ q.fill = r.fill /\ q.direct = r.direct
      /\ q.cancelProof = r.cancelProof /\ q.conflicts = r.conflicts
      /\ q.released = r.released /\ q.t1 = r.t1
  BY SweptFields
<1>. HIDE DEF q
<1>2. HeardHolds(q, h) /\ VerdictHolds(q, h) /\ ProofsHold(q, h)
  BY <1>0, <1>1 DEF HeardHolds, VerdictHolds, ProofsHold, Own
<1>3. ReleaseHolds(q, h)
  BY <1>0, <1>1 DEF ReleaseHolds
<1>4. TermsHold(q)
  BY <1>0, <1>1 DEF TermsHold, StatusLoads
<1>. QED  BY <1>1, <1>2, <1>3, <1>4 DEF RowInv, q

\* A filled row only goes when its fill's time is over.
LEMMA FilledGoes ==
    ASSUME Typed, NEW r \in Row, NEW h, RowInv(r, h), r.fill # Null, Swept(r) = Null
    PROVE  Passed
<1>. DEFINE kept == {i \in r.fillIntents : Retained(i)}
            s == [r EXCEPT !.fillIntents = kept, !.releasedIntents = @ \cap kept]
            t == [s EXCEPT !.status = "cancelled", !.updatedAt = now]
<1>0. r # Null /\ now \in Nat /\ kept \in SUBSET Intents
      /\ r.releasedIntents \cap kept \in SUBSET Intents
  BY NullAssumption DEF Typed, Row
<1>1. Swept(r) = IF Expires(s) THEN t ELSE IF Purged(s) THEN Null ELSE s
  BY <1>0 DEF Swept
<1>. HIDE DEF kept
<1>2. s \in Row /\ s.status = r.status /\ s.t1 = r.t1
  BY <1>0 DEF Row
<1>. HIDE DEF s
<1>3. r.status = "locking" /\ r.t1 = initiatorTimeout(r.fill)
  BY DEF RowInv, TermsHold, StatusLoads
<1>4. ~Expires(s)
  BY <1>2, <1>3 DEF Expires
<1>5. Purged(s)
  BY <1>1, <1>2, <1>4, NullAssumption
<1>6. now > r.t1 + Linger
  BY <1>2, <1>3, <1>5 DEF Purged
<1>7. r.fill \in Intents /\ fillDoc[r.fill] # Null
  BY SignedDocs DEF RowInv, HeardHolds, Row
<1>. QED  BY <1>3, <1>6, <1>7 DEF Passed

-----------------------------------------------------------------------------
(* All documents together.                                                 *)

\* What document d makes of row r of signed terms that has heard h.
Accepted(r, h, d, q) ==
    /\ q \in Row /\ q.primary = r.primary
    /\ RowInv(q, h \cup ({d} \cap Weighed))
    /\ r.fill # Null => q.fill = r.fill
    /\ \A i \in Intents : d = FillOf(i) => q.fill # Null \/ q.cancelProof # Null

LEMMA ResultsHold ==
    ASSUME Typed, NEW r \in Row, r.primary # Null, NEW h \in SUBSET Documents, RowInv(r, h),
           NEW d \in Documents, Signed(d), NEW federated \in BOOLEAN,
           NEW q \in Results(r, d, federated)
    PROVE  Accepted(r, h, d, q)
<1>0. HeardHolds(r, h) /\ VerdictHolds(r, h) /\ ProofsHold(r, h) /\ ReleaseHolds(r, h)
      /\ TermsHold(r) /\ r # Null /\ usesPortableTerminalProtocol(r)
  BY NullAssumption DEF RowInv, usesPortableTerminalProtocol
<1>. DEFINE Goal == /\ q \in Row /\ q.primary = r.primary
                    /\ RowInv(q, h \cup ({d} \cap Weighed))
                    /\ r.fill # Null => q.fill = r.fill
                    /\ \A i \in Intents : d = FillOf(i) => q.fill # Null \/ q.cancelProof # Null
<1>1. ASSUME NEW v \in Variants, d = OrderOf(v)
      PROVE  Goal
  <2>0. /\ d.kind = "order-v2" /\ d.of = v /\ {d} \cap Weighed = {OrderOf(v)}
        /\ \A i : d # FillOf(i)
    BY <1>1, DocFields, WeighedDocs
  <2>1. q \in TakeOrder(r, v, federated)
    BY <2>0 DEF Results
  <2>2. CASE r.primary = v \/ v \in ToSet(r.orderConflicts)
    <3>1. q = r
      BY <1>0, <2>1, <2>2 DEF TakeOrder
    <3>2. OrderOf(v) \in h
      BY <1>0, <2>2 DEF HeardHolds, ProofsHold
    <3>3. h \cup ({d} \cap Weighed) = h
      BY <2>0, <3>2
    <3>. QED  BY <2>0, <3>1, <3>3
  <2>3. CASE r.primary # v /\ v \notin ToSet(r.orderConflicts)
    <3>1. q = Contested(r, v)
      BY <1>0, <2>1, <2>3 DEF TakeOrder, Contested
    <3>2. q \in Row /\ RowInv(q, h \cup {OrderOf(v)})
      BY <2>3, <3>1, OrderConflicts
    <3>3. q.primary = r.primary /\ q.fill = r.fill
      BY <3>1 DEF Row, Contested
    <3>. QED  BY <2>0, <3>2, <3>3
  <2>. QED  BY <2>2, <2>3
<1>2. ASSUME NEW i \in Intents, d = IntentOf(i)
      PROVE  Goal
  <2>0. /\ d.kind = "fill-intent-v2" /\ d.of = i /\ h \cup ({d} \cap Weighed) = h
        /\ (\A j : d # FillOf(j)) /\ intentDoc[i] # Null
    BY <1>2, DocFields, WeighedDocs, SignedDocs
  <2>1. q \in TakeIntent(r, i, federated)
    BY <2>0 DEF Results
  <2>2. verifyFillIntent(i, r.primary, TRUE)
    BY <2>1 DEF TakeIntent, verifyFillIntent
  <2>3. CASE q = r
    BY <2>0, <2>3
  <2>4. CASE q = [r EXCEPT !.fillIntents = @ \cup {i}, !.updatedAt = now]
    <3>1. q \in Row /\ RowInv(q, h)
      BY <2>0, <2>2, <2>4, IntentTaken
    <3>2. q.primary = r.primary /\ q.fill = r.fill
      BY <2>4 DEF Row
    <3>. QED  BY <2>0, <3>1, <3>2
  <2>. QED  BY <2>1, <2>3, <2>4 DEF TakeIntent
<1>3. ASSUME NEW i \in Intents, d = FillOf(i)
      PROVE  Goal
  <2>0. /\ d.kind = "fill-v2" /\ d.of = i /\ {d} \cap Weighed = {d} /\ Terminal(d)
        /\ fillDoc[i] # Null /\ i # Null
        /\ \A x : CancelOf(x) # d /\ (FillOf(x) = d => x = i)
    BY <1>3, DocFields, WeighedDocs, SignedDocs, BookAssumption DEF Terminal
  <2>1. q \in TakeFill(r, i, federated)
    BY <2>0 DEF Results
  <2>2. /\ verifyFillIntent(i, intentDoc[i].v, TRUE)
        /\ verifyFill(i, intentDoc[i].v, federated)
    BY <2>1 DEF TakeFill
  <2>3. CASE r.fill = i
    <3>1. q = r
      BY <2>1, <2>3 DEF TakeFill
    <3>2. h \cup ({d} \cap Weighed) = h
      BY <1>0, <1>3, <2>0, <2>3 DEF HeardHolds
    <3>. QED  BY <2>0, <2>3, <3>1, <3>2
  <2>4. CASE r.fill # i /\ (r.fill # Null \/ r.cancelProof # Null)
    <3>1. q = rememberTerminalConflict(r, d)
      BY <1>3, <2>1, <2>4 DEF TakeFill
    <3>2. ~Own(r, d)
      BY <2>0, <2>4 DEF Own
    <3>3. q \in Row /\ RowInv(q, h \cup {d})
      BY <2>0, <2>4, <3>1, <3>2, TerminalConflicts
    <3>4. q.primary = r.primary /\ q.fill = r.fill /\ q.cancelProof = r.cancelProof
      BY <3>1 DEF rememberTerminalConflict, Row
    <3>. QED  BY <2>0, <2>4, <3>3, <3>4
  <2>5. CASE r.fill = Null /\ r.cancelProof = Null
    <3>1. q = Filled(r, i, federated)
      BY <2>0, <2>1, <2>5 DEF TakeFill
    <3>2. q \in Row /\ RowInv(q, h \cup {FillOf(i)})
      BY <2>0, <2>2, <2>5, <3>1, FillTaken
    <3>3. q.primary = r.primary /\ q.fill = i
      BY <3>1 DEF Filled, Row
    <3>. QED  BY <1>3, <2>0, <2>5, <3>2, <3>3
  <2>. QED  BY <2>3, <2>4, <2>5
<1>4. ASSUME NEW v \in Variants, d = CancelOf(v)
      PROVE  Goal
  <2>0. /\ d.kind = "cancel-v2" /\ d.of = v /\ {d} \cap Weighed = {d} /\ Terminal(d)
        /\ cancelDoc[v] # Null
        /\ \A x : FillOf(x) # d /\ (CancelOf(x) = d => x = v)
    BY <1>4, DocFields, WeighedDocs, SignedDocs DEF Terminal
  <2>1. q \in TakeCancel(r, v, federated)
    BY <2>0 DEF Results
  <2>2. v # Null
    BY BookAssumption
  <2>3. CASE r.cancelProof = v
    <3>1. q = r
      BY <2>1, <2>3 DEF TakeCancel
    <3>2. h \cup ({d} \cap Weighed) = h
      BY <1>0, <1>4, <2>0, <2>2, <2>3 DEF HeardHolds
    <3>. QED  BY <2>0, <3>1, <3>2
  <2>4. CASE r.cancelProof # v /\ (r.fill # Null \/ r.cancelProof # Null)
    <3>1. q = rememberTerminalConflict(r, d)
      BY <1>4, <2>1, <2>4 DEF TakeCancel
    <3>2. ~Own(r, d)
      BY <2>0, <2>4 DEF Own
    <3>3. q \in Row /\ RowInv(q, h \cup {d})
      BY <2>0, <2>4, <3>1, <3>2, TerminalConflicts
    <3>4. q.primary = r.primary /\ q.fill = r.fill
      BY <3>1 DEF rememberTerminalConflict, Row
    <3>. QED  BY <2>0, <3>3, <3>4
  <2>5. CASE r.fill = Null /\ r.cancelProof = Null
    <3>1. q = Cancelled(r, v)
      BY <2>1, <2>2, <2>5 DEF TakeCancel, Cancelled
    <3>2. q \in Row /\ RowInv(q, h \cup {CancelOf(v)})
      BY <2>0, <2>5, <3>1, CancelTaken
    <3>3. q.primary = r.primary
      BY <3>1 DEF Row, Cancelled
    <3>. QED  BY <1>4, <2>0, <2>5, <3>2, <3>3
  <2>. QED  BY <2>3, <2>4, <2>5
<1>5. ASSUME NEW i \in Intents, d = ReleaseOf(i)
      PROVE  Goal
  <2>0. /\ d.kind = "release-v2" /\ d.of = i /\ {d} \cap Weighed = {d}
        /\ intentDoc[i] # Null /\ \A x : FillOf(x) # d
    BY <1>5, DocFields, WeighedDocs, SignedDocs
  <2>1. q \in TakeRelease(r, i)
    BY <2>0 DEF Results
  <2>2. i \in r.fillIntents \/ r.fill = i
    BY <2>1 DEF TakeRelease
  <2>3. CASE i \in r.releasedIntents
    <3>1. q = r
      BY <2>1, <2>3 DEF TakeRelease
    <3>2. h \cup ({d} \cap Weighed) = h
      BY <1>0, <1>5, <2>0, <2>3 DEF ReleaseHolds
    <3>. QED  BY <2>0, <3>1, <3>2
  <2>4. CASE r.fill = i /\ r.released
    <3>1. q = r
      BY <2>1, <2>4 DEF TakeRelease
    <3>. QED  BY <1>5, <2>0, <2>4, <3>1, ReleaseHeard
  <2>5. CASE ~(i \in r.releasedIntents \/ (r.fill = i /\ r.released))
    <3>1. q = Released(r, i)
      BY <2>1, <2>5 DEF TakeRelease, Released
    <3>2. q \in Row /\ RowInv(q, h \cup {ReleaseOf(i)})
      BY <2>0, <2>2, <3>1, ReleaseTaken
    <3>3. q.primary = r.primary /\ q.fill = r.fill
      BY <3>1 DEF Row, Released
    <3>. QED  BY <1>5, <2>0, <3>2, <3>3
  <2>. QED  BY <2>3, <2>4, <2>5
<1>6. ASSUME NEW i \in Intents, d = FillReleaseOf(i)
      PROVE  Goal
  <2>0. /\ d.kind = "release-v2-fill" /\ d.of = i /\ h \cup ({d} \cap Weighed) = h
        /\ \A x : FillOf(x) # d
    BY <1>6, DocFields, WeighedDocs
  <2>1. q \in TakeFillRelease(r, i)
    BY <2>0 DEF Results
  <2>2. r.fill = i
    BY <2>1 DEF TakeFillRelease
  <2>3. CASE r.released
    <3>1. q = r
      BY <2>1, <2>3 DEF TakeFillRelease
    <3>. QED  BY <2>0, <3>1
  <2>4. CASE ~r.released
    <3>1. q = [r EXCEPT !.released = TRUE, !.updatedAt = now]
      BY <2>1, <2>4 DEF TakeFillRelease
    <3>2. q \in Row /\ RowInv(q, h)
      BY <2>2, <3>1, FillReleased
    <3>3. q.primary = r.primary /\ q.fill = r.fill
      BY <3>1 DEF Row
    <3>. QED  BY <2>0, <3>2, <3>3
  <2>. QED  BY <2>3, <2>4
<1>. QED  BY <1>1, <1>2, <1>3, <1>4, <1>5, <1>6, DocSorts DEF Accepted

\* A row of unsigned terms takes nothing but other terms under its id, and
\* stays one.
LEMMA LegacyResults ==
    ASSUME Typed, NEW r \in Row, r.primary = Null, NEW d \in Documents,
           NEW federated \in BOOLEAN, NEW q \in Results(r, d, federated)
    PROVE  /\ q \in Row /\ q.primary = Null
           /\ \A i \in Intents : d # FillOf(i)
           /\ \E v \in Variants : d = OrderOf(v)
<1>0. r # Null /\ ~usesPortableTerminalProtocol(r) /\ now \in Nat
  BY NullAssumption DEF usesPortableTerminalProtocol, Typed
<1>1. ASSUME NEW v \in Variants, d = OrderOf(v)
      PROVE  q \in Row /\ q.primary = Null /\ \A i \in Intents : d # FillOf(i)
  <2>0. d.kind = "order-v2" /\ d.of = v /\ \A i : d # FillOf(i)
    BY <1>1, DocFields
  <2>1. q \in TakeOrder(r, v, federated)
    BY <2>0 DEF Results
  <2>2. q = r \/ q = Contested(r, v)
    BY <1>0, <2>1 DEF TakeOrder, Contested
  <2>. QED  BY <2>0, <2>2, ContestedType
<1>2. ASSUME NEW i \in Intents, \/ d = IntentOf(i) \/ d = FillOf(i)
                                \/ d = ReleaseOf(i) \/ d = FillReleaseOf(i)
      PROVE  FALSE
  <2>1. CASE d = IntentOf(i)
    BY <1>0, <2>1, DocFields DEF Results, TakeIntent
  <2>2. CASE d = FillOf(i)
    BY <1>0, <2>2, DocFields DEF Results, TakeFill
  <2>3. CASE d = ReleaseOf(i)
    BY <1>0, <2>3, DocFields DEF Results, TakeRelease
  <2>4. CASE d = FillReleaseOf(i)
    BY <1>0, <2>4, DocFields DEF Results, TakeFillRelease
  <2>. QED  BY <1>2, <2>1, <2>2, <2>3, <2>4
<1>3. ASSUME NEW v \in Variants, d = CancelOf(v)
      PROVE  FALSE
  BY <1>0, <1>3, DocFields DEF Results, TakeCancel
<1>. QED  BY <1>1, <1>2, <1>3, DocSorts

\* Without a row, only the order itself makes one.
LEMMA FirstResults ==
    ASSUME NEW d \in Documents, NEW federated \in BOOLEAN, NEW q \in Results(Null, d, federated)
    PROVE  \E v \in Variants : d = OrderOf(v) /\ q = NewRow(v, "public")
<1>0. ~usesPortableTerminalProtocol(Null)
  BY DEF usesPortableTerminalProtocol
<1>1. ASSUME NEW v \in Variants, d = OrderOf(v)
      PROVE  q = NewRow(v, "public")
  <2>1. q \in TakeOrder(Null, v, federated)
    BY <1>1, DocFields DEF Results
  <2>. QED  BY <2>1 DEF TakeOrder
<1>2. ASSUME NEW i \in Intents, \/ d = IntentOf(i) \/ d = FillOf(i)
                                \/ d = ReleaseOf(i) \/ d = FillReleaseOf(i)
      PROVE  FALSE
  <2>1. CASE d = IntentOf(i)
    BY <1>0, <2>1, DocFields DEF Results, TakeIntent
  <2>2. CASE d = FillOf(i)
    BY <1>0, <2>2, DocFields DEF Results, TakeFill
  <2>3. CASE d = ReleaseOf(i)
    BY <1>0, <2>3, DocFields DEF Results, TakeRelease
  <2>4. CASE d = FillReleaseOf(i)
    BY <1>0, <2>4, DocFields DEF Results, TakeFillRelease
  <2>. QED  BY <1>2, <2>1, <2>2, <2>3, <2>4
<1>3. ASSUME NEW v \in Variants, d = CancelOf(v)
      PROVE  FALSE
  BY <1>0, <1>3, DocFields DEF Results, TakeCancel
<1>. QED  BY <1>1, <1>2, <1>3, DocSorts

-----------------------------------------------------------------------------
(* Time passes and the parties sign.                                       *)

\* What is signed stays, and the clock does not go back.
Forward ==
    /\ now' >= now
    /\ \A i \in Intents : /\ intentDoc[i] # Null => intentDoc'[i] = intentDoc[i]
                          /\ fillDoc[i] # Null => fillDoc'[i] = fillDoc[i]
    /\ \A v \in Variants : cancelDoc[v] # Null => cancelDoc'[v] # Null

LEMMA SignedStays ==
    ASSUME Forward, NEW d \in Documents, Signed(d)
    PROVE  Signed(d)'
<1>1. ASSUME NEW v \in Variants, d = OrderOf(v)
      PROVE  Signed(d)'
  BY <1>1, DocFields DEF Signed
<1>2. ASSUME NEW v \in Variants, d = CancelOf(v)
      PROVE  Signed(d)'
  BY <1>2, DocFields DEF Signed, Forward
<1>3. ASSUME NEW i \in Intents, d = IntentOf(i) \/ d = ReleaseOf(i)
      PROVE  Signed(d)'
  BY <1>3, DocFields DEF Signed, Forward
<1>4. ASSUME NEW i \in Intents, d = FillOf(i) \/ d = FillReleaseOf(i)
      PROVE  Signed(d)'
  BY <1>4, DocFields DEF Signed, Forward
<1>. QED  BY <1>1, <1>2, <1>3, <1>4, DocSorts

LEMMA StillOver ==
    ASSUME NEW a \in Int, NEW n \in Int, NEW k \in Int, k >= n, ~(a > n)
    PROVE  ~(a > k)
OBVIOUS

\* A proposal that is no longer retained stays so.
LEMMA NotRetained ==
    ASSUME Typed, Typed', Forward, NEW i \in Intents, intentDoc[i] # Null, ~Retained(i)
    PROVE  ~Retained(i)'
<1>1. intentDoc'[i] = intentDoc[i] /\ intentDoc[i].at \in Nat
  BY SignedTerms DEF Forward
<1>2. now \in Int /\ now' \in Int /\ now' >= now
  BY DEF Typed, Forward
<1>. DEFINE end == intentDoc[i].at + IntentLife + Response + Grace
<1>3. end \in Int
  BY <1>1, BookAssumption
<1>4. ~(end > now)
  BY DEF Retained, expiresAt
<1>5. end' = end
  BY <1>1
<1>. HIDE DEF end
<1>6. ~(end > now')
  BY <1>2, <1>3, <1>4, StillOver
<1>7. ~(end' > now')
  BY <1>5, <1>6
<1>. QED  BY <1>7 DEF Retained, expiresAt, end

LEMMA RowInvStable ==
    ASSUME Typed, Typed', Forward, NEW r \in Row, r.primary # Null,
           NEW h \in SUBSET Documents, RowInv(r, h)
    PROVE  RowInv(r, h)'
<1>0. HeardHolds(r, h) /\ VerdictHolds(r, h) /\ ProofsHold(r, h) /\ ReleaseHolds(r, h)
      /\ TermsHold(r)
  BY DEF RowInv
<1>1. HeardHolds(r, h)'
  <2>1. \A d \in h : Signed(d)'
    BY <1>0, SignedStays DEF HeardHolds
  <2>. QED  BY <1>0, <2>1 DEF HeardHolds
<1>2. VerdictHolds(r, h)' /\ ProofsHold(r, h)'
  BY <1>0 DEF VerdictHolds, ProofsHold, Own, Terminal
<1>3. ReleaseHolds(r, h)'
  <2>1. \A i \in Intents : ReleaseOf(i) \in h => intentDoc[i] # Null
    BY <1>0, SignedDocs DEF HeardHolds
  <2>2. \A i \in Intents : ReleaseOf(i) \in h /\ ~Retained(i) => ~Retained(i)'
    BY <2>1, NotRetained
  <2>. QED  BY <1>0, <2>2 DEF ReleaseHolds
<1>4. TermsHold(r)'
  <2>1. ASSUME NEW i \in r.fillIntents
        PROVE  (intentDoc[i] # Null /\ verifyFillIntent(i, r.primary, TRUE))'
    <3>1. i \in Intents /\ intentDoc[i] # Null /\ verifyFillIntent(i, r.primary, TRUE)
      BY <1>0, <2>1 DEF TermsHold, Row
    <3>2. intentDoc'[i] = intentDoc[i]
      BY <3>1 DEF Forward
    <3>. QED  BY <3>1, <3>2 DEF verifyFillIntent, expiresAt
  <2>2. ASSUME r.fill # Null
        PROVE  (LET v == intentDoc[r.fill].v
                IN  /\ verifyFillIntent(r.fill, v, TRUE)
                    /\ verifyFill(r.fill, v, TRUE)
                    /\ r.t1 = initiatorTimeout(r.fill))'
    <3>1. r.fill \in Intents /\ FillOf(r.fill) \in h
      BY <1>0, <2>2 DEF HeardHolds, Row
    <3>2. fillDoc[r.fill] # Null /\ intentDoc[r.fill] # Null
      BY <1>0, <3>1, SignedDocs, SignedTerms DEF HeardHolds
    <3>3. intentDoc'[r.fill] = intentDoc[r.fill] /\ fillDoc'[r.fill] = fillDoc[r.fill]
      BY <3>1, <3>2 DEF Forward
    <3>4. LET v == intentDoc[r.fill].v
          IN  /\ verifyFillIntent(r.fill, v, TRUE)
              /\ verifyFill(r.fill, v, TRUE)
              /\ r.t1 = initiatorTimeout(r.fill)
      BY <1>0, <2>2 DEF TermsHold
    <3>. QED  BY <3>3, <3>4 DEF verifyFillIntent, verifyFill, expiresAt, respondBy, initiatorTimeout
  <2>. QED  BY <1>0, <2>1, <2>2 DEF TermsHold, StatusLoads
<1>. QED  BY <1>1, <1>2, <1>3, <1>4 DEF RowInv

LEMMA StillPassed ==
    ASSUME Typed, Typed', Forward, Passed
    PROVE  Passed'
<1>1. PICK j \in Intents : fillDoc[j] # Null /\ now > initiatorTimeout(j) + Linger
  BY DEF Passed
<1>2. intentDoc[j] # Null /\ initiatorTimeout(j) \in Nat
  BY <1>1, SignedTerms
<1>3. fillDoc'[j] = fillDoc[j] /\ intentDoc'[j] = intentDoc[j]
  BY <1>1, <1>2 DEF Forward
<1>4. initiatorTimeout(j)' = initiatorTimeout(j)
  BY <1>3 DEF initiatorTimeout
<1>5. now' > initiatorTimeout(j) + Linger
  BY <1>1, <1>2, BookAssumption DEF Typed, Forward
<1>6. (fillDoc[j] # Null /\ now > initiatorTimeout(j) + Linger)'
  BY <1>1, <1>3, <1>4, <1>5
<1>. QED  BY <1>6 DEF Passed

-----------------------------------------------------------------------------
(* Steps.                                                                  *)

NoCancel == \A v \in Variants : cancelDoc[v] = Null

\* A mirror's row and what it heard become q and h.
Moved(m, q, h) ==
    /\ q \in Row \cup {Null} /\ h \in SUBSET Documents
    /\ usesPortableTerminalProtocol(q) => RowInv(q, h)
    /\ row' = [row EXCEPT ![m] = q]
    /\ heard' = [heard EXCEPT ![m] = h]
    /\ UNCHANGED <<now, intentDoc, fillDoc, cancelDoc>>
    /\ offer' \in [Mirrors -> SUBSET Documents]
    /\ \A n \in Mirrors \ {m} : offer'[n] = offer[n]
    /\ FilledInv => \A i \in Intents :
          FillOf(i) \in offer'[m] /\ NoCancel =>
              Passed \/ (usesPortableTerminalProtocol(q) /\ q.fill # Null)

LEMMA MovedHolds ==
    ASSUME Typed, BookInv, NEW m \in Mirrors, NEW q, NEW h, Moved(m, q, h)
    PROVE  Typed' /\ BookInv' /\ (FilledInv => FilledInv')
<1>1. /\ now' = now /\ intentDoc' = intentDoc /\ fillDoc' = fillDoc /\ cancelDoc' = cancelDoc
      /\ row' = [row EXCEPT ![m] = q] /\ heard' = [heard EXCEPT ![m] = h]
      /\ offer' \in [Mirrors -> SUBSET Documents]
      /\ q \in Row \cup {Null} /\ h \in SUBSET Documents
  BY DEF Moved
<1>2. Typed'
  BY <1>1 DEF Typed
<1>3. Forward
  BY <1>1 DEF Forward, Typed
<1>4. /\ row'[m] = q /\ heard'[m] = h
      /\ \A n \in Mirrors \ {m} : row'[n] = row[n] /\ heard'[n] = heard[n]
                                  /\ offer'[n] = offer[n]
  BY <1>1 DEF Moved, Typed
<1>5. BookInv'
  <2>1. SUFFICES ASSUME NEW n \in Mirrors, usesPortableTerminalProtocol(row'[n])
                 PROVE  RowInv(row[n], heard[n])'
    BY DEF BookInv, usesPortableTerminalProtocol
  <2>2. PICK r : r = row'[n]
    OBVIOUS
  <2>3. PICK k : k = heard'[n]
    OBVIOUS
  <2>4. RowInv(r, k) /\ usesPortableTerminalProtocol(r)
    <3>1. CASE n = m
      BY <1>4, <2>1, <2>2, <2>3, <3>1 DEF Moved
    <3>2. CASE n # m
      BY <1>4, <2>1, <2>2, <2>3, <3>2 DEF BookInv
    <3>. QED  BY <3>1, <3>2
  <2>5. r \in Row /\ r.primary # Null /\ k \in SUBSET Documents
    BY <1>2, <2>2, <2>3, <2>4 DEF Typed, usesPortableTerminalProtocol
  <2>6. RowInv(r, k)'
    BY <1>2, <1>3, <2>4, <2>5, RowInvStable
  <2>. QED  BY <2>2, <2>3, <2>6
<1>6. ASSUME FilledInv
      PROVE  FilledInv'
  <2>1. SUFFICES ASSUME NEW n \in Mirrors, NEW i \in Intents, FillOf(i) \in offer'[n], NoCancel
                 PROVE  Passed \/ (usesPortableTerminalProtocol(row'[n]) /\ row'[n].fill # Null)
    <3>1. Passed => Passed'
      BY <1>2, <1>3, StillPassed
    <3>2. NoCancel <=> (\A v \in Variants : cancelDoc'[v] = Null)
      BY <1>1 DEF NoCancel
    <3>3. \A n : usesPortableTerminalProtocol(row[n])' <=> usesPortableTerminalProtocol(row'[n])
      BY DEF usesPortableTerminalProtocol
    <3>4. \A i : FillOf(i)' = FillOf(i)
      BY DEF FillOf
    <3>. QED  BY <2>1, <3>1, <3>2, <3>3, <3>4 DEF FilledInv
  <2>2. CASE n = m
    BY <1>4, <1>6, <2>1, <2>2 DEF Moved
  <2>3. CASE n # m
    BY <1>4, <1>6, <2>1, <2>3 DEF FilledInv, NoCancel
  <2>. QED  BY <2>2, <2>3
<1>. QED  BY <1>2, <1>5, <1>6

\* The row of a mirror, and what it had announced, when nothing new is.
LEMMA RowTyped ==
    ASSUME Typed, NEW m \in Mirrors
    PROVE  /\ row[m] \in Row \cup {Null} /\ heard[m] \in SUBSET Documents
           /\ offer[m] \in SUBSET Documents
           /\ heard = [heard EXCEPT ![m] = heard[m]]
BY DEF Typed

\* What a sweep makes of a mirror's row.
LEMMA SweptRow ==
    ASSUME Typed, BookInv, NEW m \in Mirrors
    PROVE  /\ Swept(row[m]) \in Row \cup {Null}
           /\ usesPortableTerminalProtocol(Swept(row[m])) =>
                 /\ RowInv(Swept(row[m]), heard[m])
                 /\ usesPortableTerminalProtocol(row[m]) /\ Swept(row[m]).fill = row[m].fill
           /\ usesPortableTerminalProtocol(row[m]) /\ row[m].fill # Null =>
                 Passed \/ usesPortableTerminalProtocol(Swept(row[m]))
<1>. DEFINE r == row[m]
            s == Swept(row[m])
<1>1. r \in Row \cup {Null}
  BY RowTyped
<1>2. CASE r = Null
  <2>1. s = Null
    BY <1>2 DEF Swept
  <2>. QED  BY <1>2, <2>1 DEF usesPortableTerminalProtocol
<1>3. CASE r # Null /\ s = Null
  <2>1. r \in Row
    BY <1>1, <1>3
  <2>2. ASSUME usesPortableTerminalProtocol(r), r.fill # Null
        PROVE  Passed
    <3>1. RowInv(r, heard[m])
      BY <2>2 DEF BookInv
    <3>. QED  BY <1>3, <2>1, <2>2, <3>1, FilledGoes
  <2>. QED  BY <1>3, <2>2 DEF usesPortableTerminalProtocol
<1>4. CASE r # Null /\ s # Null
  <2>1. r \in Row
    BY <1>1, <1>4
  <2>2. s \in Row /\ s.primary = r.primary /\ s.fill = r.fill
    BY <1>4, <2>1, SweptFields
  <2>3. ASSUME usesPortableTerminalProtocol(r)
        PROVE  RowInv(s, heard[m])
    <3>1. RowInv(r, heard[m])
      BY <2>3 DEF BookInv
    <3>. QED  BY <1>4, <2>1, <3>1, SweptHolds
  <2>4. usesPortableTerminalProtocol(s) <=> usesPortableTerminalProtocol(r)
    BY <1>4, <2>2 DEF usesPortableTerminalProtocol
  <2>. QED  BY <2>2, <2>3, <2>4
<1>. QED  BY <1>2, <1>3, <1>4

\* A document is handled.
LEMMA HandleMoves ==
    ASSUME Typed, BookInv, NEW m \in Mirrors, NEW d \in Documents, NEW federated \in BOOLEAN,
           Handle(m, d, federated)
    PROVE  \E q, h : Moved(m, q, h)
<1>. DEFINE old == Swept(row[m])
            h == (IF old = Null THEN {} ELSE heard[m]) \cup ({d} \cap Weighed)
<1>1. PICK q \in Results(old, d, federated) :
        /\ row' = [row EXCEPT ![m] = q]
        /\ offer' = IF q # old /\ q.visibility = "public"
                    THEN [offer EXCEPT ![m] = @ \cup {d}] ELSE offer
        /\ heard' = [heard EXCEPT ![m] = (IF old = Null THEN {} ELSE @) \cup ({d} \cap Weighed)]
        /\ UNCHANGED <<now, intentDoc, fillDoc, cancelDoc>>
        /\ Signed(d)
  BY DEF Handle
<1>2. /\ old \in Row \cup {Null}
      /\ usesPortableTerminalProtocol(old) => /\ RowInv(old, heard[m])
                                              /\ usesPortableTerminalProtocol(row[m])
                                              /\ old.fill = row[m].fill
      /\ usesPortableTerminalProtocol(row[m]) /\ row[m].fill # Null =>
            Passed \/ usesPortableTerminalProtocol(old)
  BY SweptRow
<1>3. heard[m] \in SUBSET Documents
  BY RowTyped
<1>. HIDE DEF old
<1>4. h \in SUBSET Documents
  BY <1>3
<1>5. heard' = [heard EXCEPT ![m] = h]
  BY <1>1 DEF Typed
<1>6. /\ q \in Row
      /\ usesPortableTerminalProtocol(q) => RowInv(q, h)
      /\ usesPortableTerminalProtocol(old) /\ old.fill # Null =>
            usesPortableTerminalProtocol(q) /\ q.fill # Null
      /\ \A i \in Intents : d = FillOf(i) =>
            usesPortableTerminalProtocol(q) /\ (q.fill # Null \/ q.cancelProof # Null)
  <2>1. CASE old = Null
    <3>1. PICK v \in Variants : d = OrderOf(v) /\ q = NewRow(v, "public")
      BY <1>1, <2>1, FirstResults
    <3>2. h = {OrderOf(v)}
      BY <2>1, <3>1, WeighedDocs
    <3>3. q \in Row /\ RowInv(q, h)
      BY <3>1, <3>2, NewRowHolds
    <3>4. \A i : d # FillOf(i)
      BY <3>1, DocFields
    <3>. QED  BY <2>1, <3>3, <3>4 DEF usesPortableTerminalProtocol
  <2>2. CASE old # Null /\ old.primary = Null
    <3>1. q \in Row /\ q.primary = Null /\ \A i \in Intents : d # FillOf(i)
      BY <1>1, <1>2, <2>2, LegacyResults
    <3>. QED  BY <2>2, <3>1 DEF usesPortableTerminalProtocol
  <2>3. CASE old # Null /\ old.primary # Null
    <3>1. usesPortableTerminalProtocol(old) /\ old \in Row /\ RowInv(old, heard[m])
      BY <1>2, <2>3 DEF usesPortableTerminalProtocol
    <3>2. h = heard[m] \cup ({d} \cap Weighed)
      BY <2>3
    <3>3. /\ q \in Row /\ q.primary = old.primary
          /\ RowInv(q, heard[m] \cup ({d} \cap Weighed))
          /\ old.fill # Null => q.fill = old.fill
          /\ \A i \in Intents : d = FillOf(i) => q.fill # Null \/ q.cancelProof # Null
      <4>1. q \in Results(old, d, federated) /\ Signed(d)
        BY <1>1
      <4>2. Accepted(old, heard[m], d, q)
        BY <1>3, <2>3, <3>1, <4>1, ResultsHold
      <4>. QED  BY <4>2 DEF Accepted
    <3>4. usesPortableTerminalProtocol(q)
      BY <2>3, <3>3, NullAssumption DEF usesPortableTerminalProtocol
    <3>. QED  BY <3>2, <3>3, <3>4
  <2>. QED  BY <2>1, <2>2, <2>3
<1>. HIDE DEF h
<1>7. /\ offer' \in [Mirrors -> SUBSET Documents]
      /\ \A n \in Mirrors \ {m} : offer'[n] = offer[n]
      /\ \A x \in offer'[m] : x \in offer[m] \/ x = d
  BY <1>1 DEF Typed
<1>8. ASSUME FilledInv, NEW i \in Intents, FillOf(i) \in offer'[m], NoCancel
      PROVE  Passed \/ (usesPortableTerminalProtocol(q) /\ q.fill # Null)
  <2>1. CASE FillOf(i) \in offer[m]
    <3>1. Passed \/ (usesPortableTerminalProtocol(row[m]) /\ row[m].fill # Null)
      BY <1>8, <2>1 DEF FilledInv, NoCancel
    <3>. QED  BY <1>2, <1>6, <3>1
  <2>2. CASE d = FillOf(i)
    <3>1. usesPortableTerminalProtocol(q) /\ (q.fill # Null \/ q.cancelProof # Null)
      BY <1>6, <2>2
    <3>2. CASE q.cancelProof # Null
      <4>1. q.cancelProof \in Variants /\ CancelOf(q.cancelProof) \in h /\ \A x \in h : Signed(x)
        BY <1>6, <3>1, <3>2 DEF RowInv, HeardHolds, Row
      <4>2. cancelDoc[q.cancelProof] # Null
        BY <4>1, SignedDocs
      <4>. QED  BY <1>8, <4>1, <4>2 DEF NoCancel
    <3>. QED  BY <3>1, <3>2
  <2>. QED  BY <1>7, <1>8, <2>1, <2>2
<1>9. Moved(m, q, h)
  BY <1>1, <1>4, <1>5, <1>6, <1>7, <1>8 DEF Moved
<1>. QED  BY <1>9

LEMMA PostPrivateMoves ==
    ASSUME Typed, BookInv, NEW m \in Mirrors, NEW v \in Variants, PostPrivate(m, v)
    PROVE  \E q, h : Moved(m, q, h)
<1>1. /\ offer[m] = {} /\ offer' = offer
      /\ row' = [row EXCEPT ![m] = NewRow(v, "private")]
      /\ heard' = [heard EXCEPT ![m] = {OrderOf(v)}]
      /\ UNCHANGED <<now, intentDoc, fillDoc, cancelDoc>>
  BY DEF PostPrivate
<1>2. NewRow(v, "private") \in Row /\ RowInv(NewRow(v, "private"), {OrderOf(v)})
  BY NewRowHolds
<1>3. {OrderOf(v)} \in SUBSET Documents
  BY DocTypes
<1>4. offer' \in [Mirrors -> SUBSET Documents] /\ offer'[m] = {}
  BY <1>1 DEF Typed
<1>5. Moved(m, NewRow(v, "private"), {OrderOf(v)})
  BY <1>1, <1>2, <1>3, <1>4 DEF Moved
<1>. QED  BY <1>5

LEMMA SweepMoves ==
    ASSUME Typed, BookInv, NEW m \in Mirrors, ReadSweeps(m)
    PROVE  \E q, h : Moved(m, q, h)
<1>. DEFINE q == Swept(row[m])
            h == IF q = Null THEN {} ELSE heard[m]
<1>1. /\ offer' = offer /\ row' = [row EXCEPT ![m] = q] /\ heard' = [heard EXCEPT ![m] = h]
      /\ UNCHANGED <<now, intentDoc, fillDoc, cancelDoc>>
  BY DEF ReadSweeps, Typed
<1>2. /\ q \in Row \cup {Null}
      /\ usesPortableTerminalProtocol(q) => /\ RowInv(q, heard[m])
                                            /\ usesPortableTerminalProtocol(row[m])
                                            /\ q.fill = row[m].fill
      /\ usesPortableTerminalProtocol(row[m]) /\ row[m].fill # Null =>
            Passed \/ usesPortableTerminalProtocol(q)
  BY SweptRow
<1>3. heard[m] \in SUBSET Documents
  BY RowTyped
<1>. HIDE DEF q
<1>4. h \in SUBSET Documents /\ (usesPortableTerminalProtocol(q) => RowInv(q, h))
  BY <1>2, <1>3 DEF usesPortableTerminalProtocol
<1>. HIDE DEF h
<1>5. offer' \in [Mirrors -> SUBSET Documents]
  BY <1>1 DEF Typed
<1>6. ASSUME FilledInv, NEW i \in Intents, FillOf(i) \in offer'[m], NoCancel
      PROVE  Passed \/ (usesPortableTerminalProtocol(q) /\ q.fill # Null)
  <2>1. Passed \/ (usesPortableTerminalProtocol(row[m]) /\ row[m].fill # Null)
    BY <1>1, <1>6 DEF FilledInv, NoCancel
  <2>. QED  BY <1>2, <2>1
<1>7. Moved(m, q, h)
  BY <1>1, <1>2, <1>4, <1>5, <1>6 DEF Moved
<1>. QED  BY <1>7

Unsigned(r) == r # Null /\ r.primary = Null

\* An operation on an unsigned order, which no mirror has announced.
LegacyMoved(m) ==
    /\ (\A n \in Mirrors : offer[n] = {}) \/ Unsigned(row[m])
    /\ offer' = offer
    /\ \E q, h : Moved(m, q, h) /\ Unsigned(q)

LEMMA LegacyMoves ==
    ASSUME Typed, NEW m \in Mirrors, NEW q, LegacyStep(m, q), q \in Row, q.primary = Null,
           (\A n \in Mirrors : offer[n] = {}) \/ Unsigned(row[m])
    PROVE  LegacyMoved(m)
<1>1. /\ offer' = offer /\ row' = [row EXCEPT ![m] = q] /\ heard' = heard
      /\ UNCHANGED <<now, intentDoc, fillDoc, cancelDoc>>
  BY DEF LegacyStep
<1>2. heard' = [heard EXCEPT ![m] = heard[m]] /\ heard[m] \in SUBSET Documents
  BY <1>1, RowTyped
<1>3. ~usesPortableTerminalProtocol(q) /\ Unsigned(q)
  BY NullAssumption DEF usesPortableTerminalProtocol, Unsigned
<1>4. offer' \in [Mirrors -> SUBSET Documents]
  BY <1>1 DEF Typed
<1>5. ASSUME FilledInv, NEW i \in Intents, FillOf(i) \in offer'[m], NoCancel
      PROVE  Passed
  <2>1. offer[m] # {}
    BY <1>1, <1>5
  <2>2. ~usesPortableTerminalProtocol(row[m])
    BY <2>1 DEF Unsigned, usesPortableTerminalProtocol
  <2>. QED  BY <1>1, <1>5, <2>2 DEF FilledInv, NoCancel
<1>6. Moved(m, q, heard[m])
  BY <1>1, <1>2, <1>3, <1>4, <1>5 DEF Moved
<1>. QED  BY <1>1, <1>3, <1>6 DEF LegacyMoved

LEMMA LegacyHolds ==
    ASSUME Typed, BookInv, NEW m \in Mirrors, Legacy(m)
    PROVE  LegacyMoved(m)
<1>. DEFINE s == Swept(row[m])
<1>0. now \in Nat /\ now + InitiatorWindow \in Nat
  BY BookAssumption DEF Typed
<1>1. s \in Row \cup {Null}
  BY SweptRow
<1>2. ASSUME s # Null, s.primary = Null
      PROVE  s \in Row /\ Unsigned(row[m])
  <2>1. row[m] # Null
    BY <1>2 DEF Swept
  <2>2. row[m] \in Row
    BY <2>1, RowTyped
  <2>3. s.primary = row[m].primary
    BY <1>2, <2>2, SweptFields
  <2>. QED  BY <1>1, <1>2, <2>1, <2>3 DEF Unsigned
<1>3. ASSUME Create(m)
      PROVE  LegacyMoved(m)
  <2>1. (\A n \in Mirrors : offer[n] = {}) /\ LegacyStep(m, NewRow(Null, "public"))
    BY <1>3 DEF Create
  <2>2. <<>> \in Seq(Variants) /\ <<>> \in Seq(Documents)
    OBVIOUS
  <2>3. NewRow(Null, "public") \in Row
    BY <1>0, <2>2 DEF NewRow, Row
  <2>4. NewRow(Null, "public").primary = Null
    BY DEF NewRow
  <2>. QED  BY <2>1, <2>3, <2>4, LegacyMoves
<1>4. ASSUME NEW t \in LegacyTakers, Accept(m, t) \/ Take(m, t)
      PROVE  LegacyMoved(m)
  <2>. DEFINE q == [s EXCEPT !.status = "accepted", !.taker = t, !.released = FALSE,
                             !.updatedAt = now]
  <2>1. s # Null /\ s.primary = Null /\ LegacyStep(m, q)
    BY <1>4 DEF Accept, Take, LegacyRow, commitTake
  <2>. HIDE DEF s
  <2>2. q \in Row
    BY <1>0, <1>2, <2>1, ZenonT(60) DEF Row
  <2>3. q.primary = Null
    BY <1>2, <2>1 DEF Row
  <2>. HIDE DEF q
  <2>. QED  BY <1>2, <2>1, <2>2, <2>3, LegacyMoves
<1>5. ASSUME AnnounceHashlock(m)
      PROVE  LegacyMoved(m)
  <2>. DEFINE q == [s EXCEPT !.status = "locking", !.updatedAt = now,
                             !.t1 = now + InitiatorWindow]
  <2>1. s # Null /\ s.primary = Null /\ LegacyStep(m, q)
    BY <1>5 DEF AnnounceHashlock, LegacyRow
  <2>. HIDE DEF s
  <2>2. q \in Row
    BY <1>0, <1>2, <2>1, ZenonT(60) DEF Row
  <2>3. q.primary = Null
    BY <1>2, <2>1 DEF Row
  <2>. HIDE DEF q
  <2>. QED  BY <1>2, <2>1, <2>2, <2>3, LegacyMoves
<1>6. ASSUME NEW t \in LegacyTakers, ReleaseTake(m, t)
      PROVE  LegacyMoved(m)
  <2>. DEFINE q == [s EXCEPT !.status = "open", !.taker = Null, !.updatedAt = now]
              p == [s EXCEPT !.released = TRUE, !.updatedAt = now]
  <2>1. s # Null /\ s.primary = Null /\ (LegacyStep(m, q) \/ LegacyStep(m, p))
    BY <1>6 DEF ReleaseTake, LegacyRow
  <2>. HIDE DEF s
  <2>2. s \in Row
    BY <1>2, <2>1
  <2>3. q \in Row
    BY <1>0, <2>2 DEF Row
  <2>4. p \in Row
    BY <1>0, <2>2 DEF Row
  <2>5. q.primary = s.primary
    BY <2>2 DEF Row
  <2>6. p.primary = s.primary
    BY <2>2 DEF Row
  <2>. HIDE DEF q, p
  <2>. QED  BY <1>2, <2>1, <2>3, <2>4, <2>5, <2>6, LegacyMoves
<1>7. ASSUME CancelLegacy(m)
      PROVE  LegacyMoved(m)
  <2>. DEFINE q == [s EXCEPT !.status = "cancelled", !.updatedAt = now]
  <2>1. s # Null /\ s.primary = Null /\ LegacyStep(m, q)
    BY <1>7 DEF CancelLegacy
  <2>. HIDE DEF s
  <2>2. q \in Row
    BY <1>0, <1>2, <2>1, ZenonT(60) DEF Row
  <2>3. q.primary = Null
    BY <1>2, <2>1 DEF Row
  <2>. HIDE DEF q
  <2>. QED  BY <1>2, <2>1, <2>2, <2>3, LegacyMoves
<1>8. ASSUME Heartbeat(m)
      PROVE  LegacyMoved(m)
  <2>. DEFINE q == [row[m] EXCEPT !.seen = ~@]
  <2>1. row[m] # Null /\ row[m].primary = Null /\ LegacyStep(m, q)
    BY <1>8 DEF Heartbeat
  <2>2. row[m] \in Row
    BY <2>1, RowTyped
  <2>3. q \in Row
    BY <2>2, ZenonT(60) DEF Row
  <2>4. q.primary = Null
    BY <2>1, <2>2 DEF Row
  <2>5. Unsigned(row[m])
    BY <2>1 DEF Unsigned
  <2>. HIDE DEF q
  <2>. QED  BY <2>1, <2>3, <2>4, <2>5, LegacyMoves
<1>. QED  BY <1>3, <1>4, <1>5, <1>6, <1>7, <1>8 DEF Legacy

\* A peer offers documents.
LEMMA OfferedDocs ==
    ASSUME Typed, NEW p \in Mirrors
    PROVE  Offered(p) \subseteq Documents
<1>. DEFINE r == row[p]
<1>1. offer[p] \subseteq Documents /\ r \in Row \cup {Null}
  BY RowTyped
<1>2. SUFFICES ASSUME usesPortableTerminalProtocol(r)
               PROVE  federationSnapshot(r) \subseteq Documents
  BY <1>1 DEF Offered, federationSnapshot
<1>3. r \in Row
  BY <1>1, <1>2 DEF usesPortableTerminalProtocol
<1>. HIDE DEF r
<1>4. /\ r.orderConflicts \in Seq(Variants) /\ r.conflicts \in Seq(Documents)
      /\ r.primary \in Variants /\ r.fillIntents \subseteq Intents
      /\ r.releasedIntents \subseteq Intents /\ r.fill \in Intents \cup {Null}
      /\ r.cancelProof \in Variants \cup {Null}
  BY <1>2, <1>3 DEF Row, usesPortableTerminalProtocol
<1>5. ToSet(r.orderConflicts) \subseteq Variants /\ ToSet(r.conflicts) \subseteq Documents
  BY <1>4 DEF ToSet
<1>. QED  BY <1>4, <1>5, DocTypes DEF federationSnapshot

\* Every step moves a row, or signs, or lets time pass.
LEMMA Steps ==
    ASSUME Typed, BookInv, [Next]_vars
    PROVE  \/ \E m \in Mirrors : \E q, h : Moved(m, q, h)
           \/ Signs \/ Tick \/ UNCHANGED vars
<1>. DEFINE Goal == \E m \in Mirrors : \E q, h : Moved(m, q, h)
<1>0. TRUE \in BOOLEAN /\ FALSE \in BOOLEAN
  OBVIOUS
<1>1. ASSUME NEW m \in Mirrors, NEW d \in Documents, NEW federated \in BOOLEAN,
             Handle(m, d, federated)
      PROVE  Goal
  BY <1>1, HandleMoves
<1>2. ASSUME NEW m \in Mirrors, Clients(m)
      PROVE  Goal
  <2>1. ASSUME NEW v \in Variants, PostOrder(m, v) \/ CancelSigned(m, v)
        PROVE  Goal
    BY <1>1, <2>1, DocTypes DEF PostOrder, CancelSigned
  <2>2. ASSUME NEW v \in Variants, PostPrivate(m, v)
        PROVE  Goal
    BY <2>2, PostPrivateMoves
  <2>3. ASSUME NEW i \in Intents, \/ SubmitFillIntent(m, i) \/ FillOrder(m, i)
                                  \/ Release(m, i) \/ ReleaseFill(m, i)
        PROVE  Goal
    BY <1>1, <2>3, DocTypes DEF SubmitFillIntent, FillOrder, Release, ReleaseFill
  <2>. QED  BY <1>2, <2>1, <2>2, <2>3 DEF Clients
<1>3. ASSUME NEW m \in Mirrors, Legacy(m)
      PROVE  Goal
  BY <1>3, LegacyHolds DEF LegacyMoved
<1>4. ASSUME NEW m \in Mirrors, ReadSweeps(m)
      PROVE  Goal
  BY <1>4, SweepMoves
<1>5. ASSUME NEW m \in Mirrors, NEW p \in Mirrors, Import(m, p)
      PROVE  Goal
  <2>1. PICK d \in Offered(p) : Handle(m, d, TRUE)
    BY <1>5 DEF Import
  <2>2. d \in Documents
    BY OfferedDocs
  <2>. QED  BY <1>1, <2>1, <2>2
<1>. QED  BY <1>2, <1>3, <1>4, <1>5 DEF Next

\* Signing, and time.
LEMMA QuietHolds ==
    ASSUME Typed, Typed', Forward, BookInv, UNCHANGED <<row, offer, heard>>
    PROVE  BookInv' /\ (FilledInv => FilledInv')
<1>0. row' = row /\ offer' = offer /\ heard' = heard
  OBVIOUS
<1>1. BookInv'
  <2>1. SUFFICES ASSUME NEW m \in Mirrors, usesPortableTerminalProtocol(row[m])
                 PROVE  RowInv(row[m], heard[m])'
    BY <1>0 DEF BookInv, usesPortableTerminalProtocol
  <2>2. PICK r : r = row[m]
    OBVIOUS
  <2>3. PICK h : h = heard[m]
    OBVIOUS
  <2>4. r \in Row /\ r.primary # Null /\ h \in SUBSET Documents /\ RowInv(r, h)
    BY <2>1, <2>2, <2>3 DEF Typed, BookInv, usesPortableTerminalProtocol
  <2>5. RowInv(r, h)'
    BY <2>4, RowInvStable
  <2>6. r = row'[m] /\ h = heard'[m]
    BY <1>0, <2>2, <2>3
  <2>. QED  BY <2>5, <2>6
<1>2. ASSUME FilledInv
      PROVE  FilledInv'
  <2>1. Passed => Passed'
    BY StillPassed
  <2>2. (\A v \in Variants : cancelDoc'[v] = Null) => NoCancel
    BY DEF NoCancel, Forward
  <2>3. \A m : usesPortableTerminalProtocol(row[m])' <=> usesPortableTerminalProtocol(row[m])
    BY <1>0 DEF usesPortableTerminalProtocol
  <2>4. \A i : FillOf(i)' = FillOf(i)
    BY DEF FillOf
  <2>. QED  BY <1>0, <1>2, <2>1, <2>2, <2>3, <2>4 DEF FilledInv, NoCancel
<1>. QED  BY <1>1, <1>2

LEMMA SignsHolds ==
    ASSUME Typed, Signs
    PROVE  Typed' /\ Forward /\ UNCHANGED <<row, offer, heard>>
<1>0. now \in Nat
  BY DEF Typed
<1>1. ASSUME NEW i \in Intents, TakerSigns(i)
      PROVE  Typed' /\ Forward /\ UNCHANGED <<row, offer, heard>>
  <2>1. PICK m \in Mirrors :
          /\ row[m] # Null /\ row[m].primary # Null
          /\ intentDoc' = [intentDoc EXCEPT ![i] = [v |-> row[m].primary, at |-> now]]
          /\ intentDoc[i] = Null /\ UNCHANGED <<now, row, offer, fillDoc, cancelDoc, heard>>
    BY <1>1 DEF TakerSigns
  <2>2. row[m].primary \in Variants
    BY <2>1, RowTyped DEF Row
  <2>3. [v |-> row[m].primary, at |-> now] \in Proposal
    BY <1>0, <2>2 DEF Proposal
  <2>4. [v |-> row[m].primary, at |-> now] # Null
    BY <2>3, NullAssumption
  <2>5. Forward
    BY <1>0, <2>1 DEF Forward, Typed
  <2>6. Typed'
    BY <2>1, <2>3, <2>4 DEF Typed
  <2>. QED  BY <2>1, <2>5, <2>6
<1>2. ASSUME NEW i \in Intents, MakerSignsFill(i)
      PROVE  Typed' /\ Forward /\ UNCHANGED <<row, offer, heard>>
  <2>1. /\ fillDoc[i] = Null /\ intentDoc[i] # Null /\ fillDoc' = [fillDoc EXCEPT ![i] = now]
        /\ UNCHANGED <<now, row, offer, intentDoc, cancelDoc, heard>>
    BY <1>2 DEF MakerSignsFill
  <2>. QED  BY <1>0, <2>1 DEF Typed, Forward
<1>3. ASSUME NEW v \in Variants, MakerSignsCancel(v)
      PROVE  Typed' /\ Forward /\ UNCHANGED <<row, offer, heard>>
  <2>1. /\ cancelDoc' = [cancelDoc EXCEPT ![v] = "signed"]
        /\ UNCHANGED <<now, row, offer, intentDoc, fillDoc, heard>>
    BY <1>3 DEF MakerSignsCancel
  <2>. QED  BY <1>0, <2>1, NullAssumption DEF Typed, Forward
<1>. QED  BY <1>1, <1>2, <1>3 DEF Signs

LEMMA TickHolds ==
    ASSUME Typed, Tick
    PROVE  Typed' /\ Forward /\ UNCHANGED <<row, offer, heard>>
BY DEF Typed, Tick, Forward

-----------------------------------------------------------------------------
(* The theorems.                                                           *)

Inv == Typed /\ BookInv /\ FilledInv

LEMMA InitHolds ==
    ASSUME Init
    PROVE  Inv
<1>1. Typed
  BY DEF Init, Typed
<1>2. BookInv
  BY DEF Init, BookInv, usesPortableTerminalProtocol
<1>3. FilledInv
  BY DEF Init, FilledInv
<1>. QED  BY <1>1, <1>2, <1>3 DEF Inv

LEMMA StepHolds ==
    ASSUME Inv, [Next]_vars
    PROVE  Inv'
<1>0. Typed /\ BookInv /\ FilledInv
  BY DEF Inv
<1>1. ASSUME NEW m \in Mirrors, NEW q, NEW h, Moved(m, q, h)
      PROVE  Inv'
  BY <1>0, <1>1, MovedHolds DEF Inv
<1>2. ASSUME Typed', Forward, UNCHANGED <<row, offer, heard>>
      PROVE  Inv'
  BY <1>0, <1>2, QuietHolds DEF Inv
<1>3. ASSUME UNCHANGED vars
      PROVE  Typed' /\ Forward /\ UNCHANGED <<row, offer, heard>>
  BY <1>0, <1>3 DEF vars, Typed, Forward
<1>. QED  BY <1>0, <1>1, <1>2, <1>3, Steps, SignsHolds, TickHolds

\* In every reachable state each row agrees with the documents it accepted.
THEOREM RowsHold == Spec => []Inv
<1>1. Init => Inv
  BY InitHolds
<1>2. Inv /\ [Next]_vars => Inv'
  BY StepHolds
<1>. QED  BY <1>1, <1>2, PTL DEF Spec

\* A mirror suppresses the order exactly when it accepted documents that
\* contradict each other (rememberTerminalConflict(), importVerifiedOrder()).
THEOREM SuppressedExactly == Spec => []Quarantined
<1>1. ASSUME Inv, NEW m \in Mirrors, usesPortableTerminalProtocol(row[m])
      PROVE  row[m].equivocated <=> Contradictory(heard[m])
  <2>. DEFINE r == row[m]
              h == heard[m]
              orders == {d \in h : d.kind = "order-v2"}
              terminals == {d \in h : d.kind \in {"fill-v2", "cancel-v2"}}
  <2>1. HeardHolds(r, h) /\ VerdictHolds(r, h)
    BY <1>1 DEF Inv, BookInv, RowInv
  <2>. HIDE DEF r, h
  <2>2. IsFiniteSet(orders) /\ IsFiniteSet(terminals)
    <3>1. IsFiniteSet(h) /\ orders \subseteq h /\ terminals \subseteq h
      BY <2>1 DEF HeardHolds
    <3>. HIDE DEF orders, terminals
    <3>. QED  BY <3>1, FS_Subset
  <2>3. Contradictory(h) <=> \/ \E a, b \in orders : a # b
                             \/ \E a, b \in terminals : a # b
    BY <2>2, TwoOrMore DEF Contradictory
  <2>4. ASSUME r.equivocated
        PROVE  (\E a, b \in orders : a # b) \/ (\E a, b \in terminals : a # b)
    <3>1. ASSUME NEW d \in h, d.kind = "order-v2", d # OrderOf(r.primary)
          PROVE  \E a, b \in orders : a # b
      <4>1. d \in orders /\ OrderOf(r.primary) \in orders
        BY <2>1, <3>1, DocFields DEF HeardHolds
      <4>. QED  BY <3>1, <4>1
    <3>2. ASSUME NEW d \in h, Terminal(d), ~Own(r, d)
          PROVE  \E a, b \in terminals : a # b
      <4>1. d \in terminals
        BY <3>2 DEF Terminal
      <4>2. r.fill # Null \/ r.cancelProof # Null
        BY <2>1, <3>2 DEF VerdictHolds
      <4>3. r.fill # Null => FillOf(r.fill) \in terminals /\ d # FillOf(r.fill)
        BY <2>1, <3>2, DocFields DEF HeardHolds, Own
      <4>4. r.cancelProof # Null => CancelOf(r.cancelProof) \in terminals
                                    /\ d # CancelOf(r.cancelProof)
        BY <2>1, <3>2, DocFields DEF HeardHolds, Own
      <4>. QED  BY <4>1, <4>2, <4>3, <4>4
    <3>. QED  BY <2>1, <2>4, <3>1, <3>2 DEF VerdictHolds
  <2>5. ASSUME NEW a \in orders, NEW b \in orders, a # b
        PROVE  r.equivocated
    BY <2>1, <2>5 DEF VerdictHolds
  <2>6. ASSUME NEW a \in terminals, NEW b \in terminals, a # b, ~r.equivocated
        PROVE  FALSE
    <3>1. Own(r, a) /\ Own(r, b)
      BY <2>1, <2>6 DEF VerdictHolds, Terminal
    <3>2. r.fill = Null \/ r.cancelProof = Null
      BY <2>1 DEF HeardHolds
    <3>. QED  BY <2>6, <3>1, <3>2 DEF Own
  <2>7. r.equivocated <=> Contradictory(h)
    BY <2>3, <2>4, <2>5, <2>6
  <2>. QED  BY <2>7 DEF r, h
<1>2. Inv => Quarantined
  BY <1>1 DEF Quarantined
<1>. QED  BY <1>2, RowsHold, PTL

\* A release that the mirror acknowledged marks the fill the maker posts
\* there later, because a proposal is retained for longer than its fill can be
\* posted (SIGNED_INTENT_RETENTION_S).
THEOREM ReleaseCounts == Spec => []ReleaseStopsFill
<1>1. Inv => ReleaseStopsFill
  BY DEF Inv, BookInv, RowInv, ReleaseHolds, ReleaseStopsFill
<1>. QED  BY <1>1, RowsHold, PTL

\* The row loads at the next start (hydratePersistedOrder()) unless the mirror
\* took a fill or a cancellation of other terms than those it saw first.
THEOREM ReloadsFirst == Spec => []ReloadsOnFirstTerms
<1>1. ASSUME Inv, NEW m \in Mirrors, usesPortableTerminalProtocol(row[m]),
             \A d \in heard[m] : d.kind \in {"fill-v2", "cancel-v2"} => AboutPrimary(row[m], d)
      PROVE  Loadable(row[m])
  <2>. DEFINE r == row[m]
              h == heard[m]
  <2>1. /\ HeardHolds(r, h) /\ ProofsHold(r, h) /\ TermsHold(r)
        /\ r \in Row /\ r.primary \in Variants /\ h \subseteq Documents
    BY <1>1 DEF Inv, BookInv, RowInv, Typed, usesPortableTerminalProtocol, Row
  <2>2. \A d \in h : d.kind \in {"fill-v2", "cancel-v2"} => AboutPrimary(r, d)
    BY <1>1
  <2>. HIDE DEF r, h
  <2>3. ASSUME r.fill # Null
        PROVE  intentDoc[r.fill].v = r.primary /\ r.fill \in Intents
    <3>1. FillOf(r.fill) \in h /\ r.fill \in Intents
      BY <2>1, <2>3 DEF HeardHolds, Row
    <3>2. AboutPrimary(r, FillOf(r.fill))
      BY <2>2, <3>1, DocFields
    <3>. QED  BY <3>1, <3>2, DocFields, BookAssumption DEF AboutPrimary, VariantOf
  <2>4. PrimaryVerifies(r)
    <3>1. CASE r.fill = Null
      BY <2>1, <3>1 DEF TermsHold, PrimaryVerifies
    <3>2. CASE r.fill # Null
      BY <2>1, <2>3, <3>2 DEF TermsHold, PrimaryVerifies, initiatorTimeout
    <3>. QED  BY <3>1, <3>2
  <2>5. IntentsLoad(r) /\ StatusLoads(r)
    BY <2>1 DEF TermsHold, IntentsLoad
  <2>6. FillLoads(r)
    BY <2>1, <2>3 DEF TermsHold, FillLoads
  <2>7. CancelLoads(r)
    <3>1. SUFFICES ASSUME r.cancelProof # Null PROVE r.cancelProof = r.primary
      BY DEF CancelLoads
    <3>2. CancelOf(r.cancelProof) \in h /\ r.cancelProof \in Variants
      BY <2>1, <3>1 DEF HeardHolds, Row
    <3>3. AboutPrimary(r, CancelOf(r.cancelProof))
      BY <2>2, <3>2, DocFields
    <3>. QED  BY <3>2, <3>3, DocFields DEF AboutPrimary, VariantOf
  <2>8. ConflictsLoad(r)
    <3>1. ASSUME NEW d \in ToSet(r.conflicts)
          PROVE  AboutPrimary(r, d) /\ d # FillOf(r.fill) /\ d # CancelOf(r.cancelProof)
      <4>1. d \in h /\ Terminal(d) /\ ~Own(r, d)
        BY <2>1, <3>1 DEF ProofsHold
      <4>2. AboutPrimary(r, d)
        BY <2>2, <4>1 DEF Terminal
      <4>3. d.of # Null
        BY <2>1, <4>1, DocSorts, DocFields, BookAssumption
      <4>. QED  BY <4>1, <4>2, <4>3, DocFields DEF Own
    <3>. QED  BY <2>1, <3>1 DEF ProofsHold, ConflictsLoad
  <2>9. OrderConflictsLoad(r)
    BY <2>1 DEF ProofsHold, OrderConflictsLoad
  <2>10. Loadable(r)
    BY <2>4, <2>5, <2>6, <2>7, <2>8, <2>9 DEF Loadable
  <2>. QED  BY <2>10 DEF r
<1>2. Inv => ReloadsOnFirstTerms
  BY <1>1 DEF ReloadsOnFirstTerms
<1>. QED  BY <1>2, RowsHold, PTL

\* An order that was announced as filled is offered again only when the time
\* of a fill the maker signed is over, if the maker signed no cancellation
\* (sweep() keeps a filled row until its own fill's timeout and the linger).
THEOREM FilledClosed == Spec => []FilledStaysClosed
<1>1. ASSUME Inv, NEW m \in Mirrors, NEW i \in Intents, FillOf(i) \in offer[m],
             View(m).takeable, \A v \in Variants : cancelDoc[v] = Null
      PROVE  Passed
  <2>0. Typed /\ BookInv /\ FilledInv
    BY <1>1 DEF Inv
  <2>1. SUFFICES ASSUME ~Passed, usesPortableTerminalProtocol(row[m]), row[m].fill # Null
                 PROVE  FALSE
    BY <1>1, <2>0 DEF FilledInv
  <2>. DEFINE s == Swept(row[m])
  <2>2. s.status = "open"
    BY <1>1 DEF View
  <2>3. RowInv(s, heard[m]) /\ s.fill # Null
    BY <2>0, <2>1, SweptRow
  <2>. QED  BY <2>2, <2>3 DEF RowInv, TermsHold, StatusLoads
<1>2. Inv => FilledStaysClosed
  BY <1>1 DEF FilledStaysClosed, Passed
<1>. QED  BY <1>2, RowsHold, PTL

-----------------------------------------------------------------------------
(* What mirrors tell each other.                                           *)

\* The documents that a row of signed terms was judged by: a terminal one came
\* after the terms it refers to, and a fill was verified.
Judged(h) ==
    /\ \A d \in h : Terminal(d) => OrderOf(VariantOf(d)) \in h
    /\ \A i \in Intents : FillOf(i) \in h =>
          /\ verifyFillIntent(i, intentDoc[i].v, TRUE)
          /\ verifyFill(i, intentDoc[i].v, TRUE)

\* A row that nothing ended is open until its terms expire.
Idle(r) ==
    /\ r.fill = Null => r.status \in {"open", "cancelled"}
    /\ r.status = "cancelled" /\ r.cancelProof = Null /\ r.fill = Null /\ ~r.equivocated =>
          now >= Expiry[r.primary]

Story(r, h) == Judged(h) /\ Idle(r)

Public(r) == usesPortableTerminalProtocol(r) /\ r.visibility = "public"

\* A public row announced what it was judged by, and a mirror that announced
\* anything announced terms first.
Announced(r, h, o) ==
    /\ o # {} => /\ \E v \in Variants : OrderOf(v) \in o
                 /\ r = Null \/ Public(r)
    /\ Public(r) => \A d \in h : d.kind # "release-v2" => d \in o

\* Unsigned orders and announced ones do not meet under one id.
UnsignedAlone ==
    (\E m \in Mirrors : Unsigned(row[m])) => \A m \in Mirrors : offer[m] = {}

PeersInv ==
    /\ \A m \in Mirrors : usesPortableTerminalProtocol(row[m]) => Story(row[m], heard[m])
    /\ \A m \in Mirrors : Announced(row[m], heard[m], offer[m])
    /\ UnsignedAlone

-----------------------------------------------------------------------------
(* Documents that change nothing.                                          *)

LEMMA RememberedNew ==
    ASSUME NEW S, NEW s \in Seq(S), NEW x \in S, x \notin ToSet(s)
    PROVE  Remembered(s, x) # s
<1>. DEFINE q == Remembered(s, x)
<1>0. MaxConflicts \in Nat /\ MaxConflicts > 0
  BY BookAssumption
<1>1. Len(q) \in 1 .. Len(q) /\ q[Len(q)] = x
  <2>1. CASE Len(s) < MaxConflicts
    <3>1. q = Append(s, x)
      BY <2>1 DEF Remembered
    <3>. QED  BY <3>1
  <2>2. CASE ~(Len(s) < MaxConflicts)
    <3>1. Tail(s) \in Seq(S) /\ q = Append(Tail(s), x)
      BY <1>0, <2>2 DEF Remembered
    <3>. QED  BY <3>1
  <2>. QED  BY <2>1, <2>2
<1>2. \A k \in 1 .. Len(s) : s[k] # x
  BY DEF ToSet
<1>. HIDE DEF q
<1>3. q # s
  BY <1>1, <1>2
<1>. QED  BY <1>3 DEF q

\* What a settled row is offered it has taken before.
LEMMA OldTerms ==
    ASSUME NEW r \in Row, r.primary # Null, NEW v \in Variants, r \in TakeOrder(r, v, TRUE)
    PROVE  r.primary = v \/ v \in ToSet(r.orderConflicts)
<1>. SUFFICES ASSUME r.primary # v, v \notin ToSet(r.orderConflicts) PROVE FALSE
  OBVIOUS
<1>1. r # Null /\ r.orderConflicts \in Seq(Variants)
  BY NullAssumption DEF Row
<1>2. r = Contested(r, v)
  BY <1>1 DEF TakeOrder, Contested, verifyOrder
<1>3. Contested(r, v).orderConflicts = Remembered(r.orderConflicts, v)
  BY DEF Contested, Row
<1>4. Remembered(r.orderConflicts, v) # r.orderConflicts
  BY <1>1, RememberedNew
<1>. QED  BY <1>2, <1>3, <1>4

LEMMA OldTermsHeard ==
    ASSUME NEW r \in Row, r.primary # Null, NEW h, RowInv(r, h),
           NEW v \in Variants, NEW federated \in BOOLEAN, r \in TakeOrder(r, v, federated)
    PROVE  OrderOf(v) \in h
<1>0. r # Null
  BY NullAssumption
<1>1. r.primary = v \/ v \in ToSet(r.orderConflicts)
  <2>1. CASE federated = TRUE
    BY <2>1, OldTerms
  <2>2. CASE federated = FALSE
    BY <1>0, <2>2 DEF TakeOrder
  <2>. QED  BY <2>1, <2>2
<1>. QED  BY <1>1 DEF RowInv, HeardHolds, ProofsHold

LEMMA OldConflict ==
    ASSUME NEW r \in Row, NEW d \in Documents, r = rememberTerminalConflict(r, d)
    PROVE  d \in ToSet(r.conflicts)
<1>. SUFFICES ASSUME d \notin ToSet(r.conflicts) PROVE FALSE
  OBVIOUS
<1>1. r.conflicts \in Seq(Documents)
  BY DEF Row
<1>2. r = [r EXCEPT !.conflicts = Remembered(@, d), !.equivocated = TRUE, !.updatedAt = now]
  BY DEF rememberTerminalConflict
<1>3. r.conflicts = Remembered(r.conflicts, d)
  BY <1>2 DEF Row
<1>. QED  BY <1>1, <1>3, RememberedNew

LEMMA OldFillHeard ==
    ASSUME NEW r \in Row, NEW h, RowInv(r, h),
           NEW i \in Intents, NEW federated \in BOOLEAN, r \in TakeFill(r, i, federated)
    PROVE  FillOf(i) \in h
<1>0. i # Null /\ FillOf(i) \in Documents
  BY BookAssumption, DocTypes
<1>1. CASE r.fill = i
  BY <1>0, <1>1 DEF RowInv, HeardHolds
<1>2. CASE r.fill # i /\ (r.fill # Null \/ r.cancelProof # Null)
  <2>1. r = rememberTerminalConflict(r, FillOf(i))
    BY <1>2 DEF TakeFill
  <2>2. FillOf(i) \in ToSet(r.conflicts)
    BY <1>0, <2>1, OldConflict
  <2>. QED  BY <2>2 DEF RowInv, ProofsHold
<1>3. CASE r.fill = Null /\ r.cancelProof = Null
  <2>1. r = Filled(r, i, federated)
    BY <1>0, <1>3 DEF TakeFill
  <2>2. Filled(r, i, federated).fill = i
    BY DEF Filled, Row
  <2>. QED  BY <1>0, <1>3, <2>1, <2>2
<1>. QED  BY <1>1, <1>2, <1>3

LEMMA OldCancelHeard ==
    ASSUME NEW r \in Row, NEW h, RowInv(r, h),
           NEW v \in Variants, NEW federated \in BOOLEAN, r \in TakeCancel(r, v, federated)
    PROVE  CancelOf(v) \in h
<1>0. v # Null /\ CancelOf(v) \in Documents
  BY BookAssumption, DocTypes
<1>1. CASE r.cancelProof = v
  BY <1>0, <1>1 DEF RowInv, HeardHolds
<1>2. CASE r.cancelProof # v /\ (r.fill # Null \/ r.cancelProof # Null)
  <2>1. r = rememberTerminalConflict(r, CancelOf(v))
    BY <1>2 DEF TakeCancel
  <2>2. CancelOf(v) \in ToSet(r.conflicts)
    BY <1>0, <2>1, OldConflict
  <2>. QED  BY <2>2 DEF RowInv, ProofsHold
<1>3. CASE r.fill = Null /\ r.cancelProof = Null
  <2>1. r = Cancelled(r, v)
    BY <1>0, <1>3 DEF TakeCancel, Cancelled
  <2>2. Cancelled(r, v).cancelProof = v
    BY DEF Cancelled, Row
  <2>. QED  BY <1>0, <1>3, <2>1, <2>2
<1>. QED  BY <1>1, <1>2, <1>3

\* A document that changes nothing was heard before.
LEMMA OldHeard ==
    ASSUME NEW r \in Row, r.primary # Null, NEW h, RowInv(r, h), NEW d \in Documents,
           d.kind = "order-v2" \/ Terminal(d), NEW federated \in BOOLEAN,
           r \in Results(r, d, federated)
    PROVE  d \in h
<1>1. ASSUME NEW v \in Variants, d = OrderOf(v) PROVE d \in h
  <2>1. r \in TakeOrder(r, v, federated)
    BY <1>1, DocFields DEF Results
  <2>. QED  BY <1>1, <2>1, OldTermsHeard
<1>2. ASSUME NEW i \in Intents, d = FillOf(i) PROVE d \in h
  <2>1. r \in TakeFill(r, i, federated)
    BY <1>2, DocFields DEF Results
  <2>. QED  BY <1>2, <2>1, OldFillHeard
<1>3. ASSUME NEW v \in Variants, d = CancelOf(v) PROVE d \in h
  <2>1. r \in TakeCancel(r, v, federated)
    BY <1>3, DocFields DEF Results
  <2>. QED  BY <1>3, <2>1, OldCancelHeard
<1>4. \A i \in Intents : d # IntentOf(i) /\ d # ReleaseOf(i) /\ d # FillReleaseOf(i)
  BY DocFields DEF Terminal
<1>. QED  BY <1>1, <1>2, <1>3, <1>4, DocSorts

-----------------------------------------------------------------------------
(* What a row was judged by.                                               *)

LEMMA VariantsOf ==
    /\ \A v \in Variants : VariantOf(CancelOf(v)) = v
    /\ \A i \in Intents : VariantOf(FillOf(i)) = intentDoc[i].v
<1>1. \A i \in Intents : i \notin Variants
  BY BookAssumption
<1>. QED  BY <1>1, DocFields DEF VariantOf

\* Without a terminal document, the judgement is about other terms at most.
LEMMA JudgedMore ==
    ASSUME NEW h, Judged(h), NEW d, ~Terminal(d)
    PROVE  Judged(h \cup ({d} \cap Weighed))
<1>1. \A i : d # FillOf(i)
  BY DocFields DEF Terminal
<1>. QED  BY <1>1 DEF Judged

\* The terms that a terminal document refers to were heard.
LEMMA ReferencedHeard ==
    ASSUME NEW r, NEW h, RowInv(r, h), NEW v, Referenced(r, v)
    PROVE  OrderOf(v) \in h
BY DEF RowInv, HeardHolds, ProofsHold, Referenced

LEMMA JudgedFill ==
    ASSUME Typed, NEW r \in Row, NEW h, RowInv(r, h), Judged(h),
           NEW i \in Intents, NEW federated \in BOOLEAN, NEW q \in TakeFill(r, i, federated)
    PROVE  Judged(h \cup ({FillOf(i)} \cap Weighed))
<1>1. /\ Referenced(r, intentDoc[i].v) /\ verifyFillIntent(i, intentDoc[i].v, TRUE)
      /\ verifyFill(i, intentDoc[i].v, federated)
  BY DEF TakeFill
<1>2. verifyFill(i, intentDoc[i].v, TRUE)
  BY <1>1 DEF verifyFill
<1>3. OrderOf(intentDoc[i].v) \in h
  BY <1>1, ReferencedHeard
<1>4. VariantOf(FillOf(i)) = intentDoc[i].v
  BY VariantsOf
<1>5. \A j \in Intents : FillOf(j) = FillOf(i) => j = i
  BY DocFields
<1>. DEFINE k == h \cup ({FillOf(i)} \cap Weighed)
<1>6. \A d \in k : d \in h \/ d = FillOf(i)
  OBVIOUS
<1>7. h \subseteq k
  OBVIOUS
<1>. HIDE DEF k
<1>8. \A d \in k : Terminal(d) => OrderOf(VariantOf(d)) \in k
  BY <1>3, <1>4, <1>6, <1>7 DEF Judged
<1>9. \A j \in Intents : FillOf(j) \in k =>
          verifyFillIntent(j, intentDoc[j].v, TRUE) /\ verifyFill(j, intentDoc[j].v, TRUE)
  BY <1>1, <1>2, <1>5, <1>6 DEF Judged
<1>10. Judged(k)
  BY <1>8, <1>9 DEF Judged
<1>. QED  BY <1>10 DEF k

LEMMA JudgedCancel ==
    ASSUME NEW r \in Row, NEW h, RowInv(r, h), Judged(h),
           NEW v \in Variants, NEW federated \in BOOLEAN, NEW q \in TakeCancel(r, v, federated)
    PROVE  Judged(h \cup ({CancelOf(v)} \cap Weighed))
<1>1. Referenced(r, v)
  BY DEF TakeCancel
<1>2. OrderOf(v) \in h
  BY <1>1, ReferencedHeard
<1>3. VariantOf(CancelOf(v)) = v
  BY VariantsOf
<1>4. \A j : FillOf(j) # CancelOf(v)
  BY DocFields
<1>. DEFINE k == h \cup ({CancelOf(v)} \cap Weighed)
<1>5. \A d \in k : d \in h \/ d = CancelOf(v)
  OBVIOUS
<1>6. h \subseteq k
  OBVIOUS
<1>. HIDE DEF k
<1>7. \A d \in k : Terminal(d) => OrderOf(VariantOf(d)) \in k
  BY <1>2, <1>3, <1>5, <1>6 DEF Judged
<1>8. Judged(k)
  BY <1>4, <1>5, <1>7 DEF Judged
<1>. QED  BY <1>8 DEF k

\* What ends a row, of another row of the same terms.
Alike(r, q) ==
    /\ q.primary = r.primary /\ q.visibility = r.visibility /\ q.fill = r.fill
    /\ q.cancelProof = r.cancelProof /\ q.equivocated = r.equivocated /\ q.status = r.status

LEMMA AlikeIdle ==
    ASSUME NEW r, NEW q, Idle(r), Alike(r, q)
    PROVE  Idle(q)
BY DEF Idle, Alike

\* Each document leaves an idle row idle.
LEMMA IdleResults ==
    ASSUME Typed, NEW r \in Row, r.primary # Null, Idle(r), NEW d \in Documents,
           NEW federated \in BOOLEAN, NEW q \in Results(r, d, federated)
    PROVE  Idle(q) /\ q.visibility = r.visibility
<1>. DEFINE Goal == Idle(q) /\ q.visibility = r.visibility
<1>0. r # Null
  BY NullAssumption
<1>1. ASSUME Alike(r, q) PROVE Goal
  BY <1>1, AlikeIdle DEF Alike
<1>2. ASSUME q = r PROVE Goal
  BY <1>2
<1>3. ASSUME NEW v \in Variants, d = OrderOf(v) PROVE Goal
  <2>1. q \in TakeOrder(r, v, federated)
    BY <1>3, DocFields DEF Results
  <2>2. q = r \/ q = Contested(r, v)
    BY <1>0, <2>1 DEF TakeOrder, Contested
  <2>3. ASSUME q = Contested(r, v) PROVE Goal
    <3>1. /\ q.fill = r.fill /\ q.equivocated = TRUE /\ q.visibility = r.visibility
          /\ q.status = IF r.status \in {"open", "accepted"} THEN "cancelled" ELSE r.status
      BY <2>3 DEF Contested, Row
    <3>. QED  BY <3>1 DEF Idle
  <2>. QED  BY <1>2, <2>2, <2>3
<1>4. ASSUME NEW x \in Documents, q = rememberTerminalConflict(r, x) PROVE Goal
  <2>1. CASE x \in ToSet(r.conflicts)
    BY <1>2, <1>4, <2>1 DEF rememberTerminalConflict
  <2>2. CASE x \notin ToSet(r.conflicts)
    <3>1. q = [r EXCEPT !.conflicts = Remembered(@, x), !.equivocated = TRUE, !.updatedAt = now]
      BY <1>4, <2>2 DEF rememberTerminalConflict
    <3>2. /\ q.fill = r.fill /\ q.equivocated = TRUE /\ q.visibility = r.visibility
          /\ q.status = r.status
      BY <3>1 DEF Row
    <3>. QED  BY <3>2 DEF Idle
  <2>. QED  BY <2>1, <2>2
<1>5. ASSUME NEW i \in Intents, d = IntentOf(i) PROVE Goal
  <2>1. q \in TakeIntent(r, i, federated)
    BY <1>5, DocFields DEF Results
  <2>2. q = r \/ q = [r EXCEPT !.fillIntents = @ \cup {i}, !.updatedAt = now]
    BY <2>1 DEF TakeIntent
  <2>3. ASSUME q = [r EXCEPT !.fillIntents = @ \cup {i}, !.updatedAt = now] PROVE Alike(r, q)
    BY <2>3 DEF Alike, Row
  <2>. QED  BY <1>1, <1>2, <2>2, <2>3
<1>6. ASSUME NEW i \in Intents, d = FillOf(i) PROVE Goal
  <2>1. q \in TakeFill(r, i, federated)
    BY <1>6, DocFields DEF Results
  <2>2. q = r \/ q = rememberTerminalConflict(r, FillOf(i)) \/ q = Filled(r, i, federated)
    BY <2>1 DEF TakeFill
  <2>3. ASSUME q = Filled(r, i, federated) PROVE Goal
    <3>1. q.fill = i /\ q.visibility = r.visibility
      BY <2>3 DEF Filled, Row
    <3>2. i # Null
      BY BookAssumption
    <3>. QED  BY <3>1, <3>2 DEF Idle
  <2>. QED  BY <1>2, <1>4, <2>2, <2>3, DocTypes
<1>7. ASSUME NEW v \in Variants, d = CancelOf(v) PROVE Goal
  <2>1. q \in TakeCancel(r, v, federated)
    BY <1>7, DocFields DEF Results
  <2>2. q = r \/ q = rememberTerminalConflict(r, CancelOf(v)) \/ q = Cancelled(r, v)
    BY <2>1 DEF TakeCancel, Cancelled
  <2>3. ASSUME q = Cancelled(r, v) PROVE Goal
    <3>1. q.cancelProof = v /\ q.visibility = r.visibility /\ q.status = "cancelled"
      BY <2>3 DEF Cancelled, Row
    <3>2. v # Null
      BY BookAssumption
    <3>. QED  BY <3>1, <3>2 DEF Idle
  <2>. QED  BY <1>2, <1>4, <2>2, <2>3, DocTypes
<1>8. ASSUME NEW i \in Intents, d = ReleaseOf(i) PROVE Goal
  <2>1. q \in TakeRelease(r, i)
    BY <1>8, DocFields DEF Results
  <2>2. q = r \/ q = Released(r, i)
    BY <2>1 DEF TakeRelease, Released
  <2>3. ASSUME q = Released(r, i) PROVE Alike(r, q)
    BY <2>3 DEF Alike, Released, Row
  <2>. QED  BY <1>1, <1>2, <2>2, <2>3
<1>9. ASSUME NEW i \in Intents, d = FillReleaseOf(i) PROVE Goal
  <2>1. q \in TakeFillRelease(r, i)
    BY <1>9, DocFields DEF Results
  <2>2. q = r \/ q = [r EXCEPT !.released = TRUE, !.updatedAt = now]
    BY <2>1 DEF TakeFillRelease
  <2>3. ASSUME q = [r EXCEPT !.released = TRUE, !.updatedAt = now] PROVE Alike(r, q)
    BY <2>3 DEF Alike, Row
  <2>. QED  BY <1>1, <1>2, <2>2, <2>3
<1>. QED  BY <1>3, <1>5, <1>6, <1>7, <1>8, <1>9, DocSorts

LEMMA JudgedResults ==
    ASSUME Typed, NEW r \in Row, NEW h, RowInv(r, h), Judged(h), NEW d \in Documents,
           NEW federated \in BOOLEAN, NEW q \in Results(r, d, federated)
    PROVE  Judged(h \cup ({d} \cap Weighed))
<1>1. ASSUME NEW i \in Intents, d = FillOf(i) PROVE Judged(h \cup ({d} \cap Weighed))
  <2>1. q \in TakeFill(r, i, federated)
    BY <1>1, DocFields DEF Results
  <2>. QED  BY <1>1, <2>1, JudgedFill
<1>2. ASSUME NEW v \in Variants, d = CancelOf(v) PROVE Judged(h \cup ({d} \cap Weighed))
  <2>1. q \in TakeCancel(r, v, federated)
    BY <1>2, DocFields DEF Results
  <2>. QED  BY <1>2, <2>1, JudgedCancel
<1>3. ASSUME \A i \in Intents : d # FillOf(i), \A v \in Variants : d # CancelOf(v)
      PROVE  ~Terminal(d)
  BY <1>3, DocSorts, DocFields DEF Terminal
<1>. QED  BY <1>1, <1>2, <1>3, JudgedMore

\* A new row, a swept one, and one that time passes over.
LEMMA NewStory ==
    ASSUME NEW v \in Variants, NEW visibility
    PROVE  Story(NewRow(v, visibility), {OrderOf(v)}) /\ NewRow(v, visibility).visibility = visibility
<1>0. ~Terminal(OrderOf(v)) /\ \A i : FillOf(i) # OrderOf(v)
  BY DocFields DEF Terminal
<1>1. Judged({OrderOf(v)})
  BY <1>0 DEF Judged
<1>2. Idle(NewRow(v, visibility))
  BY DEF Idle, NewRow
<1>. QED  BY <1>1, <1>2 DEF Story, NewRow

LEMMA SweptIdle ==
    ASSUME Typed, NEW r \in Row, r.primary # Null, Idle(r), TermsHold(r), Swept(r) # Null
    PROVE  Idle(Swept(r)) /\ Swept(r).visibility = r.visibility
<1>. DEFINE q == Swept(r)
<1>1. /\ q.status = r.status \/ (q.status = "cancelled" /\ Expires(r))
      /\ q.status = r.status \/ (q.status = "cancelled" /\ r.status \in {"open", "accepted"})
      /\ q.primary = r.primary /\ q.visibility = r.visibility /\ q.fill = r.fill
      /\ q.cancelProof = r.cancelProof /\ q.equivocated = r.equivocated
  BY SweptFields
<1>. HIDE DEF q
<1>2. CASE q.status = r.status
  <2>1. Alike(r, q)
    BY <1>1, <1>2 DEF Alike
  <2>. QED  BY <1>1, <2>1, AlikeIdle DEF q
<1>3. CASE q.status # r.status
  <2>1. ASSUME q.fill = Null PROVE now >= Expiry[q.primary]
    <3>1. r.status = "open"
      BY <1>1, <1>3, <2>1 DEF Idle
    <3>2. r.primary \in Variants /\ r.updatedAt \in Nat /\ now \in Nat
      BY DEF Row, Typed
    <3>3. Expiry[r.primary] \in Nat /\ OpenTTL \in Nat /\ Expiry[r.primary] <= OpenTTL
      BY <3>2, BookAssumption
    <3>4. now - r.updatedAt > OpenTTL \/ now >= Expiry[r.primary]
      BY <1>1, <1>3, <3>1 DEF Expires
    <3>. QED  BY <1>1, <3>2, <3>3, <3>4
  <2>2. q.status = "cancelled"
    BY <1>1, <1>3
  <2>3. Idle(q)
    BY <2>1, <2>2 DEF Idle
  <2>. QED  BY <1>1, <2>3 DEF q
<1>. QED  BY <1>2, <1>3

LEMMA StoryStable ==
    ASSUME Typed, Typed', Forward, NEW r \in Row, r.primary # Null,
           NEW h \in SUBSET Documents, HeardHolds(r, h), Story(r, h)
    PROVE  Story(r, h)'
<1>0. Judged(h) /\ Idle(r)
  BY DEF Story
<1>1. ASSUME NEW i \in Intents, FillOf(i) \in h
      PROVE  /\ VariantOf(FillOf(i))' = VariantOf(FillOf(i))
             /\ (/\ verifyFillIntent(i, intentDoc[i].v, TRUE)
                 /\ verifyFill(i, intentDoc[i].v, TRUE))'
  <2>1. fillDoc[i] # Null /\ intentDoc[i] # Null
    BY <1>1, SignedDocs, SignedTerms DEF HeardHolds
  <2>2. intentDoc'[i] = intentDoc[i] /\ fillDoc'[i] = fillDoc[i]
    BY <2>1 DEF Forward
  <2>3. /\ verifyFillIntent(i, intentDoc[i].v, TRUE)
        /\ verifyFill(i, intentDoc[i].v, TRUE)
    BY <1>0, <1>1 DEF Judged
  <2>4. VariantOf(FillOf(i))' = VariantOf(FillOf(i))
    BY <2>2, DocFields DEF VariantOf, FillOf
  <2>. QED  BY <2>2, <2>3, <2>4 DEF verifyFillIntent, verifyFill, expiresAt, respondBy
<1>2. ASSUME NEW d \in h, Terminal(d)
      PROVE  VariantOf(d)' = VariantOf(d)
  <2>1. ASSUME NEW v \in Variants, d = CancelOf(v) PROVE VariantOf(d)' = VariantOf(d)
    BY <2>1, DocFields DEF VariantOf
  <2>2. ASSUME NEW i \in Intents, d = FillOf(i) PROVE VariantOf(d)' = VariantOf(d)
    <3>1. d.of = i
      BY <2>2, DocFields
    <3>2. fillDoc[i] # Null /\ intentDoc[i] # Null
      BY <1>2, <2>2, SignedDocs, SignedTerms DEF HeardHolds
    <3>3. intentDoc'[i] = intentDoc[i]
      BY <3>2 DEF Forward
    <3>. QED  BY <3>1, <3>3 DEF VariantOf
  <2>3. d \in Documents
    OBVIOUS
  <2>. QED  BY <1>2, <2>1, <2>2, <2>3, DocSorts, DocFields DEF Terminal
<1>3. Judged(h)'
  <2>1. \A d \in h : Terminal(d) => OrderOf(VariantOf(d)) \in h
    BY <1>0 DEF Judged
  <2>2. \A d : Terminal(d)' <=> Terminal(d)
    BY DEF Terminal
  <2>3. \A d \in h : Terminal(d)' => OrderOf(VariantOf(d)') \in h
    BY <1>2, <2>1, <2>2
  <2>. QED  BY <1>1, <2>3 DEF Judged, OrderOf, FillOf
<1>4. Idle(r)'
  <2>1. now \in Nat /\ now' \in Nat /\ now' >= now /\ r.primary \in Variants
    BY DEF Typed, Forward, Row
  <2>2. Expiry[r.primary] \in Nat
    BY <2>1, BookAssumption
  <2>. QED  BY <1>0, <2>1, <2>2 DEF Idle
<1>. QED  BY <1>3, <1>4 DEF Story

-----------------------------------------------------------------------------
(* Steps of one mirror, for the others.                                    *)

\* A mirror that moved to q and h announced what it had to.
Posts(m, q, h) ==
    /\ usesPortableTerminalProtocol(q) => Story(q, h)
    /\ Announced(q, h, offer'[m])
    /\ Unsigned(q) => \A n \in Mirrors : offer[n] = {}
    /\ Unsigned(q) \/ (\E n \in Mirrors \ {m} : Unsigned(row[n])) => offer'[m] = {}

LEMMA AnnouncedNext ==
    ASSUME NEW n
    PROVE  /\ Announced(row[n], heard[n], offer[n])' <=> Announced(row'[n], heard'[n], offer'[n])
           /\ Unsigned(row[n])' <=> Unsigned(row'[n])
           /\ usesPortableTerminalProtocol(row[n])' <=> usesPortableTerminalProtocol(row'[n])
<1>1. Unsigned(row[n])' <=> Unsigned(row'[n])
  BY DEF Unsigned
<1>2. usesPortableTerminalProtocol(row[n])' <=> usesPortableTerminalProtocol(row'[n])
  BY DEF usesPortableTerminalProtocol
<1>3. Public(row[n])' <=> Public(row'[n])
  BY <1>2 DEF Public
<1>4. Announced(row[n], heard[n], offer[n])' <=> Announced(row'[n], heard'[n], offer'[n])
  BY <1>3 DEF Announced, OrderOf
<1>. QED  BY <1>1, <1>2, <1>4

\* What a mirror's row says of itself survives steps that leave it alone.
LEMMA StoriesStable ==
    ASSUME Typed, Typed', Forward, NEW n \in Mirrors, NEW r \in Row \cup {Null},
           NEW h \in SUBSET Documents, r = row'[n], h = heard'[n],
           usesPortableTerminalProtocol(r) => RowInv(r, h) /\ Story(r, h),
           usesPortableTerminalProtocol(row[n])'
    PROVE  Story(row[n], heard[n])'
<1>1. usesPortableTerminalProtocol(r)
  BY DEF usesPortableTerminalProtocol
<1>2. r \in Row /\ r.primary # Null /\ HeardHolds(r, h) /\ Story(r, h)
  BY <1>1 DEF RowInv, usesPortableTerminalProtocol
<1>3. Story(r, h)'
  BY <1>2, StoryStable
<1>. QED  BY <1>3

LEMMA PostsHold ==
    ASSUME Typed, BookInv, PeersInv, NEW m \in Mirrors, NEW q, NEW h, Moved(m, q, h),
           Posts(m, q, h)
    PROVE  PeersInv'
<1>1. /\ now' = now /\ intentDoc' = intentDoc /\ fillDoc' = fillDoc /\ cancelDoc' = cancelDoc
      /\ row' = [row EXCEPT ![m] = q] /\ heard' = [heard EXCEPT ![m] = h]
      /\ q \in Row \cup {Null} /\ h \in SUBSET Documents
      /\ usesPortableTerminalProtocol(q) => RowInv(q, h)
  BY DEF Moved
<1>2. Typed'
  BY MovedHolds
<1>3. Forward
  BY <1>1 DEF Forward, Typed
<1>4. /\ row'[m] = q /\ heard'[m] = h
      /\ \A n \in Mirrors \ {m} : row'[n] = row[n] /\ heard'[n] = heard[n]
                                  /\ offer'[n] = offer[n]
  BY <1>1 DEF Moved, Typed
<1>5. ASSUME NEW n \in Mirrors, usesPortableTerminalProtocol(row[n])'
      PROVE  Story(row[n], heard[n])'
  <2>1. PICK r : r = row'[n]
    OBVIOUS
  <2>2. PICK k : k = heard'[n]
    OBVIOUS
  <2>3. r \in Row \cup {Null} /\ k \in SUBSET Documents
    BY <1>2, <2>1, <2>2 DEF Typed
  <2>4. usesPortableTerminalProtocol(r) => RowInv(r, k) /\ Story(r, k)
    <3>1. CASE n = m
      BY <1>1, <1>4, <2>1, <2>2, <3>1 DEF Posts
    <3>2. CASE n # m
      BY <1>4, <2>1, <2>2, <3>2 DEF BookInv, PeersInv
    <3>. QED  BY <3>1, <3>2
  <2>. QED  BY <1>2, <1>3, <1>5, <2>1, <2>2, <2>3, <2>4, StoriesStable
<1>6. ASSUME NEW n \in Mirrors
      PROVE  Announced(row[n], heard[n], offer[n])'
  <2>1. CASE n = m
    BY <1>4, <2>1, AnnouncedNext DEF Posts
  <2>2. CASE n # m
    BY <1>4, <2>2, AnnouncedNext DEF PeersInv
  <2>. QED  BY <2>1, <2>2
<1>7. UnsignedAlone'
  <2>1. SUFFICES ASSUME NEW n \in Mirrors, Unsigned(row'[n]), NEW p \in Mirrors
                 PROVE  offer'[p] = {}
    BY AnnouncedNext DEF UnsignedAlone
  <2>2. CASE n = m
    <3>1. Unsigned(q)
      BY <1>4, <2>1, <2>2
    <3>. QED  BY <1>4, <3>1 DEF Posts
  <2>3. CASE n # m
    <3>1. Unsigned(row[n])
      BY <1>4, <2>1, <2>3
    <3>2. \A x \in Mirrors : offer[x] = {}
      BY <3>1 DEF PeersInv, UnsignedAlone
    <3>. QED  BY <1>4, <2>3, <3>1, <3>2 DEF Posts
  <2>. QED  BY <2>2, <2>3
<1>. QED  BY <1>5, <1>6, <1>7 DEF PeersInv

\* A swept row has the story of the row, and stays public.
LEMMA SweptStory ==
    ASSUME Typed, BookInv, PeersInv, NEW m \in Mirrors, Swept(row[m]) # Null
    PROVE  LET s == Swept(row[m]) IN
           /\ s \in Row /\ row[m] \in Row /\ s.primary = row[m].primary
           /\ s.visibility = row[m].visibility
           /\ Unsigned(s) <=> Unsigned(row[m])
           /\ Public(s) <=> Public(row[m])
           /\ s.primary # Null => /\ RowInv(row[m], heard[m]) /\ RowInv(s, heard[m])
                                  /\ Story(s, heard[m])
<1>. DEFINE r == row[m]
            s == Swept(row[m])
<1>1. r # Null
  BY DEF Swept
<1>2. r \in Row
  BY <1>1, RowTyped
<1>3. s \in Row /\ s.primary = r.primary /\ s.visibility = r.visibility
  BY <1>2, SweptFields
<1>4. ASSUME r.primary # Null
      PROVE  RowInv(r, heard[m]) /\ RowInv(s, heard[m]) /\ Story(s, heard[m])
  <2>1. usesPortableTerminalProtocol(r)
    BY <1>1, <1>4 DEF usesPortableTerminalProtocol
  <2>2. RowInv(r, heard[m]) /\ Judged(heard[m]) /\ Idle(r)
    BY <2>1 DEF BookInv, PeersInv, Story
  <2>3. RowInv(s, heard[m])
    BY <1>2, <2>2, SweptHolds
  <2>4. Idle(s)
    BY <1>2, <1>4, <2>2, SweptIdle DEF RowInv
  <2>. QED  BY <2>2, <2>3, <2>4 DEF Story
<1>5. s # Null
  OBVIOUS
<1>. HIDE DEF r, s
<1>6. (Unsigned(s) <=> Unsigned(r)) /\ (Public(s) <=> Public(r))
  BY <1>1, <1>3, <1>5 DEF Unsigned, Public, usesPortableTerminalProtocol
<1>. QED  BY <1>2, <1>3, <1>4, <1>6 DEF r, s

\* Where an unsigned order is, nobody offers anything.
LEMMA NothingOffered ==
    ASSUME BookInv, PeersInv, NEW n \in Mirrors, Unsigned(row[n]), NEW p \in Mirrors
    PROVE  Offered(p) = {} /\ ~Public(row[p])
<1>1. offer[p] = {}
  BY DEF PeersInv, UnsignedAlone
<1>2. ~Public(row[p])
  <2>1. SUFFICES ASSUME Public(row[p]) PROVE FALSE
    OBVIOUS
  <2>2. OrderOf(row[p].primary) \in heard[p]
    BY <2>1 DEF Public, BookInv, RowInv, HeardHolds
  <2>3. OrderOf(row[p].primary).kind # "release-v2"
    BY DocFields
  <2>. QED  BY <1>1, <2>1, <2>2, <2>3 DEF PeersInv, Announced
<1>3. federationSnapshot(row[p]) = {}
  <2>1. \/ ~usesPortableTerminalProtocol(row[p])
        \/ row[p] # Null /\ row[p].visibility # "public"
    BY <1>2 DEF Public, usesPortableTerminalProtocol
  <2>. QED  BY <2>1 DEF federationSnapshot
<1>. QED  BY <1>1, <1>2, <1>3 DEF Offered

LEMMA HandlePosts ==
    ASSUME Typed, BookInv, PeersInv, NEW m \in Mirrors, NEW d \in Documents,
           NEW federated \in BOOLEAN, Handle(m, d, federated),
           (\E n \in Mirrors : Unsigned(row[n])) => \A v \in Variants : d # OrderOf(v)
    PROVE  PeersInv'
<1>. DEFINE old == Swept(row[m])
            k == (IF old = Null THEN {} ELSE heard[m]) \cup ({d} \cap Weighed)
            o == offer'[m]
<1>1. PICK q \in Results(old, d, federated) :
        /\ row' = [row EXCEPT ![m] = q]
        /\ offer' = IF q # old /\ q.visibility = "public"
                    THEN [offer EXCEPT ![m] = @ \cup {d}] ELSE offer
        /\ heard' = [heard EXCEPT ![m] = (IF old = Null THEN {} ELSE @) \cup ({d} \cap Weighed)]
        /\ Signed(d)
  BY DEF Handle
<1>2. PICK q0, h : Moved(m, q0, h)
  BY HandleMoves
<1>3. q0 = q /\ h = k
  <2>1. q0 = row'[m] /\ q = row'[m]
    BY <1>1, <1>2 DEF Moved, Typed
  <2>2. h = heard'[m] /\ k = heard'[m]
    BY <1>1, <1>2 DEF Moved, Typed
  <2>. QED  BY <2>1, <2>2
<1>4. o = IF q # old /\ q.visibility = "public" THEN offer[m] \cup {d} ELSE offer[m]
  BY <1>1 DEF Typed
<1>5. Announced(row[m], heard[m], offer[m])
  BY DEF PeersInv
<1>. HIDE DEF o
<1>6. CASE old = Null
  <2>1. PICK v \in Variants : d = OrderOf(v) /\ q = NewRow(v, "public")
    BY <1>1, <1>6, FirstResults
  <2>2. k = {OrderOf(v)}
    BY <1>6, <2>1, WeighedDocs
  <2>3. q \in Row /\ q.primary = v /\ v # Null
    BY <2>1, NewRowHolds, BookAssumption
  <2>4. Story(q, k) /\ q.visibility = "public"
    BY <2>1, <2>2, NewStory
  <2>5. q # Null
    BY <2>3, NullAssumption
  <2>. HIDE DEF old, k
  <2>6. o = offer[m] \cup {OrderOf(v)}
    BY <1>4, <1>6, <2>1, <2>4, <2>5
  <2>7. Public(q) /\ ~Unsigned(q)
    BY <2>3, <2>4, <2>5 DEF Public, usesPortableTerminalProtocol, Unsigned
  <2>8. Announced(q, k, o)
    BY <2>2, <2>6, <2>7 DEF Announced
  <2>9. ~ \E n \in Mirrors : Unsigned(row[n])
    BY <2>1
  <2>10. Posts(m, q, k)
    BY <2>4, <2>7, <2>8, <2>9 DEF Posts, o
  <2>. QED  BY <1>2, <1>3, <2>10, PostsHold
<1>7. ASSUME old # Null
      PROVE  PeersInv'
  <2>1. /\ old \in Row /\ row[m] \in Row /\ old.primary = row[m].primary
        /\ old.visibility = row[m].visibility
        /\ Unsigned(old) <=> Unsigned(row[m])
        /\ Public(old) <=> Public(row[m])
        /\ old.primary # Null => /\ RowInv(row[m], heard[m]) /\ RowInv(old, heard[m])
                                 /\ Story(old, heard[m])
    BY <1>7, SweptStory
  <2>2. k = heard[m] \cup ({d} \cap Weighed)
    BY <1>7
  <2>. HIDE DEF old, k
  <2>3. old.primary # Null
    <3>1. SUFFICES ASSUME old.primary = Null PROVE FALSE
      OBVIOUS
    <3>2. \E v \in Variants : d = OrderOf(v)
      BY <1>1, <2>1, <3>1, LegacyResults
    <3>3. Unsigned(row[m])
      BY <1>7, <2>1, <3>1 DEF Unsigned
    <3>. QED  BY <3>2, <3>3
  <2>4. heard[m] \in SUBSET Documents
    BY <2>1, RowTyped
  <2>5. Accepted(old, heard[m], d, q)
    BY <1>1, <2>1, <2>3, <2>4, ResultsHold
  <2>6. q \in Row /\ q.primary = old.primary /\ q # Null
    BY <2>5, NullAssumption DEF Accepted
  <2>7. Idle(q) /\ q.visibility = old.visibility
    BY <1>1, <2>1, <2>3, IdleResults DEF Story
  <2>8. Story(q, k)
    BY <1>1, <2>1, <2>2, <2>3, <2>7, JudgedResults DEF Story
  <2>9. ~Unsigned(q) /\ (Public(q) <=> Public(row[m]))
    BY <1>7, <2>1, <2>3, <2>6, <2>7 DEF Unsigned, Public, usesPortableTerminalProtocol
  <2>10. CASE Public(row[m])
    <3>1. OrderOf(row[m].primary) \in offer[m] /\ row[m].primary \in Variants
      <4>1. OrderOf(row[m].primary) \in heard[m] /\ row[m].primary \in Variants
        BY <2>1, <2>3 DEF RowInv, HeardHolds, Row
      <4>. QED  BY <1>5, <2>10, <4>1, DocFields DEF Announced
    <3>2. offer[m] \subseteq o
      BY <1>4
    <3>3. ASSUME NEW x \in k, x.kind # "release-v2" PROVE x \in o
      <4>1. CASE x \in heard[m]
        BY <1>5, <2>10, <3>2, <3>3, <4>1 DEF Announced
      <4>2. CASE x \notin heard[m]
        <5>1. x = d /\ d \in Weighed
          BY <2>2, <3>3, <4>2
        <5>2. d.kind = "order-v2" \/ Terminal(d)
          BY <3>3, <5>1, DocSorts, DocFields, WeighedDocs DEF Terminal
        <5>3. q # old
          BY <1>1, <2>1, <2>3, <4>2, <5>1, <5>2, OldHeard
        <5>4. q.visibility = "public"
          BY <2>9, <2>10 DEF Public
        <5>. QED  BY <1>4, <5>1, <5>3, <5>4
      <4>. QED  BY <4>1, <4>2
    <3>4. Announced(q, k, o)
      BY <2>9, <2>10, <3>1, <3>2, <3>3 DEF Announced
    <3>5. ~ \E n \in Mirrors : Unsigned(row[n])
      BY <2>10, NothingOffered
    <3>6. Posts(m, q, k)
      BY <2>8, <2>9, <3>4, <3>5 DEF Posts, o
    <3>. QED  BY <1>2, <1>3, <3>6, PostsHold
  <2>11. CASE ~Public(row[m])
    <3>1. row[m] # Null /\ usesPortableTerminalProtocol(row[m])
      BY <2>1, <2>3, NullAssumption DEF usesPortableTerminalProtocol
    <3>2. offer[m] = {} /\ row[m].visibility # "public"
      BY <1>5, <2>11, <3>1 DEF Announced, Public
    <3>3. o = {}
      BY <1>4, <2>1, <2>7, <3>2
    <3>4. Announced(q, k, o)
      BY <2>9, <2>11, <3>3 DEF Announced
    <3>5. Posts(m, q, k)
      BY <2>8, <2>9, <3>3, <3>4 DEF Posts, o
    <3>. QED  BY <1>2, <1>3, <3>5, PostsHold
  <2>. QED  BY <2>10, <2>11
<1>. QED  BY <1>6, <1>7

LEMMA PrivatePosts ==
    ASSUME Typed, BookInv, PeersInv, NEW m \in Mirrors, NEW v \in Variants, PostPrivate(m, v)
    PROVE  PeersInv'
<1>1. /\ \A n \in Mirrors : offer[n] = {}
      /\ offer' = offer /\ row' = [row EXCEPT ![m] = NewRow(v, "private")]
      /\ heard' = [heard EXCEPT ![m] = {OrderOf(v)}]
  BY DEF PostPrivate
<1>2. PICK q, h : Moved(m, q, h)
  BY PostPrivateMoves
<1>3. q = NewRow(v, "private") /\ h = {OrderOf(v)}
  <2>1. q = row'[m] /\ h = heard'[m]
    BY <1>2 DEF Moved, Typed
  <2>. QED  BY <1>1, <2>1 DEF Typed
<1>4. Story(q, h) /\ q.visibility = "private" /\ q.primary = v /\ v # Null
  BY <1>3, NewStory, BookAssumption DEF NewRow
<1>5. ~Public(q) /\ ~Unsigned(q)
  BY <1>4 DEF Public, Unsigned
<1>6. offer'[m] = {}
  BY <1>1
<1>7. Announced(q, h, offer'[m])
  BY <1>5, <1>6 DEF Announced
<1>8. Posts(m, q, h)
  BY <1>4, <1>5, <1>6, <1>7 DEF Posts
<1>. QED  BY <1>2, <1>8, PostsHold

LEMMA SweepPosts ==
    ASSUME Typed, BookInv, PeersInv, NEW m \in Mirrors, ReadSweeps(m)
    PROVE  PeersInv'
<1>. DEFINE s == Swept(row[m])
<1>1. /\ offer' = offer /\ row' = [row EXCEPT ![m] = s]
      /\ heard' = [heard EXCEPT ![m] = IF s = Null THEN {} ELSE @]
  BY DEF ReadSweeps, Typed
<1>2. PICK q, h : Moved(m, q, h)
  BY SweepMoves
<1>3. q = s /\ h = (IF s = Null THEN {} ELSE heard[m])
  <2>1. q = row'[m] /\ h = heard'[m]
    BY <1>2 DEF Moved, Typed
  <2>. QED  BY <1>1, <2>1 DEF Typed
<1>4. Announced(row[m], heard[m], offer[m]) /\ UnsignedAlone
  BY DEF PeersInv
<1>5. CASE s = Null
  <2>1. ~Public(q) /\ ~Unsigned(q) /\ ~usesPortableTerminalProtocol(q) /\ q = Null
    BY <1>3, <1>5 DEF Public, Unsigned, usesPortableTerminalProtocol
  <2>2. Announced(q, h, offer'[m])
    BY <1>1, <1>4, <2>1 DEF Announced
  <2>3. Posts(m, q, h)
    BY <1>1, <1>4, <2>1, <2>2 DEF Posts, UnsignedAlone
  <2>. QED  BY <1>2, <2>3, PostsHold
<1>6. CASE s # Null
  <2>1. /\ s \in Row
        /\ Unsigned(s) <=> Unsigned(row[m])
        /\ Public(s) <=> Public(row[m])
        /\ s.primary # Null => Story(s, heard[m])
    BY <1>6, SweptStory
  <2>. HIDE DEF s
  <2>2. row[m] # Null
    BY <1>6 DEF s, Swept
  <2>3. h = heard[m] /\ q = s
    BY <1>3, <1>6
  <2>4. Announced(q, h, offer'[m])
    BY <1>1, <1>4, <2>1, <2>2, <2>3 DEF Announced
  <2>5. Posts(m, q, h)
    BY <1>1, <1>4, <2>1, <2>3, <2>4 DEF Posts, UnsignedAlone, usesPortableTerminalProtocol
  <2>. QED  BY <1>2, <2>5, PostsHold
<1>. QED  BY <1>5, <1>6

LEMMA LegacyPosts ==
    ASSUME Typed, BookInv, PeersInv, NEW m \in Mirrors, Legacy(m)
    PROVE  PeersInv'
<1>1. /\ (\A n \in Mirrors : offer[n] = {}) \/ Unsigned(row[m])
      /\ offer' = offer
  BY LegacyHolds DEF LegacyMoved
<1>2. PICK q, h : Moved(m, q, h) /\ Unsigned(q)
  BY LegacyHolds DEF LegacyMoved
<1>3. \A n \in Mirrors : offer[n] = {}
  BY <1>1 DEF PeersInv, UnsignedAlone
<1>4. ~usesPortableTerminalProtocol(q) /\ ~Public(q)
  BY <1>2 DEF Unsigned, Public, usesPortableTerminalProtocol
<1>5. offer'[m] = {}
  BY <1>1, <1>3
<1>6. Announced(q, h, offer'[m])
  BY <1>4, <1>5 DEF Announced
<1>7. Posts(m, q, h)
  BY <1>3, <1>4, <1>5, <1>6 DEF Posts
<1>. QED  BY <1>2, <1>7, PostsHold

\* The signers and the clock.
LEMMA QuietPeers ==
    ASSUME Typed, Typed', Forward, BookInv, PeersInv, UNCHANGED <<row, offer, heard>>
    PROVE  PeersInv'
<1>0. row' = row /\ offer' = offer /\ heard' = heard
  OBVIOUS
<1>1. ASSUME NEW n \in Mirrors, usesPortableTerminalProtocol(row[n])'
      PROVE  Story(row[n], heard[n])'
  <2>1. PICK r : r = row'[n]
    OBVIOUS
  <2>2. PICK k : k = heard'[n]
    OBVIOUS
  <2>3. r \in Row \cup {Null} /\ k \in SUBSET Documents
    BY <2>1, <2>2 DEF Typed
  <2>4. usesPortableTerminalProtocol(r) => RowInv(r, k) /\ Story(r, k)
    BY <1>0, <2>1, <2>2 DEF BookInv, PeersInv
  <2>. QED  BY <1>1, <2>1, <2>2, <2>3, <2>4, StoriesStable
<1>2. \A n \in Mirrors : Announced(row[n], heard[n], offer[n])'
  BY <1>0, AnnouncedNext DEF PeersInv
<1>3. UnsignedAlone'
  BY <1>0, AnnouncedNext DEF PeersInv, UnsignedAlone
<1>. QED  BY <1>1, <1>2, <1>3 DEF PeersInv

LEMMA InitPeers ==
    ASSUME Init
    PROVE  PeersInv
<1>1. \A m \in Mirrors : row[m] = Null /\ offer[m] = {} /\ heard[m] = {}
  BY DEF Init
<1>2. \A m \in Mirrors : ~usesPortableTerminalProtocol(row[m]) /\ ~Public(row[m])
  BY <1>1 DEF usesPortableTerminalProtocol, Public
<1>. QED  BY <1>1, <1>2 DEF PeersInv, Announced, UnsignedAlone

LEMMA NextPeers ==
    ASSUME Inv, PeersInv, [Next]_vars
    PROVE  PeersInv'
<1>0. Typed /\ BookInv /\ TRUE \in BOOLEAN /\ FALSE \in BOOLEAN
  BY DEF Inv
<1>1. Typed'
  BY StepHolds DEF Inv
<1>2. ASSUME NEW m \in Mirrors, Clients(m)
      PROVE  PeersInv'
  <2>1. ASSUME NEW v \in Variants, PostOrder(m, v) PROVE PeersInv'
    <3>1. Handle(m, OrderOf(v), FALSE) /\ ~ \E n \in Mirrors : Unsigned(row[n])
      BY <2>1 DEF PostOrder, NoLegacy, Unsigned
    <3>. QED  BY <1>0, <3>1, DocTypes, HandlePosts
  <2>2. ASSUME NEW v \in Variants, CancelSigned(m, v) PROVE PeersInv'
    <3>1. Handle(m, CancelOf(v), FALSE) /\ \A w : CancelOf(v) # OrderOf(w)
      BY <2>2, DocFields DEF CancelSigned
    <3>. QED  BY <1>0, <3>1, DocTypes, HandlePosts
  <2>3. ASSUME NEW v \in Variants, PostPrivate(m, v) PROVE PeersInv'
    BY <1>0, <2>3, PrivatePosts
  <2>4. ASSUME NEW i \in Intents, \/ SubmitFillIntent(m, i) \/ FillOrder(m, i)
                                  \/ Release(m, i) \/ ReleaseFill(m, i)
        PROVE  PeersInv'
    <3>1. PICK d \in {IntentOf(i), FillOf(i), ReleaseOf(i), FillReleaseOf(i)} : Handle(m, d, FALSE)
      BY <2>4 DEF SubmitFillIntent, FillOrder, Release, ReleaseFill
    <3>2. d \in Documents /\ \A w : d # OrderOf(w)
      BY <3>1, DocTypes, DocFields
    <3>. QED  BY <1>0, <3>1, <3>2, HandlePosts
  <2>. QED  BY <1>2, <2>1, <2>2, <2>3, <2>4 DEF Clients
<1>3. ASSUME NEW m \in Mirrors, Legacy(m)
      PROVE  PeersInv'
  BY <1>0, <1>3, LegacyPosts
<1>4. ASSUME NEW m \in Mirrors, ReadSweeps(m)
      PROVE  PeersInv'
  BY <1>0, <1>4, SweepPosts
<1>5. ASSUME NEW m \in Mirrors, NEW p \in Mirrors, Import(m, p)
      PROVE  PeersInv'
  <2>1. PICK d \in Offered(p) : Handle(m, d, TRUE)
    BY <1>5 DEF Import
  <2>2. d \in Documents
    BY <1>0, OfferedDocs
  <2>3. ~ \E n \in Mirrors : Unsigned(row[n])
    BY <1>0, <2>1, NothingOffered
  <2>. QED  BY <1>0, <2>1, <2>2, <2>3, HandlePosts
<1>6. ASSUME Signs \/ Tick \/ UNCHANGED vars
      PROVE  PeersInv'
  <2>1. Forward /\ UNCHANGED <<row, offer, heard>>
    <3>1. ASSUME UNCHANGED vars PROVE Forward /\ UNCHANGED <<row, offer, heard>>
      BY <1>0, <3>1 DEF vars, Typed, Forward
    <3>. QED  BY <1>0, <1>6, <3>1, SignsHolds, TickHolds
  <2>. QED  BY <1>0, <1>1, <2>1, QuietPeers
<1>. QED  BY <1>2, <1>3, <1>4, <1>5, <1>6 DEF Next

-----------------------------------------------------------------------------
(* Mirrors that have nothing left to learn from each other.                *)

\* The swept row of a mirror that announced something and learnt everything.
Informed(m) ==
    LET r == Swept(row[m]) IN
    /\ r \in Row /\ r.primary # Null /\ r # Null
    /\ RowInv(r, heard[m]) /\ Story(r, heard[m])
    /\ Public(row[m]) /\ row[m].fill = r.fill /\ row[m].released = r.released
    /\ r.status = "open" => ~(now >= Expiry[r.primary])

\* What mirror p offers changes nothing at mirror m.
Learnt(m, p) ==
    \A d \in Offered(p) : \A r \in Results(Swept(row[m]), d, TRUE) : r = Swept(row[m])

LEMMA LearntInforms ==
    ASSUME Typed, BookInv, PeersInv, NEW m \in Mirrors, NEW p \in Mirrors, Learnt(m, p),
           offer[m] # {}, offer[p] # {}
    PROVE  Informed(m)
<1>. DEFINE r == Swept(row[m])
<1>1. PICK v \in Variants : OrderOf(v) \in offer[p]
  BY DEF PeersInv, Announced
<1>2. r # Null
  <2>1. SUFFICES ASSUME r = Null PROVE FALSE
    OBVIOUS
  <2>2. NewRow(v, "public") \in Results(Null, OrderOf(v), TRUE)
    BY DocFields DEF Results, TakeOrder, verifyOrder
  <2>3. NewRow(v, "public") # Null
    BY NewRowHolds, NullAssumption
  <2>4. OrderOf(v) \in Offered(p)
    BY <1>1 DEF Offered
  <2>. QED  BY <2>1, <2>2, <2>3, <2>4 DEF Learnt
<1>3. /\ r \in Row /\ row[m] \in Row /\ r.primary = row[m].primary
      /\ r.primary # Null => RowInv(r, heard[m]) /\ Story(r, heard[m])
  BY <1>2, SweptStory
<1>4. row[m] # Null /\ Public(row[m])
  <2>1. row[m] # Null
    BY <1>3, NullAssumption
  <2>. QED  BY <2>1 DEF PeersInv, Announced
<1>5. r.primary # Null
  BY <1>3, <1>4 DEF Public, usesPortableTerminalProtocol
<1>6. /\ r.fill = row[m].fill /\ r.released = row[m].released
      /\ r.status = row[m].status \/ r.status = "cancelled"
      /\ r.status = "open" => ~Expires(row[m])
  BY <1>2, <1>3, SweptFields
<1>7. ASSUME r.status = "open" PROVE ~(now >= Expiry[r.primary])
  BY <1>3, <1>5, <1>6, <1>7 DEF Expires
<1>. HIDE DEF r
<1>8. /\ r \in Row /\ r.primary # Null /\ r # Null
      /\ RowInv(r, heard[m]) /\ Story(r, heard[m])
      /\ Public(row[m]) /\ row[m].fill = r.fill /\ row[m].released = r.released
      /\ r.status = "open" => ~(now >= Expiry[r.primary])
  BY <1>2, <1>3, <1>4, <1>5, <1>6, <1>7
<1>. QED  BY <1>8 DEF Informed, r

\* A public mirror offers what it was judged by.
LEMMA HeardOffered ==
    ASSUME PeersInv, NEW p \in Mirrors, Informed(p), NEW d \in heard[p],
           d.kind = "order-v2" \/ Terminal(d)
    PROVE  d \in Offered(p)
<1>1. d.kind # "release-v2"
  BY DEF Terminal
<1>2. d \in offer[p]
  BY <1>1 DEF PeersInv, Announced, Informed
<1>. QED  BY <1>2 DEF Offered

\* Mirrors know of the same terms.
LEMMA TermsAgree ==
    ASSUME Typed, PeersInv, NEW m \in Mirrors, NEW p \in Mirrors, Informed(m), Informed(p),
           Learnt(m, p), NEW v \in Variants, OrderOf(v) \in heard[p]
    PROVE  OrderOf(v) \in heard[m]
<1>. DEFINE r == Swept(row[m])
<1>1. r \in Row /\ r.primary # Null /\ r # Null /\ RowInv(r, heard[m])
  BY DEF Informed
<1>2. OrderOf(v) \in Offered(p)
  BY HeardOffered, DocFields
<1>3. \A q \in TakeOrder(r, v, TRUE) : q = r
  BY <1>2, DocFields DEF Learnt, Results
<1>. HIDE DEF r
<1>4. TakeOrder(r, v, TRUE) # {}
  BY <1>1 DEF TakeOrder, verifyOrder
<1>5. r \in TakeOrder(r, v, TRUE)
  BY <1>3, <1>4
<1>. QED  BY <1>1, <1>5, OldTermsHeard

\* A row of one set of terms still verifies.
LEMMA OneVariant ==
    ASSUME Typed, NEW r \in Row, r.primary # Null, NEW h \in SUBSET Documents,
           RowInv(r, h), Judged(h),
           \A v \in Variants : OrderOf(v) \in h => v = r.primary
    PROVE  /\ PrimaryVerifies(r)
           /\ \A i \in Intents : FillOf(i) \in h => intentDoc[i].v = r.primary
<1>1. ASSUME NEW i \in Intents, FillOf(i) \in h
      PROVE  intentDoc[i].v = r.primary
  <2>1. intentDoc[i].v \in Variants
    BY <1>1, SignedDocs, SignedTerms DEF RowInv, HeardHolds
  <2>2. Terminal(FillOf(i)) /\ VariantOf(FillOf(i)) = intentDoc[i].v
    BY DocFields, VariantsOf DEF Terminal
  <2>. QED  BY <1>1, <2>1, <2>2 DEF Judged
<1>2. PrimaryVerifies(r)
  <2>1. CASE r.fill = Null
    BY <2>1 DEF RowInv, TermsHold, PrimaryVerifies
  <2>2. CASE r.fill # Null
    <3>1. r.fill \in Intents /\ FillOf(r.fill) \in h /\ r.t1 = initiatorTimeout(r.fill)
      BY <2>2 DEF RowInv, HeardHolds, TermsHold, Row
    <3>2. intentDoc[r.fill].v = r.primary
      BY <1>1, <3>1
    <3>. QED  BY <3>1, <3>2 DEF PrimaryVerifies, initiatorTimeout
  <2>. QED  BY <2>1, <2>2
<1>. QED  BY <1>1, <1>2

\* Only one set of terms was heard of at m and p.
OneTerms(m, p) ==
    \A v \in Variants : OrderOf(v) \in heard[m] \cup heard[p] => v = Swept(row[m]).primary

\* Then they know of the same fills and cancellations.
LEMMA TerminalsAgree ==
    ASSUME Typed, PeersInv, NEW m \in Mirrors, NEW p \in Mirrors, Informed(m), Informed(p),
           Learnt(m, p), OneTerms(m, p), NEW d \in heard[p], Terminal(d)
    PROVE  d \in heard[m]
<1>. DEFINE r == Swept(row[m])
<1>1. /\ r \in Row /\ r.primary # Null /\ r # Null /\ RowInv(r, heard[m])
      /\ Judged(heard[m]) /\ Idle(r)
  BY DEF Informed, Story
<1>2. Judged(heard[p]) /\ Signed(d)
  BY DEF Informed, Story, RowInv, HeardHolds
<1>3. heard[m] \in SUBSET Documents /\ d \in Documents
  BY RowTyped
<1>4. \A q \in Results(r, d, TRUE) : q = r
  BY HeardOffered DEF Learnt
<1>5. \A v \in Variants : OrderOf(v) \in heard[m] \cup heard[p] => v = r.primary
  BY DEF OneTerms
<1>. HIDE DEF r
<1>6. PrimaryVerifies(r)
  BY <1>1, <1>3, <1>5, OneVariant
<1>7. usesPortableTerminalProtocol(r)
  BY <1>1 DEF usesPortableTerminalProtocol
<1>8. OrderOf(VariantOf(d)) \in heard[p]
  BY <1>2 DEF Judged
<1>9. r.fill = Null /\ r.cancelProof = Null => Selectable(r, TRUE)
  BY <1>1 DEF Idle, Selectable
<1>10. Results(r, d, TRUE) # {}
  <2>1. ASSUME NEW i \in Intents, d = FillOf(i) PROVE Results(r, d, TRUE) # {}
    <3>1. intentDoc[i].v \in Variants
      BY <1>2, <2>1, SignedDocs, SignedTerms
    <3>2. intentDoc[i].v = r.primary
      BY <1>5, <1>8, <2>1, <3>1, VariantsOf
    <3>3. Referenced(r, intentDoc[i].v)
      BY <1>6, <3>2 DEF Referenced
    <3>4. verifyFillIntent(i, intentDoc[i].v, TRUE) /\ verifyFill(i, intentDoc[i].v, TRUE)
      BY <1>2, <2>1 DEF Judged
    <3>5. TakeFill(r, i, TRUE) # {}
      BY <1>7, <1>9, <3>3, <3>4 DEF TakeFill
    <3>. QED  BY <2>1, <3>5, DocFields DEF Results
  <2>2. ASSUME NEW v \in Variants, d = CancelOf(v) PROVE Results(r, d, TRUE) # {}
    <3>1. Referenced(r, v)
      BY <1>5, <1>6, <1>8, <2>2, VariantsOf DEF Referenced
    <3>2. verifyCancel(v, TRUE)
      BY <1>2, <2>2, SignedDocs DEF verifyCancel, Typed
    <3>3. TakeCancel(r, v, TRUE) # {}
      BY <1>7, <3>1, <3>2 DEF TakeCancel
    <3>. QED  BY <2>2, <3>3, DocFields DEF Results
  <2>3. \/ \E i \in Intents : d = FillOf(i)
        \/ \E v \in Variants : d = CancelOf(v)
    BY <1>3, DocSorts, DocFields DEF Terminal
  <2>. QED  BY <2>1, <2>2, <2>3
<1>11. r \in Results(r, d, TRUE)
  BY <1>4, <1>10
<1>12. TRUE \in BOOLEAN
  OBVIOUS
<1>. QED  BY <1>1, <1>3, <1>11, <1>12, OldHeard

\* A suppressed row contradicts itself, and one that contradicts itself is
\* suppressed.
LEMMA TwoTerms ==
    ASSUME NEW r, NEW h, RowInv(r, h), NEW v \in Variants, NEW w \in Variants, v # w,
           OrderOf(v) \in h, OrderOf(w) \in h
    PROVE  r.equivocated
BY DocFields DEF RowInv, VerdictHolds

LEMMA SameTerminals ==
    ASSUME NEW r, NEW h, RowInv(r, h), NEW s, NEW k, RowInv(s, k), s.primary = r.primary,
           r.equivocated, \A d \in h : d.kind = "order-v2" => d = OrderOf(r.primary),
           \A d \in h : Terminal(d) => d \in k
    PROVE  s.equivocated
<1>1. PICK d \in h : Terminal(d) /\ ~Own(r, d)
  BY DEF RowInv, VerdictHolds
<1>2. PICK e \in h : Terminal(e) /\ Own(r, e)
  <2>1. r.fill # Null \/ r.cancelProof # Null
    BY <1>1 DEF RowInv, VerdictHolds
  <2>2. CASE r.fill # Null
    <3>1. FillOf(r.fill) \in h /\ Own(r, FillOf(r.fill)) /\ Terminal(FillOf(r.fill))
      BY <2>2, DocFields DEF RowInv, HeardHolds, Own, Terminal
    <3>. QED  BY <3>1
  <2>3. CASE r.cancelProof # Null
    <3>1. /\ CancelOf(r.cancelProof) \in h /\ Own(r, CancelOf(r.cancelProof))
          /\ Terminal(CancelOf(r.cancelProof))
      BY <2>3, DocFields DEF RowInv, HeardHolds, Own, Terminal
    <3>. QED  BY <3>1
  <2>. QED  BY <2>1, <2>2, <2>3
<1>3. d # e /\ d \in k /\ e \in k
  BY <1>1, <1>2
<1>4. ~(Own(s, d) /\ Own(s, e))
  BY <1>3 DEF Own, RowInv, HeardHolds
<1>. QED  BY <1>1, <1>2, <1>3, <1>4 DEF RowInv, VerdictHolds

\* Two mirrors that learnt all that the other offers.
Even(m, p) ==
    /\ Informed(m) /\ Informed(p) /\ Learnt(m, p) /\ Learnt(p, m)

LEMMA TermsAlike ==
    ASSUME Typed, PeersInv, NEW m \in Mirrors, NEW p \in Mirrors, Even(m, p), OneTerms(m, p)
    PROVE  /\ Swept(row[p]).primary = Swept(row[m]).primary
           /\ OneTerms(p, m)
           /\ \A d \in heard[m] : d.kind = "order-v2" => d = OrderOf(Swept(row[m]).primary)
           /\ \A d \in heard[m] : Terminal(d) => d \in heard[p]
<1>. DEFINE r == Swept(row[m])
            s == Swept(row[p])
<1>1. OrderOf(s.primary) \in heard[p] /\ s.primary \in Variants
  BY DEF Even, Informed, RowInv, HeardHolds, Row
<1>2. s.primary = r.primary
  BY <1>1 DEF OneTerms
<1>3. OneTerms(p, m)
  BY <1>2 DEF OneTerms
<1>4. ASSUME NEW d \in heard[m], d.kind = "order-v2" PROVE d = OrderOf(r.primary)
  <2>1. d \in Documents
    BY RowTyped
  <2>2. PICK v \in Variants : d = OrderOf(v)
    BY <1>4, <2>1, DocSorts, DocFields
  <2>3. v = r.primary
    BY <2>2 DEF OneTerms
  <2>. QED  BY <2>2, <2>3
<1>5. \A d \in heard[m] : Terminal(d) => d \in heard[p]
  BY <1>3, TerminalsAgree DEF Even
<1>. QED  BY <1>2, <1>3, <1>4, <1>5

\* Both suppress the order, or neither does.
LEMMA SuppressedAlike ==
    ASSUME Typed, PeersInv, NEW m \in Mirrors, NEW p \in Mirrors, Even(m, p),
           Swept(row[m]).equivocated
    PROVE  Swept(row[p]).equivocated
<1>. DEFINE r == Swept(row[m])
            s == Swept(row[p])
<1>1. RowInv(r, heard[m]) /\ RowInv(s, heard[p]) /\ r.primary \in Variants
  BY DEF Even, Informed, Row
<1>2. CASE OneTerms(m, p)
  <2>1. /\ s.primary = r.primary
        /\ \A d \in heard[m] : d.kind = "order-v2" => d = OrderOf(r.primary)
        /\ \A d \in heard[m] : Terminal(d) => d \in heard[p]
    BY <1>2, TermsAlike
  <2>2. r.equivocated
    OBVIOUS
  <2>. HIDE DEF r, s
  <2>3. s.equivocated
    BY <1>1, <2>1, <2>2, SameTerminals
  <2>. QED  BY <2>3 DEF s
<1>3. CASE ~OneTerms(m, p)
  <2>1. PICK v \in Variants : OrderOf(v) \in heard[m] \cup heard[p] /\ v # r.primary
    BY <1>3 DEF OneTerms
  <2>2. OrderOf(r.primary) \in heard[m]
    BY <1>1 DEF RowInv, HeardHolds
  <2>3. OrderOf(v) \in heard[p] /\ OrderOf(r.primary) \in heard[p]
    BY <1>1, <2>1, <2>2, TermsAgree DEF Even
  <2>. HIDE DEF r, s
  <2>4. s.equivocated
    BY <1>1, <2>1, <2>3, TwoTerms
  <2>. QED  BY <2>4 DEF s
<1>. QED  BY <1>2, <1>3

\* Unless they do, what ended the order at one ended it at the other.
LEMMA EndedAlike ==
    ASSUME Typed, PeersInv, NEW m \in Mirrors, NEW p \in Mirrors, Even(m, p),
           ~Swept(row[m]).equivocated, ~Swept(row[p]).equivocated
    PROVE  LET r == Swept(row[m])
               s == Swept(row[p])
           IN  /\ OneTerms(m, p) /\ s.primary = r.primary
               /\ r.fill # Null => s.fill = r.fill
               /\ r.cancelProof # Null => s.cancelProof = r.cancelProof
<1>. DEFINE r == Swept(row[m])
            s == Swept(row[p])
<1>1. RowInv(r, heard[m]) /\ RowInv(s, heard[p]) /\ r.primary \in Variants /\ s \in Row
  BY DEF Even, Informed, Row
<1>2. ~r.equivocated /\ ~s.equivocated
  OBVIOUS
<1>3. OneTerms(m, p)
  <2>1. SUFFICES ASSUME NEW v \in Variants, OrderOf(v) \in heard[m] \cup heard[p]
                 PROVE  v = r.primary
    BY DEF OneTerms
  <2>2. OrderOf(v) \in heard[m]
    BY <2>1, TermsAgree DEF Even
  <2>3. OrderOf(r.primary) \in heard[m]
    BY <1>1 DEF RowInv, HeardHolds
  <2>. HIDE DEF r, s
  <2>. QED  BY <1>1, <1>2, <2>2, <2>3, TwoTerms
<1>4. s.primary = r.primary /\ \A d \in heard[m] : Terminal(d) => d \in heard[p]
  BY <1>3, TermsAlike
<1>. HIDE DEF r, s
<1>5. \A d \in heard[p] : Terminal(d) => Own(s, d)
  BY <1>1, <1>2 DEF RowInv, VerdictHolds
<1>6. ASSUME r.fill # Null PROVE s.fill = r.fill
  <2>1. FillOf(r.fill) \in heard[m] /\ Terminal(FillOf(r.fill))
    BY <1>1, <1>6, DocFields DEF RowInv, HeardHolds, Terminal
  <2>2. Own(s, FillOf(r.fill))
    BY <1>4, <1>5, <2>1
  <2>. QED  BY <2>2, DocFields DEF Own
<1>7. ASSUME r.cancelProof # Null PROVE s.cancelProof = r.cancelProof
  <2>1. CancelOf(r.cancelProof) \in heard[m] /\ Terminal(CancelOf(r.cancelProof))
    BY <1>1, <1>7, DocFields DEF RowInv, HeardHolds, Terminal
  <2>2. Own(s, CancelOf(r.cancelProof))
    BY <1>4, <1>5, <2>1
  <2>. QED  BY <2>2, DocFields DEF Own
<1>. QED  BY <1>3, <1>4, <1>6, <1>7 DEF r, s

\* The order is open at both, or at neither.
LEMMA OpenAlike ==
    ASSUME Typed, NEW m \in Mirrors, NEW p \in Mirrors, Even(m, p),
           ~Swept(row[p]).equivocated,
           Swept(row[p]).primary = Swept(row[m]).primary,
           Swept(row[p]).fill = Swept(row[m]).fill,
           Swept(row[p]).cancelProof = Swept(row[m]).cancelProof,
           Swept(row[m]).status = "open"
    PROVE  Swept(row[p]).status = "open"
<1>. DEFINE r == Swept(row[m])
            s == Swept(row[p])
<1>1. RowInv(r, heard[m]) /\ Idle(s) /\ ~(now >= Expiry[r.primary])
  BY DEF Even, Informed, Story
<1>2. s.primary = r.primary /\ s.fill = r.fill /\ s.cancelProof = r.cancelProof
      /\ ~s.equivocated /\ r.status = "open"
  OBVIOUS
<1>. HIDE DEF r, s
<1>3. r.fill = Null /\ r.cancelProof = Null
  BY <1>1, <1>2 DEF RowInv, TermsHold, StatusLoads
<1>4. s.status = "open"
  BY <1>1, <1>2, <1>3 DEF Idle
<1>. QED  BY <1>4 DEF s

\* The fill was released at both, or at neither.
LEMMA ReleasedAlike ==
    ASSUME Typed, NEW m \in Mirrors, NEW p \in Mirrors, Even(m, p), OneTerms(p, m),
           Swept(row[p]).fill = Swept(row[m]).fill, Swept(row[m]).released
    PROVE  Swept(row[p]).released
<1>. DEFINE r == Swept(row[m])
            s == Swept(row[p])
            i == r.fill
<1>1. /\ RowInv(r, heard[m]) /\ RowInv(s, heard[p]) /\ r \in Row /\ s \in Row
      /\ s.primary # Null /\ s # Null /\ Judged(heard[p])
      /\ Public(row[m]) /\ row[m].fill = r.fill /\ row[m].released = r.released
      /\ heard[p] \in SUBSET Documents
  BY RowTyped DEF Even, Informed, Story
<1>2. s.fill = r.fill /\ r.released
  OBVIOUS
<1>3. \A v \in Variants : OrderOf(v) \in heard[p] => v = s.primary
  BY DEF OneTerms
<1>4. \A d \in Offered(m) : \A q \in Results(s, d, TRUE) : q = s
  BY DEF Even, Learnt
<1>. HIDE DEF r, s
<1>5. i # Null /\ i \in Intents
  BY <1>1, <1>2 DEF RowInv, TermsHold, StatusLoads, Row
<1>6. FillReleaseOf(i) \in Offered(m)
  <2>1. row[m].visibility = "public" /\ usesPortableTerminalProtocol(row[m])
    BY <1>1 DEF Public
  <2>2. FillReleaseOf(i) \in federationSnapshot(row[m])
    BY <1>1, <1>2, <1>5, <2>1 DEF federationSnapshot
  <2>. QED  BY <2>2 DEF Offered
<1>7. \A q \in TakeFillRelease(s, i) : q = s
  BY <1>4, <1>6, DocFields DEF Results
<1>8. intentDoc[i].v = s.primary
  <2>1. FillOf(i) \in heard[p]
    BY <1>1, <1>2, <1>5 DEF RowInv, HeardHolds
  <2>. QED  BY <1>1, <1>3, <1>5, <2>1, OneVariant
<1>9. s.released
  <2>1. SUFFICES ASSUME ~s.released PROVE FALSE
    OBVIOUS
  <2>2. [s EXCEPT !.released = TRUE, !.updatedAt = now] \in TakeFillRelease(s, i)
    BY <1>1, <1>2, <1>8, <2>1 DEF TakeFillRelease, usesPortableTerminalProtocol
  <2>3. s = [s EXCEPT !.released = TRUE, !.updatedAt = now]
    BY <1>7, <2>2
  <2>4. [s EXCEPT !.released = TRUE, !.updatedAt = now].released = TRUE
    BY <1>1 DEF Row
  <2>. QED  BY <2>1, <2>3, <2>4
<1>. QED  BY <1>9 DEF s

\* What a client acts on.
LEMMA ViewsAlike ==
    ASSUME Typed, PeersInv, NEW m \in Mirrors, NEW p \in Mirrors, Even(m, p)
    PROVE  View(m) = View(p)
<1>. DEFINE r == Swept(row[m])
            s == Swept(row[p])
<1>1. Even(p, m)
  BY DEF Even
<1>2. /\ r \in Row /\ s \in Row /\ r # Null /\ s # Null
      /\ usesPortableTerminalProtocol(r) /\ usesPortableTerminalProtocol(s)
  BY DEF Even, Informed, usesPortableTerminalProtocol
<1>3. /\ r.equivocated \in BOOLEAN /\ s.equivocated \in BOOLEAN
      /\ r.released \in BOOLEAN /\ s.released \in BOOLEAN
  BY <1>2 DEF Row
<1>4. r.equivocated <=> s.equivocated
  BY <1>1, SuppressedAlike
<1>5. ASSUME ~r.equivocated
      PROVE  /\ r.status = "open" <=> s.status = "open"
             /\ r.released <=> s.released
             /\ hasRunway(r) <=> hasRunway(s)
  <2>1. /\ OneTerms(m, p) /\ s.primary = r.primary
        /\ r.fill # Null => s.fill = r.fill
        /\ r.cancelProof # Null => s.cancelProof = r.cancelProof
    BY <1>4, <1>5, EndedAlike
  <2>2. /\ OneTerms(p, m)
        /\ s.fill # Null => r.fill = s.fill
        /\ s.cancelProof # Null => r.cancelProof = s.cancelProof
    BY <1>1, <1>4, <1>5, EndedAlike
  <2>3. s.fill = r.fill /\ s.cancelProof = r.cancelProof
    BY <2>1, <2>2
  <2>4. r.status = "open" <=> s.status = "open"
    BY <1>1, <1>4, <1>5, <2>1, <2>3, OpenAlike
  <2>5. r.released <=> s.released
    BY <1>1, <2>1, <2>2, <2>3, ReleasedAlike
  <2>6. r.t1 = s.t1
    <3>1. TermsHold(r) /\ TermsHold(s)
      BY DEF Even, Informed, RowInv
    <3>. HIDE DEF r, s
    <3>. QED  BY <2>1, <2>3, <3>1 DEF TermsHold
  <2>7. hasRunway(r) <=> hasRunway(s)
    BY <2>1, <2>6 DEF hasRunway
  <2>. QED  BY <2>4, <2>5, <2>7
<1>. DEFINE t(x) == usesPortableTerminalProtocol(x) /\ x # Null /\ x.status = "open"
                    /\ ~x.equivocated /\ hasRunway(x)
            e(x) == usesPortableTerminalProtocol(x) /\ x.equivocated
            l(x) == usesPortableTerminalProtocol(x) /\ x.released /\ ~x.equivocated
<1>6. /\ View(m) = [takeable |-> t(r), equivocated |-> e(r), released |-> l(r)]
      /\ View(p) = [takeable |-> t(s), equivocated |-> e(s), released |-> l(s)]
  BY DEF View
<1>. HIDE DEF r, s
<1>7. t(r) <=> t(s)
  BY <1>2, <1>4, <1>5
<1>8. e(r) <=> e(s)
  BY <1>2, <1>4
<1>9. l(r) <=> l(s)
  BY <1>2, <1>4, <1>5
<1>10. t(r) = t(s) /\ e(r) = e(s) /\ l(r) = l(s)
  <2>1. /\ t(r) \in BOOLEAN /\ e(r) \in BOOLEAN /\ l(r) \in BOOLEAN
        /\ t(s) \in BOOLEAN /\ e(s) \in BOOLEAN /\ l(s) \in BOOLEAN
    OBVIOUS
  <2>. HIDE DEF t, e, l
  <2>. QED  BY <1>7, <1>8, <1>9, <2>1
<1>. HIDE DEF t, e, l
<1>. QED  BY <1>6, <1>10

\* What any two mirrors told each other, in every reachable state.
THEOREM PeersHold == Spec => []PeersInv
<1>1. Init => PeersInv
  BY InitPeers
<1>2. Inv /\ PeersInv /\ [Next]_vars => PeersInv'
  BY NextPeers
<1>. QED  BY <1>1, <1>2, RowsHold, PTL DEF Spec

\* Mirrors that have nothing left to learn from each other show a client the
\* same order, in whatever order the documents reached them.
THEOREM MirrorsConverge == Spec => []Convergence
<1>1. ASSUME Inv, PeersInv PROVE Convergence
  <2>0. Typed /\ BookInv
    BY <1>1 DEF Inv
  <2>1. SUFFICES ASSUME NEW m \in Mirrors, NEW p \in Mirrors, offer[m] # {}, offer[p] # {},
                        View(m) # View(p), Settled
                 PROVE  FALSE
    BY DEF Convergence
  <2>2. m # p
    BY <2>1
  <2>3. Learnt(m, p) /\ Learnt(p, m)
    BY <2>1, <2>2 DEF Settled, Learnt
  <2>4. Even(m, p)
    BY <1>1, <2>0, <2>1, <2>3, LearntInforms DEF Even
  <2>. QED  BY <1>1, <2>0, <2>1, <2>4, ViewsAlike
<1>. QED  BY <1>1, RowsHold, PeersHold, PTL

==============================================================================
