--------------------------- MODULE BookFeedProofs ---------------------------
(***************************************************************************)
(* Proofs about the feed and its mirror (BookFeed), for any set of events, *)
(* ring, page and queue sizes, and any number of crashes, failed writes,   *)
(* torn and lost logs and restarts:                                        *)
(*                                                                         *)
(*   SurvivesAnswer       what a client was told is in the orders file     *)
(*   SeqNames             a sequence number never names two events         *)
(*   NothingSkipped       no mirror's cursor steps over an event           *)
(*                                                                         *)
(* A holder is a cursor somebody may present later, together with the      *)
(* events its owner has by then: the mirror's own, that of a page on its   *)
(* way, and that of the cached reset page.  A feed covers a set of events  *)
(* when every holder whose cursor it honours has each of them or finds it  *)
(* after its cursor.  The invariant says which sets the feed in memory and *)
(* the log on disk cover; a feed that only grew still covers them.         *)
(***************************************************************************)
EXTENDS BookFeed, WellFoundedInduction, TLAPS

Entries(f) == {f.ring[i] : i \in DOMAIN f.ring}
RingEvents(f) == {f.ring[i].ev : i \in DOMAIN f.ring}
Low(f) == f.next - Len(f.ring)

\* The ring holds consecutive sequence numbers up to the last one drawn.
Contig(f) == \A i \in DOMAIN f.ring : f.ring[i].seq = Low(f) + i - 1

\* g is f, or what f becomes when events are staged.
Grown(f, g) ==
    /\ g.id = f.id /\ f.next <= g.next /\ Low(f) <= Low(g)
    /\ \A x \in Entries(g) : x \in Entries(f) \/ x.seq >= f.next
    /\ \A x \in Entries(f) : x.seq >= Low(g) => x \in Entries(g)
    /\ Contig(g)

Holder(c, H) ==
    \/ cursor # Null /\ c = cursor /\ H = have \cup deferred
    \/ page # Null /\ c = page.cur /\ H = have \cup deferred \cup ToSet(page.todo)
    \/ cache # Null /\ c = cache.cur /\ H = cache.snap

After(f, s) == {x.ev : x \in {y \in Entries(f) : y.seq > s}}

Honours(f, c) == c.id = f.id /\ Low(f) - 1 <= c.seq /\ c.seq < f.next

Covers(f, S) ==
    \A c \in Cursors, H \in SUBSET Events :
        Holder(c, H) /\ Honours(f, c) => S \ expired \subseteq H \cup After(f, c.seq)

\* No cursor of this feed lies beyond it.
AllBehind(f) ==
    \A c \in Cursors, H \in SUBSET Events : Holder(c, H) /\ c.id = f.id => c.seq < f.next

\* What was handed out under this identity is what the ring still says.
Agrees(f) ==
    \A x \in served : x[1] = f.id =>
        x[2] < f.next /\ \A y \in Entries(f) : y.seq = x[2] => y.ev = x[3]

FeedOk(f) ==
    /\ f \in Feeds /\ Contig(f) /\ f.id <= ids
    /\ AllBehind(f) /\ Agrees(f)
    /\ f.digest # Null => Covers(f, f.digest)

\* The log says what the feed in memory says.
Mirrors(l, f) ==
    /\ l.id = f.id /\ l.ring = f.ring /\ l.digest = f.digest
    /\ l.header <= f.next
    /\ f.ring = <<>> => l.header = f.next

Typed ==
    /\ proc \in {"down", "up", "append", "failed"}
    /\ mem \in SUBSET Events /\ file \in SUBSET Events /\ pending \in Seq(Events)
    /\ waiting \in SUBSET Events /\ told \in SUBSET Events
    /\ expired \in SUBSET Events /\ have \in SUBSET Events /\ deferred \in SUBSET Events
    /\ log \in Logs \cup {Null} /\ ids \in Nat
    /\ cache \in ResetPages \cup {Null}
    /\ cursor \in Cursors \cup {Null} /\ page \in Pages \cup {Null}
    /\ served \subseteq Int \X Int \X Events

IdsKnown ==
    /\ \A x \in served : x[1] <= ids
    /\ \A c \in Cursors, H \in SUBSET Events : Holder(c, H) => c.id <= ids

DownHolds ==
    proc = "down" =>
        /\ pending = <<>> /\ waiting = {}
        /\ log # Null => FeedOk(Load(log))

LiveHolds ==
    proc # "down" =>
        /\ log # Null /\ FeedOk(feed)
        /\ Grown(feed, Load(log)) /\ log.digest \in {Null, feed.digest}

UpHolds ==
    proc \in {"up", "append"} =>
        /\ Mirrors(log, feed)
        /\ Covers(feed, mem \ ToSet(pending))
        /\ ToSet(pending) \cap RingEvents(feed) = {}
        /\ ToSet(pending) \subseteq mem \cup expired
        /\ RingEvents(feed) \cup told \cup waiting \subseteq mem \cup expired
        /\ feed.digest # Null => feed.digest \subseteq mem \cup expired

FileHolds ==
    /\ told \subseteq file \cup expired
    /\ log # Null => RingEvents(Load(log)) \subseteq file \cup expired
    /\ proc = "up" /\ ~dirty => pending = <<>> /\ mem \subseteq file \cup expired
    /\ proc = "append" => file = mem /\ ~dirty

SeqHolds == SeqNamesOneEvent

Inv == Typed /\ IdsKnown /\ DownHolds /\ LiveHolds /\ UpHolds /\ FileHolds /\ SeqHolds

-----------------------------------------------------------------------------
(* Induction over a sequence, by the least counterexample.                 *)

LEMMA Least ==
    ASSUME NEW T, T \subseteq Nat, T # {}
    PROVE  \E x \in T : \A y \in T : ~(y < x)
<1>. DEFINE R == OpToRel(<, Nat)
<1>1. IsWellFoundedOn(R, Nat)
  BY NatLessThanWellFounded
<1>2. \A x, y \in Nat : y < x => <<y, x>> \in R
  BY DEF OpToRel
<1>. HIDE DEF R
<1>3. \E x \in T : \A y \in T : ~(<<y, x>> \in R)
  BY <1>1, WFMin
<1>. QED  BY <1>2, <1>3

\* A set of naturals that holds 0 and, up to n, the successor of each member
\* holds every number up to n.
LEMMA Upto ==
    ASSUME NEW n \in Nat, NEW G, 0 \in G,
           \A k \in 0..n : k \in G /\ k < n => k + 1 \in G
    PROVE  \A k \in 0..n : k \in G
<1>. DEFINE T == {k \in 0..n : k \notin G}
<1>1. SUFFICES ASSUME T # {} PROVE FALSE
  OBVIOUS
<1>2. PICK x \in T : \A y \in T : ~(y < x)
  <2>1. T \subseteq Nat
    OBVIOUS
  <2>. HIDE DEF T
  <2>. QED  BY <1>1, <2>1, Least
<1>3. x # 0 /\ x - 1 \in 0..n
  BY <1>2
<1>4. x - 1 \in G
  BY <1>2, <1>3
<1>5. (x - 1) + 1 = x /\ x - 1 < n
  BY <1>2, <1>3
<1>. QED  BY <1>2, <1>3, <1>4, <1>5

\* The function that folds stageAppend over a sequence exists.
StageStep(f, e, g, m) ==
    g = [k \in 0..m |-> IF k = 0 THEN f ELSE stageAppend(g[k - 1], e[k])]

LEMMA StageRuns ==
    ASSUME NEW f, NEW e, NEW n \in Nat
    PROVE  \E g : StageStep(f, e, g, n)
<1>. DEFINE G == {m \in Nat : \E g : StageStep(f, e, g, m)}
<1>1. 0 \in G
  <2>. DEFINE g == [k \in 0..0 |-> f]
  <2>1. g = [k \in 0..0 |-> IF k = 0 THEN f ELSE stageAppend(g[k - 1], e[k])]
    OBVIOUS
  <2>. QED  BY <2>1 DEF StageStep
<1>2. ASSUME NEW m \in Nat, m \in G PROVE m + 1 \in G
  <2>1. PICK g : StageStep(f, e, g, m)
    BY <1>2
  <2>. DEFINE h == [k \in 0..(m + 1) |-> IF k = m + 1 THEN stageAppend(g[m], e[k]) ELSE g[k]]
  <2>2. \A k \in 0..m : h[k] = g[k]
    OBVIOUS
  <2>3. h[m + 1] = stageAppend(g[m], e[m + 1])
    OBVIOUS
  <2>4. \A k \in 0..m : g[k] = IF k = 0 THEN f ELSE stageAppend(g[k - 1], e[k])
    BY <2>1 DEF StageStep
  <2>5. \A k \in 0..(m + 1) : h[k] = IF k = 0 THEN f ELSE stageAppend(h[k - 1], e[k])
    <3>1. SUFFICES ASSUME NEW k \in 0..(m + 1)
                   PROVE  h[k] = IF k = 0 THEN f ELSE stageAppend(h[k - 1], e[k])
      OBVIOUS
    <3>. HIDE DEF h
    <3>2. CASE k = m + 1
      <4>1. k # 0 /\ k - 1 = m /\ m \in 0..m
         BY <3>2
      <4>. QED BY <2>2, <2>3, <3>2, <4>1
    <3>3. CASE k \in 0..m /\ k # 0
      <4>1. k - 1 \in 0..m
         BY <3>3
      <4>. QED BY <2>2, <2>4, <3>3, <4>1
    <3>4. CASE k = 0
      BY <2>2, <2>4, <3>4
    <3>. QED  BY <3>2, <3>3, <3>4
  <2>6. StageStep(f, e, h, m + 1)
    BY <2>5 DEF StageStep
  <2>. QED  BY <2>6
<1>. HIDE DEF G
<1>3. n \in G
  BY <1>1, <1>2, Upto
<1>. QED  BY <1>3 DEF G

LEMMA StagedIs ==
    ASSUME NEW f, NEW e \in Seq(Events)
    PROVE  \E g : StageStep(f, e, g, Len(e)) /\ Staged(f, e) = g[Len(e)]
<1>. DEFINE after[k \in 0..Len(e)] == IF k = 0 THEN f ELSE stageAppend(after[k - 1], e[k])
<1>1. Staged(f, e) = after[Len(e)]
  BY DEF Staged
<1>2. \E g : g = [k \in 0..Len(e) |-> IF k = 0 THEN f ELSE stageAppend(g[k - 1], e[k])]
  <2>1. \E g : StageStep(f, e, g, Len(e))
    BY Len(e) \in Nat, StageRuns
  <2>. QED  BY <2>1 DEF StageStep
<1>3. after = [k \in 0..Len(e) |-> IF k = 0 THEN f ELSE stageAppend(after[k - 1], e[k])]
  BY <1>2
<1>. QED  BY <1>1, <1>3 DEF StageStep

-----------------------------------------------------------------------------
(* The ring.                                                               *)

LEMMA EntryFacts ==
    ASSUME NEW f \in Feeds, Contig(f)
    PROVE  /\ Low(f) \in Int /\ f.next \in Int /\ Low(f) <= f.next
           /\ Entries(f) \subseteq Entry
           /\ \A x \in Entries(f) : Low(f) <= x.seq /\ x.seq < f.next
           /\ \A x, y \in Entries(f) : x.seq = y.seq => x = y
           /\ RingEvents(f) = {x.ev : x \in Entries(f)}
           /\ RingEvents(f) \subseteq Events
<1>1. f.ring \in Seq(Entry) /\ f.next \in Int /\ DOMAIN f.ring = 1..Len(f.ring) /\ Len(f.ring) \in Nat
  BY DEF Feeds
<1>2. \A i \in 1..Len(f.ring) : f.ring[i] \in Entry /\ f.ring[i].seq = Low(f) + i - 1
  BY <1>1 DEF Contig
<1>3. Low(f) \in Int /\ Low(f) = f.next - Len(f.ring)
  BY <1>1 DEF Low
<1>4. \A i \in 1..Len(f.ring) : Low(f) <= f.ring[i].seq /\ f.ring[i].seq < f.next
  BY <1>1, <1>2, <1>3
<1>5. \A i, j \in 1..Len(f.ring) : f.ring[i].seq = f.ring[j].seq => i = j
  BY <1>1, <1>2, <1>3
<1>6. RingEvents(f) = {x.ev : x \in Entries(f)}
  BY DEF RingEvents, Entries
<1>7. Entries(f) \subseteq Entry /\ RingEvents(f) \subseteq Events
  BY <1>1, <1>2 DEF RingEvents, Entries, Entry
<1>. QED  BY <1>1, <1>3, <1>4, <1>5, <1>6, <1>7 DEF Entries

\* What staging the events E leaves of f: a grown feed that holds nothing
\* else, and each event of E that f's ring did not hold has drawn a number.
Stages(f, g, E) ==
    /\ g \in Feeds /\ Contig(g) /\ Grown(f, g)
    /\ g.digest \in {Null, f.digest}
    /\ RingEvents(g) \subseteq RingEvents(f) \cup E
    /\ g.lines = f.lines
    /\ g.ring = <<>> => f.ring = <<>> /\ g.next = f.next
    /\ \A e \in E \ RingEvents(f) : \E s \in f.next..(g.next - 1) :
           s >= Low(g) => [seq |-> s, ev |-> e] \in Entries(g)

LEMMA GrownRefl ==
    ASSUME NEW f \in Feeds, Contig(f), NEW g \in Feeds, g.id = f.id, g.next = f.next, g.ring = f.ring
    PROVE  /\ Grown(f, g) /\ Contig(g) /\ Low(g) = Low(f)
           /\ Entries(g) = Entries(f) /\ RingEvents(g) = RingEvents(f)
BY EntryFacts DEF Grown, Contig, Low, Entries, RingEvents

LEMMA TrimmedIs ==
    ASSUME NEW r \in Seq(Entry), NEW x \in Entry, Len(r) \in Nat
    PROVE  LET t == Trimmed(Append(r, x)) IN
           \E d \in Nat : /\ d <= Len(r) /\ t \in Seq(Entry)
                          /\ Len(t) = Len(r) + 1 - d
                          /\ \A i \in 1..Len(t) : t[i] = IF i + d = Len(r) + 1 THEN x ELSE r[i + d]
<1>. DEFINE a == Append(r, x)
            n == Len(r) + 1
            d == IF n > Ring THEN n - Ring ELSE 0
            t == Trimmed(a)
<1>1. a \in Seq(Entry) /\ Len(a) = n /\ n \in Nat
  OBVIOUS
<1>2. \A i \in 1..n : a[i] = IF i = n THEN x ELSE r[i]
  OBVIOUS
<1>3. Ring \in Nat /\ Ring > 0
  BY FeedAssumption
<1>4. d \in Nat /\ d <= Len(r)
  BY <1>3
<1>5. t = SubSeq(a, d + 1, n)
  BY <1>1, <1>3 DEF Trimmed
<1>. HIDE DEF a, d
<1>6. /\ t \in Seq(Entry) /\ Len(t) = n - d
      /\ \A i \in 1..(n - d) : t[i] = a[i + d]
  <2>1. d + 1 \in 1..(n + 1) /\ \A i \in (d + 1)..n : a[i] \in Entry
    BY <1>1, <1>4
  <2>2. Len(SubSeq(a, d + 1, n)) = n - d /\ SubSeq(a, d + 1, n) \in Seq(Entry)
    BY <1>1, <1>4, <2>1
  <2>3. \A i \in 1..(n - d) : SubSeq(a, d + 1, n)[i] = a[d + 1 + i - 1]
    BY <1>1, <1>4, <2>1
  <2>. QED  BY <1>1, <1>4, <1>5, <2>2, <2>3
<1>7. \A i \in 1..(n - d) : i + d \in 1..n
  BY <1>1, <1>4
<1>8. \A i \in 1..Len(t) : t[i] = IF i + d = Len(r) + 1 THEN x ELSE r[i + d]
  BY <1>2, <1>6, <1>7
<1>9. t = Trimmed(Append(r, x))
  BY DEF a
<1>. HIDE DEF t
<1>. QED  BY <1>4, <1>6, <1>8, <1>9

LEMMA StageOne ==
    ASSUME NEW f \in Feeds, Contig(f), NEW e \in Events
    PROVE  Stages(f, stageAppend(f, e), {e})
<1>. DEFINE g == stageAppend(f, e)
            x == [seq |-> f.next, ev |-> e]
<1>1. /\ f.ring \in Seq(Entry) /\ f.next \in Int /\ f.id \in Int
      /\ f.lines \in Int \cup {Null} /\ f.digest \in Digests \cup {Null}
      /\ DOMAIN f.ring = 1..Len(f.ring) /\ Len(f.ring) \in Nat
  BY DEF Feeds
<1>2. CASE Known(f, e)
  <2>1. g = [f EXCEPT !.digest = Null]
    BY <1>2 DEF stageAppend
  <2>2. /\ g \in Feeds /\ g.id = f.id /\ g.next = f.next /\ g.ring = f.ring
        /\ g.digest = Null /\ g.lines = f.lines
    BY <2>1 DEF Feeds
  <2>3. e \in RingEvents(f)
    BY <1>2 DEF Known, RingEvents
  <2>. HIDE DEF g
  <2>4. Grown(f, g) /\ Contig(g) /\ RingEvents(g) = RingEvents(f)
    BY <2>2, GrownRefl
  <2>5. Stages(f, g, {e})
    BY <2>2, <2>3, <2>4 DEF Stages
  <2>. QED  BY <2>5 DEF g
<1>3. CASE ~Known(f, e)
  <2>. DEFINE t == Trimmed(Append(f.ring, x))
  <2>1. g = [f EXCEPT !.next = @ + 1, !.ring = t, !.digest = Null]
    BY <1>3 DEF stageAppend
  <2>2. x \in Entry /\ x.seq = f.next /\ x.ev = e
    BY <1>1 DEF Entry
  <2>. HIDE DEF x
  <2>3. PICK d \in Nat : /\ d <= Len(f.ring) /\ t \in Seq(Entry)
                         /\ Len(t) = Len(f.ring) + 1 - d
                         /\ \A i \in 1..Len(t) :
                                t[i] = IF i + d = Len(f.ring) + 1 THEN x ELSE f.ring[i + d]
    BY <1>1, <2>2, TrimmedIs
  <2>. HIDE DEF t, g
  <2>4. /\ g \in Feeds /\ g.id = f.id /\ g.next = f.next + 1 /\ g.ring = t
        /\ g.digest = Null /\ g.lines = f.lines
    <3>1. f.next + 1 \in Int /\ t \in Seq(Entry) /\ Null \in Digests \cup {Null}
      BY <1>1, <2>3
    <3>. QED  BY <1>1, <2>1, <3>1 DEF Feeds
  <2>5. Low(g) = Low(f) + d /\ Low(f) \in Int /\ Low(f) = f.next - Len(f.ring)
    <3>0. Low(g) = g.next - Len(g.ring)
      BY DEF Low
    <3>1. g.next = f.next + 1 /\ Len(g.ring) = Len(f.ring) + 1 - d
      BY <2>3, <2>4
    <3>2. Low(f) = f.next - Len(f.ring)
      BY DEF Low
    <3>. QED  
      <4>1. \A n, l, k \in Int : (n + 1) - (l + 1 - k) = (n - l) + k /\ n - l \in Int
        OBVIOUS
      <4>2. Low(g) = (f.next + 1) - (Len(f.ring) + 1 - d)
        BY <3>0, <3>1
      <4>3. f.next \in Int /\ Len(f.ring) \in Int /\ d \in Int
        BY <1>1
      <4>. QED  BY <3>2, <4>1, <4>2, <4>3
  <2>6. DOMAIN g.ring = 1..Len(t) /\ Len(t) \in Nat
    BY <2>3, <2>4
  <2>7. \A i \in 1..Len(t) : i + d = Len(f.ring) + 1 \/ i + d \in 1..Len(f.ring)
    BY <1>1, <2>3, <2>6
  <2>8. Contig(g)
    <3>1. SUFFICES ASSUME NEW i \in 1..Len(t) PROVE g.ring[i].seq = Low(g) + i - 1
      BY <2>6 DEF Contig
    <3>2. CASE i + d = Len(f.ring) + 1
      <4>1. g.ring[i] = x
        BY <2>3, <2>4, <3>2
      <4>2. f.next = Low(g) + i - 1
        <5>1. \A n, l, k, j \in Int : j + k = l + 1 => n = ((n - l) + k) + j - 1
          OBVIOUS
        <5>2. Low(g) = (f.next - Len(f.ring)) + d
          BY <2>5
        <5>3. f.next \in Int /\ Len(f.ring) \in Int /\ d \in Int /\ i \in Int
          BY <1>1
        <5>. QED  BY <3>2, <5>1, <5>2, <5>3
      <4>. QED  BY <2>2, <4>1, <4>2
    <3>3. CASE i + d \in 1..Len(f.ring)
      <4>1. g.ring[i] = f.ring[i + d]
        BY <1>1, <2>3, <2>4, <3>3
      <4>2. f.ring[i + d].seq = Low(f) + (i + d) - 1
        BY <1>1, <3>3 DEF Contig
      <4>. QED  BY <2>5, <4>1, <4>2
    <3>. QED  BY <2>7, <3>2, <3>3
  <2>9. x \in Entries(g)
    <3>1. Len(t) \in 1..Len(t) /\ g.ring[Len(t)] = x
      BY <1>1, <2>3, <2>4, <2>6
    <3>. QED  BY <2>6, <3>1 DEF Entries
  <2>10. \A y \in Entries(g) : y \in Entries(f) \/ y = x
    <3>1. SUFFICES ASSUME NEW i \in 1..Len(t) PROVE g.ring[i] \in Entries(f) \/ g.ring[i] = x
      BY <2>6 DEF Entries
    <3>. QED  BY <1>1, <2>3, <2>4, <2>7 DEF Entries
  <2>11. \A y \in Entries(f) : y.seq >= Low(g) => y \in Entries(g)
    <3>1. SUFFICES ASSUME NEW j \in 1..Len(f.ring), f.ring[j].seq >= Low(g)
                   PROVE  f.ring[j] \in Entries(g)
      BY <1>1 DEF Entries
    <3>2. f.ring[j].seq = Low(f) + j - 1
      BY <1>1 DEF Contig
    <3>3. j - d \in 1..Len(t) /\ (j - d) + d = j /\ j # Len(f.ring) + 1
      BY <1>1, <2>3, <2>5, <3>1, <3>2, SMTT(60)

    <3>4. g.ring[j - d] = f.ring[j]
      BY <2>3, <2>4, <3>3
    <3>. QED  BY <2>6, <3>3, <3>4 DEF Entries
  <2>12. RingEvents(g) \subseteq RingEvents(f) \cup {e}
    <3>1. RingEvents(g) = {y.ev : y \in Entries(g)} /\ RingEvents(f) = {y.ev : y \in Entries(f)}
      BY <2>4, <2>8, EntryFacts
    <3>. QED  BY <2>2, <2>10, <3>1
  <2>13. Grown(f, g)
    BY <1>1, <2>2, <2>3, <2>4, <2>5, <2>8, <2>10, <2>11, SMTT(60) DEF Grown
  <2>14. f.next \in f.next..(g.next - 1) /\ [seq |-> f.next, ev |-> e] \in Entries(g)
    BY <1>1, <2>4, <2>9 DEF x
  <2>15. g.ring # <<>>
    <3>1. Len(t) > 0
      BY <1>1, <2>3
    <3>. QED  BY <2>4, <3>1
  <2>16. Stages(f, g, {e})
    BY <2>4, <2>8, <2>12, <2>13, <2>14, <2>15 DEF Stages
  <2>. QED  BY <2>16 DEF g
<1>. QED  BY <1>2, <1>3

LEMMA StageNone ==
    ASSUME NEW f \in Feeds, Contig(f)
    PROVE  Stages(f, f, {})
BY GrownRefl DEF Stages

LEMMA GrownThen ==
    ASSUME NEW f \in Feeds, Contig(f), NEW g \in Feeds, Contig(g), NEW h \in Feeds, Contig(h),
           Grown(f, g), Grown(g, h)
    PROVE  Grown(f, h)
<1>1. /\ Entries(f) \subseteq Entry /\ Entries(g) \subseteq Entry /\ Entries(h) \subseteq Entry
      /\ f.next \in Int /\ g.next \in Int /\ h.next \in Int
      /\ Low(f) \in Int /\ Low(g) \in Int /\ Low(h) \in Int
  BY EntryFacts
<1>2. \A x \in Entry : x.seq \in Int
  BY DEF Entry
<1>3. f.next <= h.next /\ Low(f) <= Low(h) /\ h.id = f.id
  BY <1>1 DEF Grown
<1>4. \A x \in Entries(h) : x \in Entries(f) \/ x.seq >= f.next
  BY <1>1, <1>2 DEF Grown
<1>5. \A x \in Entries(f) : x.seq >= Low(h) => x \in Entries(h)
  BY <1>1, <1>2 DEF Grown
<1>. QED  BY <1>3, <1>4, <1>5 DEF Grown

LEMMA StageThen ==
    ASSUME NEW f \in Feeds, Contig(f), NEW g, NEW h, NEW e \in Events,
           NEW E \in SUBSET Events, Stages(f, g, E), Stages(g, h, {e})
    PROVE  Stages(f, h, E \cup {e})
<1>1. g \in Feeds /\ Contig(g) /\ h \in Feeds /\ Contig(h) /\ Grown(f, g) /\ Grown(g, h)
  BY DEF Stages
<1>2. Grown(f, h)
  BY <1>1, GrownThen
<1>3. h.digest \in {Null, f.digest} /\ h.lines = f.lines
      /\ (h.ring = <<>> => f.ring = <<>> /\ h.next = f.next)
      /\ RingEvents(h) \subseteq RingEvents(f) \cup (E \cup {e})
  BY DEF Stages
<1>4. /\ Entries(g) \subseteq Entry /\ Entries(h) \subseteq Entry
      /\ f.next \in Int /\ g.next \in Int /\ h.next \in Int /\ Low(g) \in Int /\ Low(h) \in Int
      /\ f.next <= g.next /\ g.next <= h.next /\ Low(g) <= Low(h)
      /\ \A x \in Entries(g) : x.seq < g.next
      /\ RingEvents(g) = {x.ev : x \in Entries(g)}
      /\ RingEvents(f) = {x.ev : x \in Entries(f)}
  BY <1>1, EntryFacts DEF Grown
<1>5. ASSUME NEW s \in f.next..(g.next - 1), NEW o \in Events,
             s >= Low(g) => [seq |-> s, ev |-> o] \in Entries(g)
      PROVE  s \in f.next..(h.next - 1) /\ (s >= Low(h) => [seq |-> s, ev |-> o] \in Entries(h))
  <2>1. s \in f.next..(h.next - 1) /\ (s >= Low(h) => s >= Low(g))
    BY <1>4
  <2>2. [seq |-> s, ev |-> o].seq = s
    OBVIOUS
  <2>. QED  BY <1>1, <1>5, <2>1, <2>2 DEF Grown
<1>6. ASSUME NEW o \in E \ RingEvents(f)
      PROVE  \E s \in f.next..(h.next - 1) : s >= Low(h) => [seq |-> s, ev |-> o] \in Entries(h)
  <2>1. PICK s \in f.next..(g.next - 1) : s >= Low(g) => [seq |-> s, ev |-> o] \in Entries(g)
    BY <1>6 DEF Stages
  <2>. QED  BY <1>5, <1>6, <2>1
<1>7. ASSUME e \notin RingEvents(f)
      PROVE  \E s \in f.next..(h.next - 1) : s >= Low(h) => [seq |-> s, ev |-> e] \in Entries(h)
  <2>1. CASE e \in RingEvents(g)
    <3>1. PICK x \in Entries(g) : x.ev = e
      BY <1>4, <2>1
    <3>2. x \notin Entries(f)
      BY <1>4, <1>7, <3>1
    <3>3. x.seq >= f.next /\ x.seq < g.next /\ x.seq \in Int
      BY <1>1, <1>4, <3>2 DEF Grown, Entry
    <3>4. x = [seq |-> x.seq, ev |-> e]
      BY <1>4, <3>1 DEF Entry
    <3>5. x.seq \in f.next..(g.next - 1)
      BY <1>4, <3>3
    <3>. QED  BY <1>5, <3>4, <3>5
  <2>2. CASE e \notin RingEvents(g)
    <3>1. PICK s \in g.next..(h.next - 1) : s >= Low(h) => [seq |-> s, ev |-> e] \in Entries(h)
      BY <2>2 DEF Stages
    <3>2. s \in f.next..(h.next - 1)
      BY <1>4
    <3>. QED  BY <3>1, <3>2
  <2>. QED  BY <2>1, <2>2
<1>. QED  BY <1>1, <1>2, <1>3, <1>6, <1>7 DEF Stages

LEMMA StageAll ==
    ASSUME NEW f \in Feeds, Contig(f), NEW e \in Seq(Events)
    PROVE  Stages(f, Staged(f, e), ToSet(e))
<1>1. PICK g : StageStep(f, e, g, Len(e)) /\ Staged(f, e) = g[Len(e)]
  BY StagedIs
<1>2. Len(e) \in Nat /\ DOMAIN e = 1..Len(e) /\ \A i \in 1..Len(e) : e[i] \in Events
  OBVIOUS
<1>3. g[0] = f /\ \A k \in 1..Len(e) : g[k] = stageAppend(g[k - 1], e[k])
  BY <1>1, <1>2 DEF StageStep
<1>. DEFINE First(k) == {e[i] : i \in 1..k}
            G == {k \in Nat : Stages(f, g[k], First(k))}
<1>4. 0 \in G
  <2>1. First(0) = {}
    OBVIOUS
  <2>. QED  BY <1>3, <2>1, StageNone
<1>5. ASSUME NEW k \in 0..Len(e), k \in G, k < Len(e) PROVE k + 1 \in G
  <2>1. Stages(f, g[k], First(k)) /\ k + 1 \in 1..Len(e) /\ (k + 1) - 1 = k /\ k + 1 \in Nat
    BY <1>2, <1>5
  <2>2. g[k + 1] = stageAppend(g[k], e[k + 1]) /\ e[k + 1] \in Events
    BY <1>2, <1>3, <2>1
  <2>3. First(k + 1) = First(k) \cup {e[k + 1]} /\ First(k) \in SUBSET Events
    BY <1>2, <2>1
  <2>. HIDE DEF First
  <2>4. Stages(g[k], g[k + 1], {e[k + 1]})
    <3>1. g[k] \in Feeds /\ Contig(g[k])
      BY <2>1 DEF Stages
    <3>. QED  BY <2>2, <3>1, StageOne
  <2>5. Stages(f, g[k + 1], First(k) \cup {e[k + 1]})
    BY <2>1, <2>2, <2>3, <2>4, StageThen
  <2>. QED  BY <2>1, <2>3, <2>5
<1>. HIDE DEF G
<1>6. Len(e) \in G
  <2>1. \A k \in 0..Len(e) : k \in G
    BY <1>2, <1>4, <1>5, Upto
  <2>. QED  BY <1>2, <2>1
<1>7. First(Len(e)) = ToSet(e)
  BY <1>2 DEF ToSet
<1>. QED  BY <1>1, <1>6, <1>7 DEF G

-----------------------------------------------------------------------------
(* Selecting by position.                                                  *)

KeptStep(s, P, g, m) ==
    g = [k \in 0..m |-> IF k = 0 THEN <<>>
                        ELSE IF k \in P THEN Append(g[k - 1], s[k]) ELSE g[k - 1]]

LEMMA KeptRuns ==
    ASSUME NEW s, NEW P, NEW n \in Nat
    PROVE  \E g : KeptStep(s, P, g, n)
<1>. DEFINE More(q, k) == IF k \in P THEN Append(q, s[k]) ELSE q
            G == {m \in Nat : \E g : KeptStep(s, P, g, m)}
<1>1. 0 \in G
  <2>. DEFINE g == [k \in 0..0 |-> <<>>]
  <2>1. g = [k \in 0..0 |-> IF k = 0 THEN <<>>
                            ELSE IF k \in P THEN Append(g[k - 1], s[k]) ELSE g[k - 1]]
    OBVIOUS
  <2>. QED  BY <2>1 DEF KeptStep
<1>2. ASSUME NEW m \in Nat, m \in G PROVE m + 1 \in G
  <2>1. PICK g : KeptStep(s, P, g, m)
    BY <1>2
  <2>. DEFINE h == [k \in 0..(m + 1) |-> IF k = m + 1 THEN More(g[m], k) ELSE g[k]]
  <2>4. \A k \in 0..m : g[k] = IF k = 0 THEN <<>> ELSE More(g[k - 1], k)
    BY <2>1 DEF KeptStep
  <2>. HIDE DEF More
  <2>2. \A k \in 0..m : h[k] = g[k]
    OBVIOUS
  <2>3. h[m + 1] = More(g[m], m + 1)
    OBVIOUS
  <2>5. \A k \in 0..(m + 1) : h[k] = IF k = 0 THEN <<>> ELSE More(h[k - 1], k)
    <3>1. SUFFICES ASSUME NEW k \in 0..(m + 1)
                   PROVE  h[k] = IF k = 0 THEN <<>> ELSE More(h[k - 1], k)
      OBVIOUS
    <3>. HIDE DEF h
    <3>2. CASE k = m + 1
      <4>1. k # 0 /\ k - 1 = m /\ m \in 0..m
         BY <3>2
      <4>. QED BY <2>2, <2>3, <3>2, <4>1
    <3>3. CASE k \in 0..m /\ k # 0
      <4>1. k - 1 \in 0..m
         BY <3>3
      <4>. QED BY <2>2, <2>4, <3>3, <4>1
    <3>4. CASE k = 0
      BY <2>2, <2>4, <3>4
    <3>. QED  BY <3>2, <3>3, <3>4
  <2>6. h = [k \in 0..(m + 1) |-> IF k = 0 THEN <<>> ELSE More(h[k - 1], k)]
    BY <2>5
  <2>7. KeptStep(s, P, h, m + 1)
    BY <2>6 DEF KeptStep, More
  <2>. QED  BY <2>7
<1>. HIDE DEF G
<1>3. n \in G
  BY <1>1, <1>2, Upto
<1>. QED  BY <1>3 DEF G

LEMMA KeptIs ==
    ASSUME NEW s, Len(s) \in Nat, NEW P
    PROVE  \E g : /\ Kept(s, P) = g[Len(s)] /\ g[0] = <<>>
                  /\ \A k \in 1..Len(s) :
                        g[k] = IF k \in P THEN Append(g[k - 1], s[k]) ELSE g[k - 1]
<1>. DEFINE upTo[k \in 0..Len(s)] ==
                IF k = 0 THEN <<>>
                ELSE IF k \in P THEN Append(upTo[k - 1], s[k]) ELSE upTo[k - 1]
<1>1. Kept(s, P) = upTo[Len(s)]
  BY DEF Kept
<1>2. \E g : g = [k \in 0..Len(s) |->
                     IF k = 0 THEN <<>>
                     ELSE IF k \in P THEN Append(g[k - 1], s[k]) ELSE g[k - 1]]
  <2>1. \E g : KeptStep(s, P, g, Len(s))
    BY KeptRuns
  <2>. QED  BY <2>1 DEF KeptStep
<1>3. upTo = [k \in 0..Len(s) |->
                     IF k = 0 THEN <<>>
                     ELSE IF k \in P THEN Append(upTo[k - 1], s[k]) ELSE upTo[k - 1]]
  BY <1>2
<1>. HIDE DEF upTo
<1>4. upTo[0] = <<>>
  <2>1. 0 \in 0..Len(s)
    OBVIOUS
  <2>. QED  BY <1>3, <2>1
<1>5. ASSUME NEW k \in 1..Len(s)
      PROVE  upTo[k] = IF k \in P THEN Append(upTo[k - 1], s[k]) ELSE upTo[k - 1]
  <2>1. k \in 0..Len(s) /\ k # 0
    OBVIOUS
  <2>. QED  BY <1>3, <2>1
<1>. QED  BY <1>1, <1>4, <1>5

LEMMA KeptSet ==
    ASSUME NEW X, NEW s \in Seq(X), NEW P
    PROVE  Kept(s, P) \in Seq(X) /\ ToSet(Kept(s, P)) = {s[i] : i \in P \cap (1..Len(s))}
<1>1. Len(s) \in Nat /\ \A i \in 1..Len(s) : s[i] \in X
  OBVIOUS
<1>2. PICK g : /\ Kept(s, P) = g[Len(s)] /\ g[0] = <<>>
               /\ \A k \in 1..Len(s) :
                     g[k] = IF k \in P THEN Append(g[k - 1], s[k]) ELSE g[k - 1]
  BY <1>1, KeptIs
<1>. DEFINE First(k) == {s[i] : i \in P \cap (1..k)}
            G == {k \in Nat : g[k] \in Seq(X) /\ ToSet(g[k]) = First(k)}
<1>3. 0 \in G
  <2>1. First(0) = {} /\ ToSet(<<>>) = {} /\ <<>> \in Seq(X)
    BY DEF ToSet
  <2>. HIDE DEF First
  <2>. QED  BY <1>2, <2>1
<1>4. ASSUME NEW k \in 0..Len(s), k \in G, k < Len(s) PROVE k + 1 \in G
  <2>1. /\ g[k] \in Seq(X) /\ ToSet(g[k]) = First(k)
        /\ k + 1 \in 1..Len(s) /\ (k + 1) - 1 = k /\ k + 1 \in Nat
    BY <1>1, <1>4
  <2>2. CASE k + 1 \in P
    <3>1. g[k + 1] = Append(g[k], s[k + 1]) /\ s[k + 1] \in X
      BY <1>1, <1>2, <2>1, <2>2
    <3>2. First(k + 1) = First(k) \cup {s[k + 1]}
      BY <2>1, <2>2
    <3>. HIDE DEF First
    <3>3. ToSet(Append(g[k], s[k + 1])) = ToSet(g[k]) \cup {s[k + 1]}
      <4>. DEFINE q == g[k]
                  y == s[k + 1]
      <4>1. q \in Seq(X) /\ y \in X
        BY <2>1, <3>1
      <4>. HIDE DEF q, y
      <4>2. /\ DOMAIN Append(q, y) = 1..(Len(q) + 1) /\ DOMAIN q = 1..Len(q) /\ Len(q) \in Nat
            /\ \A i \in 1..Len(q) : Append(q, y)[i] = q[i]
            /\ Append(q, y)[Len(q) + 1] = y
        BY <4>1
      <4>3. ToSet(Append(q, y)) = ToSet(q) \cup {y}
        BY <4>2 DEF ToSet
      <4>. QED  BY <4>3 DEF q, y
    <3>4. g[k + 1] \in Seq(X)
      BY <2>1, <3>1
    <3>. QED  BY <2>1, <3>1, <3>2, <3>3, <3>4
  <2>3. CASE k + 1 \notin P
    <3>1. g[k + 1] = g[k]
      BY <1>2, <2>1, <2>3
    <3>2. First(k + 1) = First(k)
      BY <2>1, <2>3
    <3>. QED  BY <2>1, <3>1, <3>2
  <2>. QED  BY <2>2, <2>3
<1>. HIDE DEF G
<1>5. Len(s) \in G
  <2>1. \A k \in 0..Len(s) : k \in G
    BY <1>1, <1>3, <1>4, Upto
  <2>. QED  BY <1>1, <2>1
<1>. QED  BY <1>2, <1>5 DEF G

\* Keeping every position after m keeps that suffix.
LEMMA KeptTail ==
    ASSUME NEW X, NEW s \in Seq(X), NEW m \in 0..Len(s), NEW P,
           \A i \in 1..Len(s) : i \in P <=> i > m
    PROVE  /\ Kept(s, P) \in Seq(X) /\ Len(Kept(s, P)) = Len(s) - m
           /\ \A i \in 1..(Len(s) - m) : Kept(s, P)[i] = s[m + i]
<1>1. Len(s) \in Nat /\ \A i \in 1..Len(s) : s[i] \in X
  OBVIOUS
<1>2. PICK g : /\ Kept(s, P) = g[Len(s)] /\ g[0] = <<>>
               /\ \A k \in 1..Len(s) :
                     g[k] = IF k \in P THEN Append(g[k - 1], s[k]) ELSE g[k - 1]
  BY <1>1, KeptIs
<1>. DEFINE Suffix(k) ==
                /\ g[k] \in Seq(X)
                /\ k <= m => Len(g[k]) = 0
                /\ k > m => Len(g[k]) = k - m /\ \A i \in 1..(k - m) : g[k][i] = s[m + i]
            G == {k \in Nat : Suffix(k)}
<1>0. m \in Nat
  BY <1>1
<1>3. 0 \in G
  <2>1. <<>> \in Seq(X) /\ Len(<<>>) = 0 /\ ~(0 > m)
    BY <1>0
  <2>2. Suffix(0)
    BY <1>2, <2>1
  <2>. QED  BY <2>2
<1>4. ASSUME NEW k \in 0..Len(s), k \in G, k < Len(s) PROVE k + 1 \in G
  <2>1. /\ Suffix(k) /\ k + 1 \in 1..Len(s) /\ (k + 1) - 1 = k /\ k + 1 \in Nat
    <3>1. Suffix(k)
      BY <1>4
    <3>2. k + 1 \in 1..Len(s) /\ (k + 1) - 1 = k /\ k + 1 \in Nat
      BY <1>1, <1>4
    <3>. QED  BY <3>1, <3>2
  <2>2. CASE k + 1 > m
    <3>1. g[k + 1] = Append(g[k], s[k + 1]) /\ s[k + 1] \in X
      BY <1>1, <1>2, <2>1, <2>2
    <3>2. Len(g[k]) = k - m /\ g[k] \in Seq(X) /\ \A i \in 1..(k - m) : g[k][i] = s[m + i]
      BY <2>1, <2>2
    <3>3. Len(g[k + 1]) = (k - m) + 1 /\ g[k + 1] \in Seq(X)
      BY <3>1, <3>2
    <3>4. \A i \in 1..((k - m) + 1) : g[k + 1][i] = s[m + i]
      <4>1. SUFFICES ASSUME NEW i \in 1..((k - m) + 1) PROVE g[k + 1][i] = s[m + i]
        OBVIOUS
      <4>2. CASE i = (k - m) + 1
        <5>1. m + i = k + 1
          BY <4>2
        <5>2. Append(g[k], s[k + 1])[Len(g[k]) + 1] = s[k + 1]
          BY <3>1, <3>2
        <5>3. g[k + 1][i] = s[k + 1]
          BY <3>1, <3>2, <4>2, <5>2
        <5>. QED  BY <5>1, <5>3
      <4>3. CASE i # (k - m) + 1
        <5>1. i \in 1..(k - m)
          BY <4>3
        <5>2. g[k + 1][i] = g[k][i]
          BY <3>1, <3>2, <5>1
        <5>. QED  BY <3>2, <5>1, <5>2
      <4>. QED  BY <4>2, <4>3
    <3>5. (k - m) + 1 = (k + 1) - m
      BY <2>1
    <3>6. Suffix(k + 1)
      BY <1>0, <2>1, <2>2, <3>3, <3>4, <3>5
    <3>. QED  BY <2>1, <3>6
  <2>3. CASE ~(k + 1 > m)
    <3>1. g[k + 1] = g[k]
      BY <1>2, <2>1, <2>3
    <3>2. k <= m /\ k + 1 <= m /\ ~(k + 1 > m)
      BY <1>0, <2>3
    <3>3. Suffix(k + 1)
      BY <2>1, <3>1, <3>2
    <3>. QED  BY <2>1, <3>3
  <2>. QED  BY <2>2, <2>3
<1>. HIDE DEF G
<1>5. Len(s) \in G
  <2>1. \A k \in 0..Len(s) : k \in G
    BY <1>1, <1>3, <1>4, Upto
  <2>. QED  BY <1>1, <2>1
<1>6. Suffix(Len(s))
  BY <1>5 DEF G
<1>7. CASE Len(s) <= m
  BY <1>1, <1>2, <1>6, <1>7
<1>8. CASE Len(s) > m
  BY <1>1, <1>2, <1>6, <1>8
<1>. QED  BY <1>7, <1>8

-----------------------------------------------------------------------------
(* Cursors and logs.                                                       *)

LEMMA ResetIs ==
    ASSUME NEW f \in Feeds, Contig(f), NEW c \in Cursors \cup {Null}
    PROVE  ~requiresReset(f, c) <=> c # Null /\ Honours(f, c)
<1>1. f.ring \in Seq(Entry) /\ f.next \in Int /\ Len(f.ring) \in Nat /\ DOMAIN f.ring = 1..Len(f.ring)
  BY DEF Feeds
<1>2. Low(f) \in Int
  BY EntryFacts
<1>3. Oldest(f) = Low(f)
  <2>1. CASE f.ring = <<>>
    <3>1. Len(f.ring) = 0
      BY <2>1
    <3>. QED  BY <1>1, <2>1, <3>1 DEF Oldest, Low
  <2>2. CASE f.ring # <<>>
    <3>1. 1 \in 1..Len(f.ring) /\ Head(f.ring) = f.ring[1]
      BY <1>1, <2>2
    <3>2. f.ring[1].seq = Low(f) + 1 - 1
      BY <1>1, <3>1 DEF Contig
    <3>. QED  BY <1>2, <2>2, <3>1, <3>2 DEF Oldest
  <2>. QED  BY <2>1, <2>2
<1>4. ASSUME c # Null PROVE c.seq \in Int /\ c.id \in Int
  BY <1>4 DEF Cursors
<1>5. ASSUME c # Null
      PROVE  c.seq \in (Oldest(f) - 1)..(f.next - 1) <=> Low(f) - 1 <= c.seq /\ c.seq < f.next
  BY <1>1, <1>2, <1>3, <1>4, <1>5
<1>. QED  BY <1>5 DEF requiresReset, Honours

LEMMA SelectedIs ==
    ASSUME NEW f \in Feeds, Contig(f), NEW c \in Cursors, Honours(f, c),
           Selected(f, c) # <<>>
    PROVE  /\ Selected(f, c) \in Seq(Entry)
           /\ \A i \in DOMAIN Selected(f, c) : Selected(f, c)[i] \in Entries(f)
           /\ Last(Selected(f, c)) \in Entries(f)
           /\ After(f, c.seq) \subseteq
                {Selected(f, c)[i].ev : i \in DOMAIN Selected(f, c)}
                  \cup After(f, Last(Selected(f, c)).seq)
<1>. DEFINE s == Selected(f, c)
            r == f.ring
            m == c.seq - Low(f) + 1
            P == {i \in DOMAIN r : r[i].seq > c.seq}
            a == Kept(r, P)
            n == IF Len(a) < PageLimit THEN Len(a) ELSE PageLimit
<1>1. r \in Seq(Entry) /\ f.next \in Int /\ Len(r) \in Nat /\ DOMAIN r = 1..Len(r)
  BY DEF Feeds
<1>2. Low(f) \in Int /\ Low(f) = f.next - Len(r) /\ c.seq \in Int
  BY EntryFacts DEF Low, Cursors
<1>3. m \in 0..Len(r)
  BY <1>1, <1>2 DEF Honours
<1>4. \A i \in 1..Len(r) : r[i].seq = Low(f) + i - 1
  BY <1>1 DEF Contig
<1>5. \A i \in 1..Len(r) : i \in P <=> i > m
  BY <1>1, <1>2, <1>4
<1>6. s = SubSeq(a, 1, n)
  BY DEF Selected
<1>. HIDE DEF P, m
<1>7. /\ a \in Seq(Entry) /\ Len(a) = Len(r) - m
      /\ \A i \in 1..(Len(r) - m) : a[i] = r[m + i]
  <2>. HIDE DEF r
  <2>. QED  BY <1>1, <1>3, <1>5, KeptTail, ZenonT(60)

<1>. HIDE DEF a, s
<1>8. n \in 0..Len(a) /\ Len(a) \in Nat
  <2>1. Len(a) \in Nat /\ PageLimit \in Nat
    BY <1>7, FeedAssumption
  <2>. QED  BY <2>1
<1>. HIDE DEF n
<1>9. s \in Seq(Entry) /\ Len(s) = n /\ \A i \in 1..n : s[i] = a[i]
  <2>1. \A i \in 1..n : a[i] \in Entry
    BY <1>7, <1>8
  <2>2. SubSeq(a, 1, n) \in Seq(Entry) /\ Len(SubSeq(a, 1, n)) = n
    BY <1>7, <1>8, <2>1
  <2>3. \A i \in 1..n : SubSeq(a, 1, n)[i] = a[1 + i - 1]
    BY <1>7, <1>8, <2>1
  <2>4. \A i \in 1..n : 1 + i - 1 = i
    BY <1>8
  <2>. QED  BY <1>6, <2>2, <2>3, <2>4
<1>10. DOMAIN s = 1..n /\ n \in 1..Len(a)
  <2>1. s # <<>>
    BY DEF s
  <2>2. Len(s) # 0
    BY <1>9, <2>1
  <2>. QED  BY <1>8, <1>9, <2>2
<1>11. ASSUME NEW i \in 1..n PROVE m + i \in 1..Len(r) /\ s[i] = r[m + i]
  <2>1. i \in 1..(Len(r) - m) /\ m + i \in 1..Len(r)
    BY <1>1, <1>3, <1>7, <1>8
  <2>. QED  BY <1>7, <1>9, <2>1
<1>12. \A i \in DOMAIN s : s[i] \in Entries(f)
  BY <1>1, <1>10, <1>11 DEF Entries
<1>13. Last(s) = s[n] /\ n \in DOMAIN s /\ Last(s) \in Entries(f)
  BY <1>8, <1>9, <1>10, <1>12 DEF Last
<1>14. Last(s).seq = Low(f) + (m + n) - 1
  BY <1>4, <1>10, <1>11, <1>13
<1>15. ASSUME NEW x \in Entries(f), x.seq > c.seq
       PROVE  x.ev \in {s[i].ev : i \in DOMAIN s} \cup After(f, Last(s).seq)
  <2>1. PICK j \in 1..Len(r) : x = r[j]
    BY <1>1 DEF Entries
  <2>2. x.seq = Low(f) + j - 1 /\ j > m
    BY <1>1, <1>4, <1>5, <1>15, <2>1 DEF P
  <2>3. CASE j <= m + n
    <3>1. j - m \in 1..n /\ m + (j - m) = j
      BY <1>3, <1>8, <2>2, <2>3
    <3>2. s[j - m] = x
      BY <1>11, <2>1, <3>1
    <3>. QED  BY <1>10, <3>1, <3>2
  <2>4. CASE j > m + n
    <3>1. x.seq > Last(s).seq
      BY <1>2, <1>3, <1>8, <1>14, <2>2, <2>4
    <3>. QED  BY <3>1 DEF After
  <2>. QED  BY <1>3, <1>8, <2>3, <2>4
<1>16. After(f, c.seq) \subseteq {s[i].ev : i \in DOMAIN s} \cup After(f, Last(s).seq)
  BY <1>15 DEF After
<1>. QED  BY <1>9, <1>12, <1>13, <1>16 DEF s

LEMMA LoadIs ==
    ASSUME NEW l \in Logs
    PROVE  /\ Load(l) \in Feeds /\ Load(l).id = l.id /\ Load(l).ring = l.ring
           /\ Load(l).digest = l.digest
           /\ l.header <= Load(l).next
           /\ l.ring = <<>> => l.header = Load(l).next
<1>1. /\ l.ring \in Seq(Entry) /\ l.header \in Int /\ l.id \in Int /\ Len(l.ring) \in Nat
      /\ l.digest \in Digests \cup {Null} /\ l.lines \in Int
  BY DEF Logs
<1>2. ASSUME l.ring # <<>> PROVE Last(l.ring).seq \in Int
  <2>1. Len(l.ring) \in 1..Len(l.ring)
    BY <1>1, <1>2
  <2>2. l.ring[Len(l.ring)] \in Entry
    BY <1>1, <2>1
  <2>. QED  BY <2>2 DEF Last, Entry
<1>. DEFINE n == IF l.ring # <<>> /\ Last(l.ring).seq >= l.header
                 THEN Last(l.ring).seq + 1 ELSE l.header
<1>3. n \in Int /\ l.header <= n /\ (l.ring = <<>> => l.header = n)
  BY <1>1, <1>2
<1>4. Load(l) = [id |-> l.id, next |-> n, ring |-> l.ring, digest |-> l.digest, lines |-> l.lines]
  BY DEF Load
<1>. HIDE DEF n
<1>. QED  BY <1>1, <1>3, <1>4 DEF Feeds

LEMMA LoadMirror ==
    ASSUME NEW l \in Logs, NEW f \in Feeds, Contig(f), Mirrors(l, f)
    PROVE  Load(l).next = f.next
<1>1. /\ l.ring = f.ring /\ f.ring \in Seq(Entry) /\ f.next \in Int /\ Len(f.ring) \in Nat
      /\ l.header \in Int /\ l.header <= f.next /\ DOMAIN f.ring = 1..Len(f.ring)
  BY DEF Feeds, Logs, Mirrors
<1>2. CASE f.ring = <<>>
  <2>1. l.header = f.next
    BY <1>2 DEF Mirrors
  <2>. QED  BY <1>1, <1>2, <2>1 DEF Load
<1>3. CASE f.ring # <<>>
  <2>1. Len(f.ring) \in 1..Len(f.ring)
    BY <1>1, <1>3
  <2>2. Last(f.ring).seq = Low(f) + Len(f.ring) - 1
    BY <1>1, <2>1 DEF Contig, Last
  <2>3. Last(f.ring).seq = f.next - 1
    <3>1. \A n, k \in Int : (n - k) + k - 1 = n - 1
      OBVIOUS
    <3>. QED  BY <1>1, <2>2, <3>1 DEF Low
  <2>4. Last(l.ring).seq = f.next - 1 /\ l.ring # <<>>
    BY <1>1, <1>3, <2>3
  <2>5. Load(l).next = IF Last(l.ring).seq >= l.header THEN Last(l.ring).seq + 1 ELSE l.header
    BY <2>4 DEF Load
  <2>. QED  BY <1>1, <2>4, <2>5
<1>. QED  BY <1>2, <1>3

LEMMA CompactedIs ==
    ASSUME NEW g \in Feeds
    PROVE  Compacted(g) \in Logs /\ Mirrors(Compacted(g), g)
<1>1. /\ g.ring \in Seq(Entry) /\ g.next \in Int /\ g.id \in Int /\ Len(g.ring) \in Int
      /\ g.digest \in Digests \cup {Null}
  BY DEF Feeds
<1>2. Compacted(g) \in Logs
  BY <1>1 DEF Compacted, Logs
<1>3. Mirrors(Compacted(g), g)
  BY <1>1 DEF Compacted, Mirrors
<1>. QED  BY <1>2, <1>3

\* g's numbers go on from f's.
Onward(f, g) ==
    /\ g \in Feeds /\ g.id = f.id /\ f.next <= g.next /\ g.lines = f.lines
    /\ g.ring = <<>> => f.ring = <<>> /\ g.next = f.next

LEMMA ExtendedIs ==
    ASSUME log \in Logs, NEW f \in Feeds, Contig(f), NEW g, Mirrors(log, f), Onward(f, g)
    PROVE  Extended(f, g) \in Logs /\ Mirrors(Extended(f, g), g)
<1>1. /\ g.ring \in Seq(Entry) /\ g.next \in Int /\ f.next \in Int
      /\ g.digest \in Digests \cup {Null}
  BY DEF Feeds, Onward
<1>2. log.lines \in Int /\ log.header \in Int
  BY DEF Logs
<1>3. Owed(f, g) \in Int
  BY <1>1 DEF Owed
<1>4. log.lines + Owed(f, g) \in Int
  BY <1>2, <1>3
<1>5. Extended(f, g) = [log EXCEPT !.ring = g.ring, !.digest = g.digest, !.lines = @ + Owed(f, g)]
  BY DEF Extended
<1>6. /\ Extended(f, g) \in Logs /\ Extended(f, g).id = log.id
      /\ Extended(f, g).header = log.header /\ Extended(f, g).ring = g.ring
      /\ Extended(f, g).digest = g.digest
  BY <1>1, <1>4, <1>5 DEF Logs
<1>7. g.id = f.id /\ f.next <= g.next /\ (g.ring = <<>> => f.ring = <<>> /\ g.next = f.next)
  BY DEF Onward
<1>8. log.id = f.id /\ log.header <= f.next /\ (f.ring = <<>> => log.header = f.next)
  BY DEF Mirrors
<1>9. log.header <= g.next /\ (g.ring = <<>> => log.header = g.next)
  BY <1>1, <1>2, <1>7, <1>8
<1>. QED  BY <1>6, <1>7, <1>8, <1>9 DEF Mirrors

-----------------------------------------------------------------------------
(* A feed that grew still knows what it knew.                              *)

LEMMA GrownKeeps ==
    ASSUME NEW f \in Feeds, Contig(f), NEW g \in Feeds, Contig(g), Grown(f, g),
           AllBehind(f), Agrees(f), served \subseteq Int \X Int \X Events
    PROVE  AllBehind(g) /\ Agrees(g) /\ \A S : Covers(f, S) => Covers(g, S)
<1>1. /\ Low(f) \in Int /\ f.next \in Int /\ Low(g) \in Int /\ g.next \in Int
      /\ Entries(f) \subseteq Entry /\ Entries(g) \subseteq Entry
  BY EntryFacts
<1>2. g.id = f.id /\ f.next <= g.next /\ Low(f) <= Low(g)
  BY DEF Grown
<1>3. AllBehind(g)
  <2>1. SUFFICES ASSUME NEW c \in Cursors, NEW H \in SUBSET Events, Holder(c, H), c.id = g.id
                 PROVE  c.seq < g.next
    BY DEF AllBehind
  <2>2. c.seq < f.next /\ c.seq \in Int
    BY <1>2, <2>1 DEF AllBehind, Cursors
  <2>. QED  BY <1>1, <1>2, <2>2
<1>4. Agrees(g)
  <2>1. SUFFICES ASSUME NEW x \in served, x[1] = g.id
                 PROVE  x[2] < g.next /\ \A y \in Entries(g) : y.seq = x[2] => y.ev = x[3]
    BY DEF Agrees
  <2>2. x[2] < f.next /\ \A y \in Entries(f) : y.seq = x[2] => y.ev = x[3]
    BY <1>2, <2>1 DEF Agrees
  <2>3. x[2] \in Int
    OBVIOUS
  <2>4. ASSUME NEW y \in Entries(g), y.seq = x[2] PROVE y.ev = x[3]
    <3>1. ~(y.seq >= f.next)
      BY <1>1, <2>2, <2>3, <2>4
    <3>2. y \in Entries(f)
      BY <3>1 DEF Grown
    <3>. QED  BY <2>2, <2>4, <3>2
  <2>. QED  BY <1>1, <1>2, <2>2, <2>3, <2>4
<1>5. ASSUME NEW S, Covers(f, S) PROVE Covers(g, S)
  <2>1. SUFFICES ASSUME NEW c \in Cursors, NEW H \in SUBSET Events, Holder(c, H), Honours(g, c)
                 PROVE  S \ expired \subseteq H \cup After(g, c.seq)
    BY DEF Covers
  <2>2. c.seq \in Int /\ c.id = f.id /\ Low(g) - 1 <= c.seq
    BY <1>2, <2>1 DEF Honours, Cursors
  <2>3. c.seq < f.next
    BY <2>1, <2>2 DEF AllBehind
  <2>4. Low(f) - 1 <= c.seq
    BY <1>1, <1>2, <2>2
  <2>5. Honours(f, c)
    BY <2>2, <2>3, <2>4 DEF Honours
  <2>6. S \ expired \subseteq H \cup After(f, c.seq)
    BY <1>5, <2>1, <2>5 DEF Covers
  <2>7. After(f, c.seq) \subseteq After(g, c.seq)
    <3>1. ASSUME NEW x \in Entries(f), x.seq > c.seq PROVE x \in Entries(g)
      <4>1. x.seq \in Int
        BY <1>1 DEF Entry
      <4>2. x.seq >= Low(g)
        BY <1>1, <2>2, <3>1, <4>1
      <4>. QED  BY <4>2 DEF Grown
    <3>. QED  BY <3>1 DEF After
  <2>. QED  BY <2>6, <2>7
<1>. QED  BY <1>3, <1>4, <1>5

LEMMA GrownOk ==
    ASSUME NEW f, FeedOk(f), NEW g \in Feeds, Contig(g), Grown(f, g),
           g.digest \in {Null, f.digest}, served \subseteq Int \X Int \X Events
    PROVE  FeedOk(g)
<1>1. f \in Feeds /\ Contig(f) /\ f.id <= ids /\ AllBehind(f) /\ Agrees(f)
      /\ (f.digest # Null => Covers(f, f.digest))
  BY DEF FeedOk
<1>2. AllBehind(g) /\ Agrees(g) /\ \A S : Covers(f, S) => Covers(g, S)
  BY <1>1, GrownKeeps
<1>3. g.id <= ids
  BY <1>1 DEF Grown
<1>4. g.digest # Null => Covers(g, g.digest)
  BY <1>1, <1>2
<1>. QED  BY <1>2, <1>3, <1>4 DEF FeedOk

\* Staging the events that are missing from the ring covers them too: each
\* has a number no cursor has reached.
LEMMA StagedCovers ==
    ASSUME NEW f, FeedOk(f), NEW g, NEW E \in SUBSET Events, Stages(f, g, E), NEW S,
           E \cap RingEvents(f) = {}, Covers(f, S \ E),
           served \subseteq Int \X Int \X Events
    PROVE  Covers(g, S)
<1>1. f \in Feeds /\ Contig(f) /\ AllBehind(f) /\ Agrees(f)
  BY DEF FeedOk
<1>2. g \in Feeds /\ Contig(g) /\ Grown(f, g)
  BY DEF Stages
<1>3. Covers(g, S \ E)
  BY <1>1, <1>2, GrownKeeps
<1>4. Low(g) \in Int /\ g.next \in Int /\ f.next \in Int /\ g.id = f.id
  BY <1>1, <1>2, EntryFacts DEF Grown
<1>5. SUFFICES ASSUME NEW c \in Cursors, NEW H \in SUBSET Events, Holder(c, H), Honours(g, c),
                      NEW e \in S \ expired, e \in E
               PROVE  e \in After(g, c.seq)
  BY <1>3 DEF Covers
<1>6. c.seq \in Int /\ Low(g) - 1 <= c.seq /\ c.seq < f.next
  BY <1>1, <1>4, <1>5 DEF Honours, AllBehind, Cursors
<1>7. PICK s \in f.next..(g.next - 1) : s >= Low(g) => [seq |-> s, ev |-> e] \in Entries(g)
  BY <1>5 DEF Stages
<1>8. s > c.seq /\ s >= Low(g)
  BY <1>4, <1>6, <1>7
<1>9. [seq |-> s, ev |-> e] \in Entries(g)
  BY <1>7, <1>8
<1>10. [seq |-> s, ev |-> e].seq = s /\ [seq |-> s, ev |-> e].ev = e
  OBVIOUS
<1>. QED  BY <1>8, <1>9, <1>10 DEF After

\* Only the ring, the numbers and the identity matter.
LEMMA SameFeed ==
    ASSUME NEW f, FeedOk(f), NEW g \in Feeds, g.id = f.id, g.next = f.next, g.ring = f.ring,
           g.digest = f.digest, served \subseteq Int \X Int \X Events
    PROVE  FeedOk(g) /\ (\A S : Covers(f, S) => Covers(g, S)) /\ RingEvents(g) = RingEvents(f)
<1>1. f \in Feeds /\ Contig(f) /\ AllBehind(f) /\ Agrees(f)
  BY DEF FeedOk
<1>2. Grown(f, g) /\ Contig(g) /\ RingEvents(g) = RingEvents(f)
  BY <1>1, GrownRefl
<1>3. FeedOk(g)
  BY <1>2, GrownOk
<1>4. \A S : Covers(f, S) => Covers(g, S)
  BY <1>1, <1>2, GrownKeeps
<1>. QED  BY <1>2, <1>3, <1>4

-----------------------------------------------------------------------------
(* Steps that add to no feed.  A new holder is vouched for by the feed that*)
(* answered it: of the events M it has what its cursor stands for.         *)

Vouched(f, M, c, H) ==
    /\ Honours(f, c)
    /\ \A S \in SUBSET M : Covers(f, S) => S \ expired \subseteq H \cup After(f, c.seq)

Same(c, H) == \E H0 \in SUBSET H : Holder(c, H0)

Steady(f, M) ==
    /\ expired \subseteq expired' /\ ids <= ids'
    /\ \A x \in served' : x \in served \/ (x[1] = f.id /\ [seq |-> x[2], ev |-> x[3]] \in Entries(f))
    /\ \A c \in Cursors, H \in SUBSET Events :
           Holder(c, H)' => Same(c, H) \/ Vouched(f, M, c, H)

Quiet ==
    /\ expired \subseteq expired' /\ ids <= ids' /\ served' = served
    /\ \A c \in Cursors, H \in SUBSET Events : Holder(c, H)' => Same(c, H)

LEMMA QuietSteady ==
    ASSUME Quiet, NEW f, NEW M
    PROVE  Steady(f, M)
BY DEF Quiet, Steady

LEMMA BookQuiet ==
    ASSUME UNCHANGED <<expired, served, cursor, have, deferred, page>>,
           cache' \in {cache, Null}, ids <= ids'
    PROVE  Quiet
<1>1. ASSUME NEW c \in Cursors, NEW H \in SUBSET Events, Holder(c, H)'
      PROVE  Same(c, H)
  <2>1. Holder(c, H)
    BY <1>1 DEF Holder, ToSet
  <2>. QED  BY <2>1 DEF Same
<1>. QED  BY <1>1 DEF Quiet

LEMMA SteadyCovers ==
    ASSUME NEW f, NEW M, Steady(f, M), NEW S \in SUBSET M, Covers(f, S)
    PROVE  Covers(f, S)'
<1>1. SUFFICES ASSUME NEW c \in Cursors, NEW H \in SUBSET Events, Holder(c, H)', Honours(f, c)
               PROVE  S \ expired' \subseteq H \cup After(f, c.seq)
  BY DEF Covers, Honours, After, Low, Entries
<1>2. CASE Same(c, H)
  <2>1. PICK H0 \in SUBSET H : Holder(c, H0)
    BY <1>2 DEF Same
  <2>2. S \ expired \subseteq H0 \cup After(f, c.seq)
    BY <1>1, <2>1 DEF Covers
  <2>. QED  BY <2>2 DEF Steady
<1>3. CASE Vouched(f, M, c, H)
  <2>1. S \ expired \subseteq H \cup After(f, c.seq)
    BY <1>3 DEF Vouched
  <2>. QED  BY <2>1 DEF Steady
<1>. QED  BY <1>1, <1>2, <1>3 DEF Steady

LEMMA SteadyFeed ==
    ASSUME NEW f, NEW M, Steady(f, M), FeedOk(f), Typed, Typed',
           f.digest # Null => f.digest \subseteq M
    PROVE  FeedOk(f)'
<1>1. /\ f \in Feeds /\ Contig(f) /\ f.id <= ids /\ AllBehind(f) /\ Agrees(f)
      /\ f.digest # Null => Covers(f, f.digest)
  BY DEF FeedOk
<1>2. f.id <= ids' /\ Contig(f)'
  BY <1>1 DEF Steady, Typed, Feeds, Contig, Low
<1>3. AllBehind(f)'
  <2>1. SUFFICES ASSUME NEW c \in Cursors, NEW H \in SUBSET Events, Holder(c, H)', c.id = f.id
                 PROVE  c.seq < f.next
    BY DEF AllBehind
  <2>2. CASE Same(c, H)
    BY <1>1, <2>1, <2>2 DEF Same, AllBehind
  <2>3. CASE Vouched(f, M, c, H)
    BY <2>3 DEF Vouched, Honours
  <2>. QED  BY <2>1, <2>2, <2>3 DEF Steady
<1>4. Agrees(f)'
  <2>1. SUFFICES ASSUME NEW x \in served', x[1] = f.id
                 PROVE  x[2] < f.next /\ \A y \in Entries(f) : y.seq = x[2] => y.ev = x[3]
    BY DEF Agrees, Entries
  <2>2. CASE x \in served
    BY <1>1, <2>1, <2>2 DEF Agrees
  <2>3. CASE [seq |-> x[2], ev |-> x[3]] \in Entries(f)
    <3>. DEFINE z == [seq |-> x[2], ev |-> x[3]]
    <3>1. z.seq = x[2] /\ z.ev = x[3]
      OBVIOUS
    <3>2. z \in Entries(f)
      BY <2>3
    <3>. HIDE DEF z
    <3>3. /\ \A y \in Entries(f) : y.seq < f.next
          /\ \A y, w \in Entries(f) : y.seq = w.seq => y = w
      BY <1>1, EntryFacts
    <3>. QED  BY <3>1, <3>2, <3>3
  <2>. QED  BY <2>1, <2>2, <2>3 DEF Steady
<1>5. f.digest # Null => Covers(f, f.digest)'
  BY <1>1, SteadyCovers
<1>. QED  BY <1>1, <1>2, <1>3, <1>4, <1>5 DEF FeedOk

LEMMA SteadyIds ==
    ASSUME NEW f, NEW M, Steady(f, M), FeedOk(f), Typed, Typed', IdsKnown, SeqHolds
    PROVE  IdsKnown' /\ SeqHolds'
<1>1. f \in Feeds /\ Contig(f) /\ f.id <= ids /\ Agrees(f) /\ f.id \in Int
  BY DEF FeedOk, Feeds
<1>2. ids \in Int /\ ids' \in Int /\ ids <= ids' /\ served \subseteq Int \X Int \X Events
  BY DEF Typed, Steady
<1>3. ASSUME NEW x \in served' PROVE x[1] <= ids'
  <2>1. CASE x \in served
    <3>1. x[1] <= ids /\ x[1] \in Int
      BY <1>2, <2>1 DEF IdsKnown
    <3>. QED  BY <1>2, <3>1
  <2>2. CASE x[1] = f.id
    BY <1>1, <1>2, <2>2
  <2>. QED  BY <2>1, <2>2 DEF Steady
<1>4. ASSUME NEW c \in Cursors, NEW H \in SUBSET Events, Holder(c, H)' PROVE c.id <= ids'
  <2>1. c.id \in Int
    BY DEF Cursors
  <2>2. CASE Same(c, H)
    <3>1. c.id <= ids
      BY <2>2 DEF Same, IdsKnown
    <3>. QED  BY <1>2, <2>1, <3>1
  <2>3. CASE Vouched(f, M, c, H)
    <3>1. c.id = f.id
      BY <2>3 DEF Vouched, Honours
    <3>. QED  BY <1>1, <1>2, <3>1
  <2>. QED  BY <1>4, <2>2, <2>3 DEF Steady
<1>5. ASSUME NEW x \in served', NEW y \in served', x[1] = y[1], x[2] = y[2] PROVE x[3] = y[3]
  <2>. DEFINE At(v) == [seq |-> v[2], ev |-> v[3]]
              New(v) == v[1] = f.id /\ At(v) \in Entries(f)
  <2>1. \A v : At(v).seq = v[2] /\ At(v).ev = v[3]
    OBVIOUS
  <2>2. (x \in served \/ New(x)) /\ (y \in served \/ New(y))
    BY DEF Steady
  <2>. HIDE DEF At
  <2>3. \A v, w \in Entries(f) : v.seq = w.seq => v = w
    BY <1>1, EntryFacts
  <2>4. CASE x \in served /\ y \in served
    BY <1>5, <2>4 DEF SeqHolds, SeqNamesOneEvent
  <2>5. CASE x \in served /\ New(y)
    BY <1>1, <1>5, <2>1, <2>5 DEF Agrees
  <2>6. CASE New(x) /\ y \in served
    <3>1. y[1] = f.id /\ At(x) \in Entries(f) /\ At(x).seq = y[2]
      BY <1>5, <2>1, <2>6
    <3>2. At(x).ev = y[3]
      BY <1>1, <2>6, <3>1 DEF Agrees
    <3>. QED  BY <2>1, <3>2
  <2>7. CASE New(x) /\ New(y)
    BY <1>5, <2>1, <2>3, <2>7
  <2>. QED  BY <2>2, <2>4, <2>5, <2>6, <2>7
<1>. QED  BY <1>3, <1>4, <1>5 DEF IdsKnown, SeqHolds, SeqNamesOneEvent

LEMMA QuietIds ==
    ASSUME Quiet, Typed, Typed', IdsKnown, SeqHolds
    PROVE  IdsKnown' /\ SeqHolds'
<1>1. ids \in Int /\ ids' \in Int /\ ids <= ids' /\ served' = served
      /\ served \subseteq Int \X Int \X Events
  BY DEF Typed, Quiet
<1>2. ASSUME NEW x \in served PROVE x[1] <= ids'
  <2>1. x[1] <= ids /\ x[1] \in Int
    BY <1>1 DEF IdsKnown
  <2>. QED  BY <1>1, <2>1
<1>3. ASSUME NEW c \in Cursors, NEW H \in SUBSET Events, Holder(c, H)' PROVE c.id <= ids'
  <2>1. c.id \in Int
    BY DEF Cursors
  <2>2. Same(c, H)
    BY <1>3 DEF Quiet
  <2>3. c.id <= ids
    BY <2>2 DEF Same, IdsKnown
  <2>. QED  BY <1>1, <2>1, <2>3
<1>4. SeqHolds'
  BY <1>1 DEF SeqHolds, SeqNamesOneEvent
<1>. QED  BY <1>1, <1>2, <1>3, <1>4 DEF IdsKnown

\* A step that leaves the book's feed, log and store alone.
Untouched == UNCHANGED <<proc, mem, file, pending, dirty, waiting, told, feed, log>>

LEMMA UntouchedInv ==
    ASSUME Inv, Typed', Untouched, NEW M,
           proc = "down" => Quiet,
           proc # "down" => /\ Steady(feed, M)
                            /\ feed.digest # Null => feed.digest \subseteq M,
           proc \in {"up", "append"} => mem \subseteq M
    PROVE  Inv'
<1>1. /\ Typed /\ IdsKnown /\ DownHolds /\ LiveHolds /\ UpHolds /\ FileHolds /\ SeqHolds
  BY DEF Inv
<1>2. UNCHANGED <<proc, mem, file, pending, dirty, waiting, told, feed, log>>
  BY DEF Untouched
<1>3. CASE proc = "down"
  <2>1. Quiet /\ expired \subseteq expired'
    BY <1>3 DEF Quiet
  <2>2. IdsKnown' /\ SeqHolds'
    BY <1>1, <2>1, QuietIds
  <2>3. DownHolds'
    <3>1. ASSUME log # Null PROVE FeedOk(Load(log))'
      <4>1. PICK f : f = Load(log)
        OBVIOUS
      <4>2. FeedOk(f) /\ Steady(f, Events) /\ f.digest \in Digests \cup {Null}
        BY <1>1, <1>3, <2>1, <3>1, <4>1, QuietSteady DEF DownHolds, FeedOk, Feeds
      <4>3. FeedOk(f)'
        BY <1>1, <4>2, SteadyFeed DEF Digests
      <4>4. f = Load(log)'
        BY <1>2, <4>1
      <4>. QED  BY <4>3, <4>4
    <3>. QED  BY <1>1, <1>2, <1>3, <3>1 DEF DownHolds
  <2>4. LiveHolds' /\ UpHolds'
    BY <1>2, <1>3 DEF LiveHolds, UpHolds
  <2>5. FileHolds'
    BY <1>1, <1>2, <1>3, <2>1 DEF FileHolds, RingEvents, Load
  <2>. QED  BY <1>1, <2>2, <2>3, <2>4, <2>5 DEF Inv
<1>4. CASE proc # "down"
  <2>1. PICK f : f = feed
    OBVIOUS
  <2>2. Steady(f, M) /\ FeedOk(f) /\ expired \subseteq expired'
        /\ (f.digest # Null => f.digest \subseteq M)
    BY <1>1, <1>4, <2>1 DEF LiveHolds, Steady
  <2>3. IdsKnown' /\ SeqHolds'
    BY <1>1, <2>2, SteadyIds
  <2>4. FeedOk(f)' /\ f = feed'
    BY <1>1, <1>2, <2>1, <2>2, SteadyFeed
  <2>5. DownHolds'
    BY <1>2, <1>4 DEF DownHolds
  <2>6. LiveHolds'
    <3>1. log' # Null /\ FeedOk(feed)' /\ log'.digest \in {Null, feed'.digest}
      BY <1>1, <1>2, <1>4, <2>4 DEF LiveHolds
    <3>2. Grown(feed, Load(log)) => Grown(feed, Load(log))'
      BY <1>2 DEF Grown, Load, Entries, Low, Contig
    <3>. QED  BY <1>1, <1>4, <3>1, <3>2 DEF LiveHolds
  <2>7. UpHolds'
    <3>1. SUFFICES ASSUME proc \in {"up", "append"} PROVE UpHolds'
      BY <1>2 DEF UpHolds
    <3>2. PICK S : S = mem \ ToSet(pending)
      OBVIOUS
    <3>3. Covers(f, S) /\ S \in SUBSET M
      BY <1>1, <2>1, <3>1, <3>2 DEF UpHolds
    <3>4. Covers(f, S)'
      BY <2>2, <3>3, SteadyCovers
    <3>5. S = (mem \ ToSet(pending))' /\ ToSet(pending)' = ToSet(pending)
      BY <1>2, <3>2 DEF ToSet
    <3>6. Covers(feed, mem \ ToSet(pending))'
      BY <2>4, <3>4, <3>5
    <3>7. Mirrors(log, feed)' /\ RingEvents(feed)' = RingEvents(feed)
      BY <1>1, <1>2, <3>1 DEF UpHolds, Mirrors, RingEvents
    <3>8. UNCHANGED <<mem, told, waiting>> /\ feed'.digest = feed.digest
      BY <1>2
    <3>. QED  BY <1>1, <2>2, <3>1, <3>5, <3>6, <3>7, <3>8 DEF UpHolds
  <2>8. FileHolds'
    BY <1>1, <1>2, <2>2 DEF FileHolds, RingEvents, Load
  <2>. QED  BY <2>3, <2>5, <2>6, <2>7, <2>8 DEF Inv
<1>. QED  BY <1>3, <1>4

-----------------------------------------------------------------------------
(* The mirror's steps.                                                     *)

LEMMA TailSet ==
    ASSUME NEW s \in Seq(Events), s # <<>>
    PROVE  /\ Head(s) \in Events /\ Tail(s) \in Seq(Events)
           /\ ToSet(s) = {Head(s)} \cup ToSet(Tail(s))
<1>1. /\ Len(s) \in Nat /\ Len(s) > 0 /\ DOMAIN s = 1..Len(s) /\ Head(s) = s[1]
      /\ Tail(s) \in Seq(Events) /\ Len(Tail(s)) = Len(s) - 1
      /\ DOMAIN Tail(s) = 1..(Len(s) - 1)
  OBVIOUS
<1>2. \A i \in 1..(Len(s) - 1) : Tail(s)[i] = s[i + 1]
  OBVIOUS
<1>3. \A i \in 1..Len(s) : i = 1 \/ (i - 1 \in 1..(Len(s) - 1) /\ (i - 1) + 1 = i)
  BY <1>1
<1>4. \A i \in 1..(Len(s) - 1) : i + 1 \in 1..Len(s)
  BY <1>1
<1>5. ToSet(s) = {s[1]} \cup ToSet(Tail(s))
  <2>1. 1 \in DOMAIN s
    BY <1>1
  <2>2. ASSUME NEW i \in DOMAIN s PROVE s[i] \in {s[1]} \cup ToSet(Tail(s))
    <3>1. CASE i = 1
      BY <3>1
    <3>2. CASE i # 1
      <4>1. i - 1 \in DOMAIN Tail(s) /\ Tail(s)[i - 1] = s[i]
        BY <1>1, <1>2, <1>3, <3>2
      <4>. QED  BY <4>1 DEF ToSet
    <3>. QED  BY <3>1, <3>2
  <2>3. ASSUME NEW i \in DOMAIN Tail(s) PROVE Tail(s)[i] \in ToSet(s)
    BY <1>1, <1>2, <1>4 DEF ToSet
  <2>. QED  BY <2>1, <2>2, <2>3 DEF ToSet
<1>. QED  BY <1>1, <1>5

MirrorStep ==
    /\ UNCHANGED <<book, expired, served>>
    /\ have' \in SUBSET Events /\ deferred' \in SUBSET Events
    /\ cursor' \in Cursors \cup {Null} /\ page' \in Pages \cup {Null}
    /\ cursor' # Null => Same(cursor', have' \cup deferred')
    /\ page' # Null => Same(page'.cur, have' \cup deferred' \cup ToSet(page'.todo))

LEMMA MirrorInv ==
    ASSUME Inv, MirrorStep
    PROVE  Inv'
<1>1. Typed'
  BY DEF Inv, Typed, MirrorStep, book
<1>2. Untouched /\ cache' = cache /\ ids' = ids
  BY DEF MirrorStep, Untouched, book
<1>3. ASSUME NEW c \in Cursors, NEW H \in SUBSET Events, Holder(c, H)'
      PROVE  Same(c, H)
  <2>1. CASE cursor' # Null /\ c = cursor' /\ H = have' \cup deferred'
    BY <2>1 DEF MirrorStep
  <2>2. CASE page' # Null /\ c = page'.cur /\ H = have' \cup deferred' \cup ToSet(page'.todo)
    BY <2>2 DEF MirrorStep
  <2>3. CASE cache' # Null /\ c = cache'.cur /\ H = cache'.snap
    <3>1. Holder(c, H)
      BY <1>2, <2>3 DEF Holder
    <3>. QED  BY <3>1 DEF Same
  <2>. QED  BY <1>3, <2>1, <2>2, <2>3 DEF Holder, ToSet
<1>4. Quiet
  <2>1. ids <= ids'
    BY <1>1, <1>2 DEF Typed
  <2>. QED  BY <1>3, <2>1 DEF Quiet, MirrorStep
<1>5. Steady(feed, Events) /\ mem \subseteq Events
      /\ (proc # "down" /\ feed.digest # Null => feed.digest \subseteq Events)
  BY <1>4, QuietSteady DEF Inv, Typed, LiveHolds, FeedOk, Feeds, Digests
<1>. QED  BY <1>1, <1>2, <1>4, <1>5, UntouchedInv

\* What the mirror's own holders are.
LEMMA HoldersAre ==
    ASSUME NEW H
    PROVE  /\ cursor # Null /\ have \cup deferred \subseteq H => Same(cursor, H)
           /\ page # Null /\ have \cup deferred \cup ToSet(page.todo) \subseteq H
                => Same(page.cur, H)
<1>1. cursor # Null => Holder(cursor, have \cup deferred)
  BY DEF Holder
<1>2. page # Null => Holder(page.cur, have \cup deferred \cup ToSet(page.todo))
  BY DEF Holder
<1>. QED  BY <1>1, <1>2 DEF Same

LEMMA PageTyped ==
    ASSUME Typed, page # Null
    PROVE  page \in Pages /\ page.cur \in Cursors /\ page.todo \in Seq(Events)
BY DEF Typed, Pages

LEMMA ConsumedIs ==
    ASSUME Typed, page # Null, page.todo # <<>>, Consumed
    PROVE  /\ page' \in Pages /\ page' # Null /\ page'.cur = page.cur /\ Head(page.todo) \in Events
           /\ ToSet(page.todo) = {Head(page.todo)} \cup ToSet(page'.todo)
<1>1. page \in Pages /\ page.cur \in Cursors /\ page.todo \in Seq(Events)
  BY PageTyped
<1>2. Tail(page.todo) \in Seq(Events) /\ Head(page.todo) \in Events
      /\ ToSet(page.todo) = {Head(page.todo)} \cup ToSet(Tail(page.todo))
  BY <1>1, TailSet
<1>3. page' = [page EXCEPT !.todo = Tail(page.todo)]
  BY DEF Consumed
<1>4. page' \in Pages /\ page'.cur = page.cur /\ page'.todo = Tail(page.todo)
  BY <1>1, <1>2, <1>3 DEF Pages
<1>5. page' # Null
  BY <1>4, NullAssumption
<1>. QED  BY <1>2, <1>4, <1>5

LEMMA MirrorTypes ==
    ASSUME Typed
    PROVE  /\ have \in SUBSET Events /\ deferred \in SUBSET Events
           /\ cursor \in Cursors \cup {Null} /\ page \in Pages \cup {Null}
BY DEF Typed

LEMMA TakeRecordStep ==
    ASSUME Typed, TakeRecord
    PROVE  MirrorStep
<1>1. page # Null /\ page.todo # <<>> /\ Consumed /\ have' = have \cup {Head(page.todo)}
      /\ UNCHANGED <<book, expired, served, cursor, deferred>>
  BY DEF TakeRecord
<1>2. /\ page' \in Pages /\ page' # Null /\ page'.cur = page.cur /\ Head(page.todo) \in Events
      /\ ToSet(page.todo) = {Head(page.todo)} \cup ToSet(page'.todo)
  BY <1>1, ConsumedIs
<1>3. cursor' # Null => Same(cursor', have' \cup deferred')
  BY <1>1, HoldersAre
<1>4. Same(page'.cur, have' \cup deferred' \cup ToSet(page'.todo))
  BY <1>1, <1>2, HoldersAre
<1>. QED  BY <1>1, <1>2, <1>3, <1>4, MirrorTypes DEF MirrorStep

LEMMA DeferRecordStep ==
    ASSUME Typed, DeferRecord
    PROVE  MirrorStep
<1>1. page # Null /\ page.todo # <<>>
      /\ UNCHANGED <<book, expired, served, have>>
  BY DEF DeferRecord
<1>2. CASE deferred' = {} /\ cursor' = Null /\ page' = Null
  BY <1>1, <1>2, MirrorTypes DEF MirrorStep
<1>3. CASE deferred' = deferred \cup {Head(page.todo)} /\ Consumed /\ UNCHANGED cursor
  <2>2. /\ page' \in Pages /\ page' # Null /\ page'.cur = page.cur /\ Head(page.todo) \in Events
        /\ ToSet(page.todo) = {Head(page.todo)} \cup ToSet(page'.todo)
    BY <1>1, <1>3, ConsumedIs
  <2>3. cursor' # Null => Same(cursor', have' \cup deferred')
    BY <1>1, <1>3, HoldersAre
  <2>4. Same(page'.cur, have' \cup deferred' \cup ToSet(page'.todo))
    BY <1>1, <1>3, <2>2, HoldersAre
  <2>. QED  BY <1>1, <1>3, <2>2, <2>3, <2>4, MirrorTypes DEF MirrorStep
<1>. QED  BY <1>2, <1>3 DEF DeferRecord

LEMMA FinishPageStep ==
    ASSUME Typed, FinishPage
    PROVE  MirrorStep
<1>1. page # Null /\ page.todo = <<>> /\ cursor' = page.cur /\ page' = Null
      /\ UNCHANGED <<book, expired, served, have, deferred>>
  BY DEF FinishPage
<1>2. page.cur \in Cursors
  BY <1>1, PageTyped
<1>3. ToSet(page.todo) = {}
  BY <1>1 DEF ToSet
<1>4. Same(cursor', have' \cup deferred')
  BY <1>1, <1>3, HoldersAre
<1>. QED  BY <1>1, <1>2, <1>4, MirrorTypes DEF MirrorStep

LEMMA RetryDeferredStep ==
    ASSUME Typed, RetryDeferred
    PROVE  MirrorStep
<1>1. PICK e \in deferred : have' = have \cup {e} /\ deferred' = deferred \ {e}
  BY DEF RetryDeferred
<1>2. page = Null /\ UNCHANGED <<book, expired, served, cursor, page>>
  BY DEF RetryDeferred
<1>3. have' \cup deferred' = have \cup deferred
  BY <1>1
<1>4. cursor' # Null => Same(cursor', have' \cup deferred')
  BY <1>2, <1>3, HoldersAre
<1>. QED  BY <1>1, <1>2, <1>4, MirrorTypes DEF MirrorStep

LEMMA DroppedSteps ==
    ASSUME Typed, DeferredExpires \/ SyncFails \/ MirrorRestarts
    PROVE  MirrorStep
<1>1. CASE DeferredExpires
  BY <1>1, MirrorTypes DEF DeferredExpires, MirrorStep
<1>2. CASE SyncFails
  <2>1. page' = Null /\ UNCHANGED <<book, expired, served, cursor, have, deferred>>
    BY <1>2 DEF SyncFails
  <2>2. cursor' # Null => Same(cursor', have' \cup deferred')
    BY <2>1, HoldersAre
  <2>. QED  BY <2>1, <2>2, MirrorTypes DEF MirrorStep
<1>3. CASE MirrorRestarts
  BY <1>3, MirrorTypes DEF MirrorRestarts, MirrorStep
<1>. QED  BY <1>1, <1>2, <1>3

LEMMA ExpireInv ==
    ASSUME Inv, NEW e \in Events, Expire(e)
    PROVE  Inv'
<1>1. UNCHANGED <<book, served, cursor, have, deferred, page>>
      /\ expired' = expired \cup {e} \cup {d \in Events : Needs[d] = e}
  BY DEF Expire, mirror
<1>2. Typed'
  BY <1>1 DEF Inv, Typed, book
<1>3. Untouched /\ cache' = cache /\ ids' = ids
  BY <1>1 DEF Untouched, book
<1>4. Quiet
  <2>1. ASSUME NEW c \in Cursors, NEW H \in SUBSET Events, Holder(c, H)'
        PROVE  Same(c, H)
    <3>1. Holder(c, H)
      BY <1>1, <1>3, <2>1 DEF Holder, ToSet
    <3>. QED  BY <3>1 DEF Same
  <2>2. ids <= ids'
    BY <1>2, <1>3 DEF Typed
  <2>. QED  BY <1>1, <2>1, <2>2 DEF Quiet
<1>5. Steady(feed, Events) /\ mem \subseteq Events
      /\ (proc # "down" /\ feed.digest # Null => feed.digest \subseteq Events)
  BY <1>4, QuietSteady DEF Inv, Typed, LiveHolds, FeedOk, Feeds, Digests
<1>. QED  BY <1>2, <1>3, <1>4, <1>5, UntouchedInv

-----------------------------------------------------------------------------
(* The feed's answers.                                                     *)

LEMMA ServePageInv ==
    ASSUME Inv, ServePage
    PROVE  Inv'
<1>. DEFINE s == Selected(feed, cursor)
            todo == [i \in DOMAIN s |-> s[i].ev]
            cur == [id |-> feed.id, seq |-> Last(s).seq]
<1>1. /\ proc \in {"up", "failed"} /\ page = Null /\ ~requiresReset(feed, cursor) /\ s # <<>>
      /\ page' = [cur |-> cur, todo |-> todo]
      /\ served' = served \cup {<<feed.id, s[i].seq, s[i].ev>> : i \in DOMAIN s}
      /\ UNCHANGED <<book, expired, cursor, have, deferred>>
  BY DEF ServePage
<1>2. proc # "down"
  BY <1>1
<1>3. FeedOk(feed) /\ feed \in Feeds /\ Contig(feed) /\ Typed
  BY <1>2 DEF Inv, LiveHolds, FeedOk
<1>4. cursor \in Cursors \cup {Null}
  BY <1>3 DEF Typed
<1>5. cursor # Null /\ cursor \in Cursors /\ Honours(feed, cursor)
  BY <1>1, <1>3, <1>4, ResetIs
<1>6. /\ s \in Seq(Entry)
      /\ \A i \in DOMAIN s : s[i] \in Entries(feed)
      /\ Last(s) \in Entries(feed)
      /\ After(feed, cursor.seq) \subseteq
            {s[i].ev : i \in DOMAIN s} \cup After(feed, Last(s).seq)
  BY <1>1, <1>3, <1>5, SelectedIs
<1>7. /\ Entries(feed) \subseteq Entry /\ Low(feed) \in Int /\ feed.next \in Int /\ feed.id \in Int
      /\ \A x \in Entries(feed) : Low(feed) <= x.seq /\ x.seq < feed.next
  BY <1>3, EntryFacts DEF Feeds
<1>. HIDE DEF s
<1>8. todo \in Seq(Events) /\ ToSet(todo) = {s[i].ev : i \in DOMAIN s}
  <2>1. DOMAIN s = 1..Len(s) /\ Len(s) \in Nat
    BY <1>6
  <2>2. \A i \in DOMAIN s : s[i].ev \in Events
    BY <1>6, <1>7 DEF Entry
  <2>3. todo \in Seq(Events)
    BY <2>1, <2>2
  <2>. QED  BY <2>3 DEF ToSet
<1>9. cur \in Cursors /\ cur.id = feed.id /\ cur.seq = Last(s).seq
  BY <1>6, <1>7 DEF Cursors, Entry
<1>. HIDE DEF cur, todo
<1>10. page' \in Pages /\ page'.cur = cur /\ page'.todo = todo
  BY <1>1, <1>8, <1>9 DEF Pages
<1>11. {<<feed.id, s[i].seq, s[i].ev>> : i \in DOMAIN s} \subseteq Int \X Int \X Events
  BY <1>6, <1>7 DEF Entry
<1>12. Typed'
  BY <1>1, <1>3, <1>10, <1>11 DEF Typed, book
<1>13. Untouched /\ cache' = cache /\ ids' = ids /\ ids \in Nat
  BY <1>1, <1>3 DEF Untouched, book, Typed
<1>14. Vouched(feed, Events, cur, have \cup deferred \cup ToSet(todo))
  <2>1. Honours(feed, cur)
    <3>1. Low(feed) <= cur.seq /\ cur.seq < feed.next /\ cur.seq \in Int
      BY <1>6, <1>7, <1>9 DEF Cursors
    <3>2. Low(feed) - 1 <= cur.seq
      BY <1>7, <3>1
    <3>. QED  BY <1>9, <3>1, <3>2 DEF Honours
  <2>2. ASSUME NEW S \in SUBSET Events, Covers(feed, S)
        PROVE  S \ expired \subseteq have \cup deferred \cup ToSet(todo) \cup After(feed, cur.seq)
    <3>1. Holder(cursor, have \cup deferred) /\ have \cup deferred \in SUBSET Events
      BY <1>3, <1>5 DEF Holder, Typed
    <3>2. S \ expired \subseteq have \cup deferred \cup After(feed, cursor.seq)
      BY <1>5, <2>2, <3>1 DEF Covers
    <3>. QED  BY <1>6, <1>8, <1>9, <3>2
  <2>. QED  BY <2>1, <2>2 DEF Vouched
<1>15. ASSUME NEW c \in Cursors, NEW H \in SUBSET Events, Holder(c, H)'
       PROVE  Same(c, H) \/ Vouched(feed, Events, c, H)
  <2>1. CASE c = page'.cur /\ H = have' \cup deferred' \cup ToSet(page'.todo)
    BY <1>1, <1>10, <1>14, <2>1
  <2>2. CASE cursor' # Null /\ c = cursor' /\ H = have' \cup deferred'
    BY <1>1, <2>2, HoldersAre
  <2>3. CASE cache' # Null /\ c = cache'.cur /\ H = cache'.snap
    <3>1. Holder(c, H)
      BY <1>13, <2>3 DEF Holder
    <3>. QED  BY <3>1 DEF Same
  <2>. QED  BY <1>15, <2>1, <2>2, <2>3 DEF Holder, ToSet
<1>16. ASSUME NEW x \in served'
       PROVE  x \in served \/ (x[1] = feed.id /\ [seq |-> x[2], ev |-> x[3]] \in Entries(feed))
  <2>1. CASE x \in served
    BY <2>1
  <2>2. CASE x \notin served
    <3>1. PICK i \in DOMAIN s : x = <<feed.id, s[i].seq, s[i].ev>>
      BY <1>1, <2>2
    <3>2. x[1] = feed.id /\ x[2] = s[i].seq /\ x[3] = s[i].ev
      BY <3>1
    <3>3. s[i] = [seq |-> s[i].seq, ev |-> s[i].ev]
      BY <1>6, <1>7 DEF Entry
    <3>. QED  BY <1>6, <3>2, <3>3
  <2>. QED  BY <2>1, <2>2
<1>17. Steady(feed, Events)
  BY <1>1, <1>13, <1>15, <1>16 DEF Steady
<1>18. (feed.digest # Null => feed.digest \subseteq Events) /\ mem \subseteq Events
  BY <1>3 DEF Feeds, Digests, Typed
<1>. QED  BY <1>2, <1>12, <1>13, <1>17, <1>18, UntouchedInv

LEMMA ListedIs ==
    ASSUME NEW snap \in SUBSET Events
    PROVE  Listed(snap) \in Seq(Events) /\ ToSet(Listed(snap)) = snap
<1>. DEFINE P == {i \in DOMAIN Catalogue : Catalogue[i] \in snap}
<1>1. Catalogue \in Seq(Events) /\ ToSet(Catalogue) = Events
  BY FeedAssumption
<1>2. DOMAIN Catalogue = 1..Len(Catalogue)
  BY <1>1
<1>3. {Catalogue[i] : i \in P \cap (1..Len(Catalogue))} = snap
  BY <1>1, <1>2 DEF ToSet
<1>. HIDE DEF P
<1>4. Kept(Catalogue, P) \in Seq(Events)
      /\ ToSet(Kept(Catalogue, P)) = {Catalogue[i] : i \in P \cap (1..Len(Catalogue))}
  BY <1>1, KeptSet
<1>. QED  BY <1>3, <1>4 DEF Listed, P

LEMMA ServeResetInv ==
    ASSUME Inv, ServeReset
    PROVE  Inv'
<1>. DEFINE built == [cur |-> [id |-> feed.id, seq |-> feed.next - 1], snap |-> mem]
<1>1. /\ proc = "up" /\ ~dirty /\ page = Null
      /\ UNCHANGED <<proc, mem, file, pending, dirty, waiting, told, feed, log, ids,
                     expired, served, cursor, have, deferred>>
  BY DEF ServeReset
<1>2. proc # "down" /\ proc \in {"up", "append"} /\ pending = <<>>
  BY <1>1 DEF Inv, FileHolds
<1>3. FeedOk(feed) /\ feed \in Feeds /\ Contig(feed) /\ Typed
  BY <1>2 DEF Inv, LiveHolds, FeedOk
<1>4. PICK answer : /\ answer = built \/ (cache # Null /\ answer = cache /\ ~requiresReset(feed, cache.cur))
                    /\ cache' = answer
                    /\ page' = [cur |-> answer.cur, todo |-> Listed(answer.snap)]
  BY DEF ServeReset
<1>5. Low(feed) \in Int /\ feed.next \in Int /\ feed.id \in Int /\ Low(feed) <= feed.next
  BY <1>3, EntryFacts DEF Feeds
<1>. DEFINE M == mem \cup expired
<1>6. /\ answer \in ResetPages
      /\ Vouched(feed, M, answer.cur, answer.snap)
  <2>1. CASE answer = built
    <3>1. built \in ResetPages /\ built.cur.id = feed.id /\ built.cur.seq = feed.next - 1
          /\ built.snap = mem
      BY <1>3, <1>5 DEF ResetPages, Cursors, Typed
    <3>2. Honours(feed, built.cur)
      BY <1>5, <3>1 DEF Honours
    <3>3. Vouched(feed, M, built.cur, built.snap)
      BY <3>1, <3>2 DEF Vouched
    <3>. QED  BY <2>1, <3>1, <3>3
  <2>2. CASE cache # Null /\ answer = cache /\ ~requiresReset(feed, cache.cur)
    <3>1. cache \in ResetPages /\ cache.cur \in Cursors /\ cache.snap \in SUBSET Events
      BY <1>3, <2>2 DEF Typed, ResetPages
    <3>2. Honours(feed, cache.cur)
      BY <1>3, <2>2, <3>1, ResetIs
    <3>3. Holder(cache.cur, cache.snap)
      BY <2>2 DEF Holder
    <3>4. \A S \in SUBSET M : Covers(feed, S) =>
              S \ expired \subseteq cache.snap \cup After(feed, cache.cur.seq)
      BY <3>1, <3>2, <3>3 DEF Covers
    <3>. QED  BY <2>2, <3>1, <3>2, <3>4 DEF Vouched
  <2>. QED  BY <1>4, <2>1, <2>2
<1>7. answer.cur \in Cursors /\ answer.snap \in SUBSET Events
  BY <1>6 DEF ResetPages
<1>8. Listed(answer.snap) \in Seq(Events) /\ ToSet(Listed(answer.snap)) = answer.snap
  BY <1>7, ListedIs
<1>9. page' \in Pages /\ page'.cur = answer.cur /\ page'.todo = Listed(answer.snap)
  BY <1>4, <1>7, <1>8 DEF Pages
<1>10. Typed'
  BY <1>1, <1>3, <1>4, <1>6, <1>9 DEF Typed
<1>11. Untouched /\ ids' = ids /\ ids \in Nat
  BY <1>1, <1>3 DEF Untouched, Typed
<1>12. ASSUME NEW c \in Cursors, NEW H \in SUBSET Events, Holder(c, H)'
       PROVE  Same(c, H) \/ Vouched(feed, M, c, H)
  <2>1. CASE c = page'.cur /\ H = have' \cup deferred' \cup ToSet(page'.todo)
    <3>1. c = answer.cur /\ answer.snap \subseteq H
      BY <1>8, <1>9, <2>1
    <3>. QED  BY <1>6, <3>1 DEF Vouched
  <2>2. CASE cursor' # Null /\ c = cursor' /\ H = have' \cup deferred'
    BY <1>1, <2>2, HoldersAre
  <2>3. CASE cache' # Null /\ c = cache'.cur /\ H = cache'.snap
    BY <1>4, <1>6, <2>3
  <2>. QED  BY <1>12, <2>1, <2>2, <2>3 DEF Holder, ToSet
<1>. HIDE DEF M
<1>13. Steady(feed, M)
  <2>1. ids <= ids' /\ expired \subseteq expired' /\ served' = served
    BY <1>1, <1>11
  <2>. QED  BY <1>12, <2>1 DEF Steady
<1>14. (feed.digest # Null => feed.digest \subseteq M) /\ mem \subseteq M
  BY <1>2 DEF Inv, UpHolds, M
<1>. QED  BY <1>2, <1>10, <1>11, <1>13, <1>14, UntouchedInv

-----------------------------------------------------------------------------
(* The store's steps that leave the feed alone.                            *)

LEMMA SeqAppend ==
    ASSUME NEW q \in Seq(Events), NEW e \in Events
    PROVE  Append(q, e) \in Seq(Events) /\ ToSet(Append(q, e)) = ToSet(q) \cup {e}
<1>1. /\ DOMAIN Append(q, e) = 1..(Len(q) + 1) /\ DOMAIN q = 1..Len(q) /\ Len(q) \in Nat
      /\ \A i \in 1..Len(q) : Append(q, e)[i] = q[i]
      /\ Append(q, e)[Len(q) + 1] = e
  OBVIOUS
<1>. QED  BY <1>1 DEF ToSet

\* Nothing that a holder, a feed or the log is made of moves.
FeedStill == UNCHANGED <<feed, log, ids, cache, expired, served, cursor, have, deferred, page>>

LEMMA StillKeeps ==
    ASSUME FeedStill, Typed, Typed', NEW f
    PROVE  /\ (FeedOk(f) => FeedOk(f)') /\ (\A S : Covers(f, S) => Covers(f, S)')
           /\ (IdsKnown /\ SeqHolds => IdsKnown' /\ SeqHolds')
<1>1. Quiet
  <2>1. UNCHANGED <<expired, served, cursor, have, deferred, page>> /\ cache' = cache /\ ids' = ids
    BY DEF FeedStill
  <2>2. ids <= ids'
    BY <2>1 DEF Typed
  <2>. QED  BY <2>1, <2>2, BookQuiet
<1>2. FeedOk(f) => FeedOk(f)'
  <2>1. FeedOk(f) => (f.digest # Null => f.digest \subseteq Events)
    BY DEF FeedOk, Feeds, Digests
  <2>2. Steady(f, Events)
    BY <1>1, QuietSteady
  <2>. QED  BY <2>1, <2>2, SteadyFeed
<1>3. ASSUME NEW S, Covers(f, S) PROVE Covers(f, S)'
  <2>1. Steady(f, S)
    BY <1>1, QuietSteady
  <2>. QED  BY <1>3, <2>1, SteadyCovers
<1>4. IdsKnown /\ SeqHolds => IdsKnown' /\ SeqHolds'
  BY <1>1, QuietIds
<1>. QED  BY <1>2, <1>3, <1>4

\* The live book's feed and log after such a step.
LEMMA StillLive ==
    ASSUME Inv, FeedStill, Typed', proc # "down"
    PROVE  /\ IdsKnown' /\ SeqHolds' /\ log' # Null /\ FeedOk(feed)'
           /\ Grown(feed, Load(log))' /\ log'.digest \in {Null, feed'.digest}
           /\ (\A S : Covers(feed, S) => Covers(feed, S)')
           /\ (Mirrors(log, feed) => Mirrors(log, feed)')
           /\ RingEvents(feed)' = RingEvents(feed) /\ feed'.digest = feed.digest
           /\ RingEvents(Load(log))' = RingEvents(Load(log))
<1>1. Typed /\ IdsKnown /\ SeqHolds /\ LiveHolds /\ UNCHANGED <<feed, log, expired>>
  BY DEF Inv, FeedStill
<1>2. PICK f : f = feed
  OBVIOUS
<1>3. log # Null /\ FeedOk(f) /\ Grown(feed, Load(log)) /\ log.digest \in {Null, feed.digest}
  BY <1>1, <1>2 DEF LiveHolds
<1>4. FeedOk(f)' /\ (\A S : Covers(f, S) => Covers(f, S)') /\ IdsKnown' /\ SeqHolds'
  BY <1>1, <1>3, StillKeeps
<1>5. f = feed'
  BY <1>1, <1>2
<1>6. FeedOk(feed)' /\ (\A S : Covers(feed, S) => Covers(feed, S)')
  BY <1>2, <1>4, <1>5
<1>7. Grown(feed, Load(log))'
  BY <1>1, <1>3 DEF Grown, Load, Entries, Low, Contig
<1>8. (Mirrors(log, feed) => Mirrors(log, feed)') /\ RingEvents(feed)' = RingEvents(feed)
      /\ RingEvents(Load(log))' = RingEvents(Load(log))
  BY <1>1 DEF Mirrors, RingEvents, Load
<1>. QED  BY <1>1, <1>3, <1>4, <1>6, <1>7, <1>8

LEMMA AcceptInv ==
    ASSUME Inv, NEW e \in Events, Accept(e)
    PROVE  Inv'
<1>. DEFINE new == e \notin Swept
<1>1. /\ proc = "up" /\ e \notin expired /\ proc' = "up" /\ file' = file
      /\ mem' = Swept \cup {e}
      /\ pending' = IF new THEN Append(pending, e) ELSE pending
      /\ dirty' = (dirty \/ new \/ Swept # mem)
      /\ Answer(e) /\ FeedStill
  BY DEF Accept, FeedStill, mirror
<1>2. Typed /\ UpHolds /\ FileHolds /\ proc # "down" /\ proc \in {"up", "append"}
  BY <1>1 DEF Inv
<1>3. /\ Mirrors(log, feed) /\ Covers(feed, mem \ ToSet(pending))
      /\ ToSet(pending) \cap RingEvents(feed) = {} /\ ToSet(pending) \subseteq mem \cup expired
      /\ RingEvents(feed) \cup told \cup waiting \subseteq mem \cup expired
      /\ feed.digest # Null => feed.digest \subseteq mem \cup expired
  BY <1>2 DEF UpHolds
<1>4. mem \in SUBSET Events /\ pending \in Seq(Events) /\ told \in SUBSET Events
      /\ waiting \in SUBSET Events /\ file \in SUBSET Events
  BY <1>2 DEF Typed
<1>5. /\ pending' \in Seq(Events)
      /\ ToSet(pending') = ToSet(pending) \cup (IF new THEN {e} ELSE {})
  BY <1>1, <1>4, SeqAppend
<1>6. mem' \in SUBSET Events /\ mem \subseteq mem' \cup expired /\ e \in mem'
      /\ mem' \subseteq mem \cup {e}
  BY <1>1, <1>4 DEF Swept
<1>7. \/ dirty' /\ waiting' = waiting \cup {e} /\ told' = told
      \/ ~dirty' /\ told' = told \cup {e} /\ waiting' = waiting
  BY <1>1 DEF Answer
<1>8. told' \in SUBSET Events /\ waiting' \in SUBSET Events
      /\ told' \cup waiting' \subseteq told \cup waiting \cup {e}
  BY <1>4, <1>7
<1>9. Typed'
  BY <1>1, <1>2, <1>5, <1>6, <1>8 DEF Typed, FeedStill
<1>10. /\ IdsKnown' /\ SeqHolds' /\ log' # Null /\ FeedOk(feed)'
       /\ Grown(feed, Load(log))' /\ log'.digest \in {Null, feed'.digest}
       /\ (\A S : Covers(feed, S) => Covers(feed, S)')
       /\ Mirrors(log, feed)'
       /\ RingEvents(feed)' = RingEvents(feed) /\ feed'.digest = feed.digest
       /\ RingEvents(Load(log))' = RingEvents(Load(log))
  BY <1>1, <1>2, <1>3, <1>9, StillLive
<1>11. expired' = expired /\ log' = log
  BY <1>1 DEF FeedStill
<1>12. mem' \ ToSet(pending') \subseteq mem \ ToSet(pending)
  <2>1. CASE new
    BY <1>5, <1>6, <2>1
  <2>2. CASE ~new
    BY <1>5, <1>6, <2>2 DEF Swept
  <2>. QED  BY <2>1, <2>2
<1>13. Covers(feed, mem \ ToSet(pending))'
  <2>1. PICK S : S = mem' \ ToSet(pending')
    OBVIOUS
  <2>2. Covers(feed, S)
    BY <1>3, <1>12, <2>1 DEF Covers
  <2>3. Covers(feed, S)'
    BY <1>10, <2>2
  <2>4. S = (mem \ ToSet(pending))'
    BY <2>1 DEF ToSet
  <2>. QED  BY <2>3, <2>4
<1>14. ToSet(pending') \cap RingEvents(feed) = {}
  <2>1. ASSUME new PROVE e \notin RingEvents(feed)
    BY <1>1, <1>3, <2>1 DEF Swept
  <2>. QED  BY <1>3, <1>5, <2>1
<1>15. UpHolds'
  <2>1. ToSet(pending)' = ToSet(pending')
    BY DEF ToSet
  <2>2. ToSet(pending') \subseteq mem' \cup expired
    BY <1>3, <1>5, <1>6
  <2>3. RingEvents(feed) \cup told' \cup waiting' \subseteq mem' \cup expired
    BY <1>3, <1>6, <1>8
  <2>4. feed.digest # Null => feed.digest \subseteq mem' \cup expired
    BY <1>3, <1>6
  <2>. QED  BY <1>10, <1>11, <1>13, <1>14, <2>1, <2>2, <2>3, <2>4 DEF UpHolds
<1>16. ASSUME ~dirty'
       PROVE  pending' = <<>> /\ mem' \subseteq file \cup expired /\ e \in file
  <2>1. ~dirty /\ ~new /\ Swept = mem
    BY <1>1, <1>16
  <2>2. pending = <<>> /\ mem \subseteq file \cup expired
    BY <1>1, <1>2, <2>1 DEF FileHolds
  <2>3. mem' = mem /\ pending' = pending
    BY <1>1, <2>1
  <2>. QED  BY <1>1, <1>6, <2>2, <2>3
<1>17. FileHolds'
  <2>1. told' \subseteq file \cup expired
    <3>1. told \subseteq file \cup expired
      BY <1>2 DEF FileHolds
    <3>. QED  BY <1>7, <1>16, <3>1
  <2>2. log' # Null => RingEvents(Load(log))' \subseteq file' \cup expired'
    BY <1>1, <1>2, <1>10, <1>11 DEF FileHolds
  <2>. QED  BY <1>1, <1>11, <1>16, <2>1, <2>2 DEF FileHolds
<1>18. LiveHolds' /\ DownHolds'
  BY <1>1, <1>10 DEF LiveHolds, DownHolds
<1>. QED  BY <1>9, <1>10, <1>15, <1>17, <1>18 DEF Inv

LEMMA ReadSweepsInv ==
    ASSUME Inv, ReadSweeps
    PROVE  Inv'
<1>1. proc = "up" /\ mem' = Swept /\ dirty' = TRUE /\ FeedStill
      /\ UNCHANGED <<proc, file, pending, waiting, told>>
  BY DEF ReadSweeps, FeedStill, mirror
<1>2. Typed /\ UpHolds /\ FileHolds /\ proc # "down" /\ proc \in {"up", "append"}
  BY <1>1 DEF Inv
<1>3. mem' \subseteq mem /\ mem \subseteq mem' \cup expired
  BY <1>1 DEF Swept
<1>4. Typed'
  BY <1>1, <1>2, <1>3 DEF Typed, FeedStill
<1>5. /\ IdsKnown' /\ SeqHolds' /\ log' # Null /\ FeedOk(feed)'
      /\ Grown(feed, Load(log))' /\ log'.digest \in {Null, feed'.digest}
      /\ (\A S : Covers(feed, S) => Covers(feed, S)')
      /\ Mirrors(log, feed)'
      /\ RingEvents(feed)' = RingEvents(feed) /\ feed'.digest = feed.digest
      /\ RingEvents(Load(log))' = RingEvents(Load(log))
  BY <1>1, <1>2, <1>4, StillLive DEF UpHolds
<1>6. expired' = expired /\ log' = log
  BY <1>1 DEF FeedStill
<1>7. Covers(feed, mem \ ToSet(pending))'
  <2>1. PICK S : S = mem' \ ToSet(pending)
    OBVIOUS
  <2>2. Covers(feed, S)
    BY <1>2, <1>3, <2>1 DEF Covers, UpHolds
  <2>3. S = (mem \ ToSet(pending))'
    BY <1>1, <2>1 DEF ToSet
  <2>. QED  BY <1>5, <2>2, <2>3
<1>8. UpHolds'
  <2>1. ToSet(pending)' = ToSet(pending) /\ UNCHANGED <<told, waiting>>
    BY <1>1 DEF ToSet
  <2>. QED  BY <1>2, <1>3, <1>5, <1>6, <1>7, <2>1 DEF UpHolds
<1>9. FileHolds'
  BY <1>1, <1>2, <1>5, <1>6 DEF FileHolds
<1>10. LiveHolds' /\ DownHolds'
  BY <1>1, <1>5 DEF LiveHolds, DownHolds
<1>. QED  BY <1>4, <1>5, <1>8, <1>9, <1>10 DEF Inv

LEMMA WriteSnapshotInv ==
    ASSUME Inv, WriteSnapshot
    PROVE  Inv'
<1>1. proc = "up" /\ file' = mem /\ dirty' = FALSE /\ proc' = "append" /\ FeedStill
      /\ UNCHANGED <<mem, pending, waiting, told>>
  BY DEF WriteSnapshot, FeedStill, mirror
<1>2. Typed /\ UpHolds /\ FileHolds /\ proc # "down" /\ proc \in {"up", "append"}
  BY <1>1 DEF Inv
<1>4. Typed'
  BY <1>1, <1>2 DEF Typed, FeedStill
<1>5. /\ IdsKnown' /\ SeqHolds' /\ log' # Null /\ FeedOk(feed)'
      /\ Grown(feed, Load(log))' /\ log'.digest \in {Null, feed'.digest}
      /\ (\A S : Covers(feed, S) => Covers(feed, S)')
      /\ Mirrors(log, feed)'
      /\ RingEvents(feed)' = RingEvents(feed) /\ feed'.digest = feed.digest
      /\ RingEvents(Load(log))' = RingEvents(Load(log))
  BY <1>1, <1>2, <1>4, StillLive DEF UpHolds
<1>6. expired' = expired /\ log' = log
  BY <1>1 DEF FeedStill
<1>7. Covers(feed, mem \ ToSet(pending))'
  <2>1. PICK S : S = mem \ ToSet(pending)
    OBVIOUS
  <2>2. Covers(feed, S)
    BY <1>2, <2>1 DEF UpHolds
  <2>3. S = (mem \ ToSet(pending))'
    BY <1>1, <2>1 DEF ToSet
  <2>. QED  BY <1>5, <2>2, <2>3
<1>8. UpHolds'
  <2>1. ToSet(pending)' = ToSet(pending) /\ UNCHANGED <<mem, told, waiting>>
    BY <1>1 DEF ToSet
  <2>. QED  BY <1>2, <1>5, <1>6, <1>7, <2>1 DEF UpHolds
<1>9. FileHolds'
  <2>1. RingEvents(Load(log)) = RingEvents(feed)
    <3>1. log \in Logs
      BY <1>2, <1>5, <1>6 DEF Typed
    <3>. QED  BY <1>2, <3>1, LoadIs DEF UpHolds, Mirrors, RingEvents
  <2>2. told \subseteq mem \cup expired /\ RingEvents(feed) \subseteq mem \cup expired
    BY <1>2 DEF UpHolds
  <2>. QED  BY <1>1, <1>5, <1>6, <2>1, <2>2 DEF FileHolds
<1>10. LiveHolds' /\ DownHolds'
  BY <1>1, <1>5 DEF LiveHolds, DownHolds
<1>. QED  BY <1>4, <1>5, <1>8, <1>9, <1>10 DEF Inv

LEMMA LogLostInv ==
    ASSUME Inv, LogLost
    PROVE  Inv'
<1>1. proc = "down" /\ log' = Null
      /\ UNCHANGED <<proc, mem, file, pending, dirty, waiting, told, feed, ids, cache,
                     expired, served, cursor, have, deferred, page>>
  BY DEF LogLost, mirror
<1>2. Typed /\ DownHolds /\ FileHolds /\ IdsKnown /\ SeqHolds
  BY DEF Inv
<1>3. Typed'
  BY <1>1, <1>2 DEF Typed
<1>4. Quiet
  <2>1. ids <= ids'
    BY <1>1, <1>2 DEF Typed
  <2>. QED  BY <1>1, <2>1, BookQuiet
<1>5. IdsKnown' /\ SeqHolds'
  BY <1>2, <1>3, <1>4, QuietIds
<1>6. DownHolds' /\ LiveHolds' /\ UpHolds'
  BY <1>1, <1>2 DEF DownHolds, LiveHolds, UpHolds
<1>7. FileHolds'
  BY <1>1, <1>2 DEF FileHolds
<1>. QED  BY <1>3, <1>5, <1>6, <1>7 DEF Inv

-----------------------------------------------------------------------------
(* The append.                                                             *)

LEMMA StagedNothing ==
    ASSUME NEW f, NEW e \in Seq(Events), e = <<>>
    PROVE  Staged(f, e) = f
<1>1. PICK g : StageStep(f, e, g, Len(e)) /\ Staged(f, e) = g[Len(e)]
  BY StagedIs
<1>2. Len(e) = 0
  OBVIOUS
<1>. QED  BY <1>1, <1>2 DEF StageStep

\* The batch of a live book: what it stages, and that the feed then covers
\* everything in memory.
LEMMA BatchIs ==
    ASSUME Inv, proc \in {"up", "append"}, NEW g, g = Staged(feed, pending)
    PROVE  /\ Stages(feed, g, ToSet(pending)) /\ FeedOk(g) /\ Covers(g, mem)
           /\ RingEvents(g) \subseteq mem \cup expired
           /\ log \in Logs /\ Mirrors(log, feed) /\ feed \in Feeds /\ Contig(feed)
           /\ g.next = feed.next => pending = <<>>
<1>1. Typed /\ UpHolds /\ LiveHolds /\ proc # "down"
  BY DEF Inv
<1>2. FeedOk(feed) /\ feed \in Feeds /\ Contig(feed)
  BY <1>1 DEF LiveHolds, FeedOk
<1>3. pending \in Seq(Events) /\ served \subseteq Int \X Int \X Events
      /\ log \in Logs /\ mem \in SUBSET Events
  BY <1>1 DEF Typed, LiveHolds
<1>4. Stages(feed, g, ToSet(pending))
  BY <1>2, <1>3, StageAll
<1>5. ToSet(pending) \in SUBSET Events
  BY <1>3 DEF ToSet
<1>6. FeedOk(g)
  BY <1>2, <1>3, <1>4, GrownOk DEF Stages
<1>7. Covers(g, mem)
  BY <1>1, <1>2, <1>3, <1>4, <1>5, StagedCovers DEF UpHolds
<1>8. RingEvents(g) \subseteq mem \cup expired
  BY <1>1, <1>4 DEF Stages, UpHolds
<1>9. ASSUME g.next = feed.next PROVE pending = <<>>
  <2>1. feed.next \in Int
    BY <1>2 DEF Feeds
  <2>2. ToSet(pending) \cap RingEvents(feed) = {}
    BY <1>1 DEF UpHolds
  <2>3. ASSUME NEW e \in ToSet(pending) PROVE FALSE
    <3>1. \E s \in feed.next..(g.next - 1) : TRUE
      BY <1>4, <2>2, <2>3 DEF Stages
    <3>. QED  BY <1>9, <2>1, <3>1
  <2>4. DOMAIN pending = {}
    BY <2>3 DEF ToSet
  <2>. QED  BY <1>3, <2>4
<1>. QED  BY <1>1, <1>2, <1>3, <1>4, <1>6, <1>7, <1>8, <1>9 DEF UpHolds

\* A feed and a log that say what g says.
Holds(f, l, g) ==
    /\ f \in Feeds /\ f.id = g.id /\ f.next = g.next /\ f.ring = g.ring /\ f.digest = g.digest
    /\ l \in Logs /\ Mirrors(l, f)

LEMMA MirrorGrown ==
    ASSUME NEW f \in Feeds, Contig(f), NEW l \in Logs, Mirrors(l, f)
    PROVE  /\ Load(l) \in Feeds /\ Grown(f, Load(l)) /\ l.digest = f.digest
           /\ RingEvents(Load(l)) = RingEvents(f) /\ Contig(Load(l)) /\ l # Null
<1>1. Load(l) \in Feeds /\ Load(l).id = l.id /\ Load(l).ring = l.ring
  BY LoadIs
<1>2. Load(l).next = f.next
  BY LoadMirror
<1>3. l.id = f.id /\ l.ring = f.ring /\ l.digest = f.digest
  BY DEF Mirrors
<1>4. l # Null
  BY NullAssumption
<1>. QED  BY <1>1, <1>2, <1>3, <1>4, GrownRefl

LEMMA SettledInv ==
    ASSUME Inv, proc = "append", Settled, NEW g, g = Staged(feed, pending),
           Holds(feed', log', g), cache' \in {cache, Null}
    PROVE  Inv'
<1>1. /\ Stages(feed, g, ToSet(pending)) /\ FeedOk(g) /\ Covers(g, mem)
      /\ RingEvents(g) \subseteq mem \cup expired
  BY BatchIs
<1>2. Typed /\ UpHolds /\ FileHolds /\ IdsKnown /\ SeqHolds /\ file = mem /\ ~dirty
  BY DEF Inv, FileHolds
<1>3. told' = told \cup waiting /\ waiting' = {} /\ pending' = <<>> /\ proc' = "up"
      /\ UNCHANGED <<mem, file, dirty, ids, expired, served, cursor, have, deferred, page>>
  BY DEF Settled, mirror
<1>4. Typed'
  <2>1. log' \in Logs
    BY DEF Holds
  <2>. QED  BY <1>2, <1>3, <2>1 DEF Typed
<1>5. Quiet
  <2>1. ids <= ids'
    BY <1>2, <1>3 DEF Typed
  <2>. QED  BY <1>3, <2>1, BookQuiet
<1>6. IdsKnown' /\ SeqHolds'
  BY <1>2, <1>4, <1>5, QuietIds
<1>7. PICK f : f = feed'
  OBVIOUS
<1>8. PICK l : l = log'
  OBVIOUS
<1>9. /\ f \in Feeds /\ f.id = g.id /\ f.next = g.next /\ f.ring = g.ring /\ f.digest = g.digest
      /\ l \in Logs /\ Mirrors(l, f)
  BY <1>7, <1>8 DEF Holds
<1>10. FeedOk(f) /\ Covers(f, mem) /\ RingEvents(f) = RingEvents(g)
  <2>1. served \subseteq Int \X Int \X Events
    BY <1>2 DEF Typed
  <2>. QED  BY <1>1, <1>9, <2>1, SameFeed
<1>11. Contig(f) /\ f.digest \in Digests \cup {Null}
  BY <1>9, <1>10 DEF FeedOk, Feeds
<1>12. /\ Grown(f, Load(l)) /\ l.digest = f.digest
       /\ RingEvents(Load(l)) = RingEvents(f) /\ l # Null
  BY <1>9, <1>11, MirrorGrown
<1>13. FeedOk(f)' /\ Covers(f, mem)'
  <2>1. Steady(f, Events)
    BY <1>5, QuietSteady
  <2>2. PICK S : S = mem
    OBVIOUS
  <2>3. S \in SUBSET Events /\ Covers(f, S)
    BY <1>2, <1>10, <2>2 DEF Typed
  <2>4. Covers(f, S)'
    BY <2>1, <2>3, SteadyCovers
  <2>5. S = mem'
    BY <1>3, <2>2
  <2>6. FeedOk(f)'
    BY <1>2, <1>4, <1>10, <1>11, <2>1, SteadyFeed DEF Digests
  <2>. QED  BY <2>4, <2>5, <2>6
<1>14. /\ FeedOk(feed)' /\ Covers(feed, mem)' /\ Grown(feed, Load(log))' /\ Mirrors(log, feed)'
       /\ RingEvents(feed)' = RingEvents(f) /\ RingEvents(Load(log))' = RingEvents(f)
  <2>1. Grown(f, Load(l))' /\ Mirrors(l, f)' /\ RingEvents(f)' = RingEvents(f)
        /\ RingEvents(Load(l))' = RingEvents(f)
    BY <1>9, <1>12 DEF Grown, Entries, Low, Load, Mirrors, RingEvents, Contig
  <2>. QED  BY <1>7, <1>8, <1>13, <2>1
<1>15. LiveHolds' /\ DownHolds'
  BY <1>3, <1>7, <1>8, <1>12, <1>14 DEF LiveHolds, DownHolds
<1>16. UpHolds'
  <2>1. ToSet(pending)' = {} /\ (mem \ ToSet(pending))' = mem'
    BY <1>3 DEF ToSet
  <2>2. Covers(feed, mem \ ToSet(pending))'
    BY <1>14, <2>1
  <2>3. RingEvents(f) \cup told' \cup waiting' \subseteq mem \cup expired
    BY <1>1, <1>2, <1>3, <1>10 DEF UpHolds
  <2>4. f.digest # Null => f.digest \subseteq mem \cup expired
    BY <1>1, <1>2, <1>9 DEF UpHolds, Stages
  <2>. QED  BY <1>3, <1>7, <1>14, <2>1, <2>2, <2>3, <2>4 DEF UpHolds
<1>17. FileHolds'
  <2>1. told' \subseteq file \cup expired
    BY <1>2, <1>3 DEF UpHolds
  <2>2. RingEvents(f) \subseteq file \cup expired
    BY <1>1, <1>2, <1>10
  <2>. QED  BY <1>2, <1>3, <1>14, <2>1, <2>2 DEF FileHolds
<1>. QED  BY <1>4, <1>6, <1>15, <1>16, <1>17 DEF Inv

LEMMA StagesOnward ==
    ASSUME NEW f, NEW g, NEW E, Stages(f, g, E)
    PROVE  Onward(f, g)
BY DEF Stages, Onward, Grown

LEMMA LinesTyped ==
    ASSUME NEW f \in Feeds, NEW g, Onward(f, g), f.lines # Null
    PROVE  g.lines + Owed(f, g) \in Int
<1>1. f.lines \in Int /\ f.next \in Int /\ g.next \in Int /\ g.lines = f.lines
  BY DEF Feeds, Onward
<1>2. Owed(f, g) \in Int
  BY <1>1 DEF Owed
<1>. QED  BY <1>1, <1>2

\* The digest apart, a change of the line count is no change.
LEMMA LinesOnly ==
    ASSUME NEW g \in Feeds, NEW n \in Int \cup {Null}, NEW h, h = [g EXCEPT !.lines = n]
    PROVE  /\ h \in Feeds /\ h.id = g.id /\ h.next = g.next /\ h.ring = g.ring
           /\ h.digest = g.digest
           /\ \A l : Mirrors(l, g) => Mirrors(l, h)
<1>1. /\ h \in Feeds /\ h.id = g.id /\ h.next = g.next /\ h.ring = g.ring /\ h.digest = g.digest
  BY DEF Feeds
<1>. QED  BY <1>1 DEF Mirrors

LEMMA AppendedIs ==
    ASSUME log \in Logs, NEW f \in Feeds, Contig(f), NEW g, Mirrors(log, f), Onward(f, g)
    PROVE  Holds(Appended(f, g).feed, Appended(f, g).log, g)
<1>0. g \in Feeds /\ Len(g.ring) \in Int
  BY DEF Onward, Feeds
<1>1. CASE f.lines = Null \/ Overflows(f, g)
  <2>1. Appended(f, g).feed = [g EXCEPT !.lines = Len(g.ring)] /\ Appended(f, g).log = Compacted(g)
    BY <1>1 DEF Appended
  <2>2. Compacted(g) \in Logs /\ Mirrors(Compacted(g), g)
    BY <1>0, CompactedIs
  <2>. QED  BY <1>0, <2>1, <2>2, LinesOnly DEF Holds
<1>2. CASE ~(f.lines = Null \/ Overflows(f, g))
  <2>1. Appended(f, g).feed = [g EXCEPT !.lines = g.lines + Owed(f, g)]
        /\ Appended(f, g).log = Extended(f, g)
    BY <1>2 DEF Appended
  <2>2. Extended(f, g) \in Logs /\ Mirrors(Extended(f, g), g)
    BY ExtendedIs
  <2>3. g.lines + Owed(f, g) \in Int
    BY <1>2, LinesTyped
  <2>. QED  BY <1>0, <2>1, <2>2, <2>3, LinesOnly DEF Holds
<1>. QED  BY <1>1, <1>2

LEMMA AppendBatchInv ==
    ASSUME Inv, AppendBatch
    PROVE  Inv'
<1>1. proc = "append" /\ Settled /\ proc \in {"up", "append"}
  BY DEF AppendBatch
<1>2. PICK g : g = Staged(feed, pending)
  OBVIOUS
<1>3. /\ Stages(feed, g, ToSet(pending)) /\ log \in Logs /\ Mirrors(log, feed)
      /\ feed \in Feeds /\ Contig(feed) /\ (g.next = feed.next => pending = <<>>)
  BY <1>1, <1>2, BatchIs
<1>4. Onward(feed, g)
  BY <1>3, StagesOnward
<1>5. CASE Owed(feed, g) = 0
  <2>1. UNCHANGED <<feed, log>> /\ cache' \in {cache, Null}
    BY <1>2, <1>5 DEF AppendBatch
  <2>2. g.next = feed.next
    <3>1. g.next \in Int /\ feed.next \in Int /\ feed.next <= g.next
      BY <1>3, <1>4 DEF Feeds, Onward
    <3>2. CASE feed.digest # g.digest
      BY <1>5, <3>1, <3>2 DEF Owed
    <3>3. CASE feed.digest = g.digest
      BY <1>5, <3>1, <3>3 DEF Owed
    <3>. QED  BY <3>2, <3>3
  <2>3. g = feed
    <3>1. pending = <<>> /\ pending \in Seq(Events)
      BY <1>3, <2>2 DEF Inv, Typed
    <3>. QED  BY <1>2, <3>1, StagedNothing
  <2>4. Holds(feed', log', g)
    BY <1>3, <2>1, <2>3 DEF Holds
  <2>. QED  BY <1>1, <1>2, <2>1, <2>4, SettledInv
<1>6. CASE Owed(feed, g) # 0
  <2>1. feed' = Appended(feed, g).feed /\ log' = Appended(feed, g).log
        /\ cache' = CacheAfter(feed, g)
    BY <1>2, <1>6 DEF AppendBatch
  <2>2. Holds(feed', log', g)
    BY <1>3, <1>4, <2>1, AppendedIs
  <2>3. cache' \in {cache, Null}
    BY <2>1 DEF CacheAfter
  <2>. QED  BY <1>1, <1>2, <2>2, <2>3, SettledInv
<1>. QED  BY <1>5, <1>6

LEMMA CompactionFailsInv ==
    ASSUME Inv, CompactionFails
    PROVE  Inv'
<1>1. proc = "append" /\ Settled /\ proc \in {"up", "append"}
  BY DEF CompactionFails
<1>2. PICK g : g = Staged(feed, pending)
  OBVIOUS
<1>3. /\ Stages(feed, g, ToSet(pending)) /\ log \in Logs /\ Mirrors(log, feed)
      /\ feed \in Feeds /\ Contig(feed)
  BY <1>1, <1>2, BatchIs
<1>4. Onward(feed, g) /\ g \in Feeds
  BY <1>3, StagesOnward DEF Onward
<1>5. feed' = [g EXCEPT !.lines = Null] /\ log' = Extended(feed, g) /\ cache' = CacheAfter(feed, g)
  BY <1>2 DEF CompactionFails
<1>6. Extended(feed, g) \in Logs /\ Mirrors(Extended(feed, g), g)
  BY <1>3, <1>4, ExtendedIs
<1>7. Holds(feed', log', g)
  BY <1>4, <1>5, <1>6, LinesOnly DEF Holds
<1>8. cache' \in {cache, Null}
  BY <1>5 DEF CacheAfter
<1>. QED  BY <1>1, <1>2, <1>7, <1>8, SettledInv

-----------------------------------------------------------------------------
(* Ends and beginnings.                                                    *)

\* What a log that survives the feed f must be.
Succeeds(f, l) ==
    /\ l \in Logs /\ Load(l) \in Feeds /\ Contig(Load(l)) /\ Grown(f, Load(l))
    /\ l.digest \in {Null, f.digest} /\ Load(l).digest = l.digest
    /\ RingEvents(Load(l)) \subseteq file \cup expired

LEMMA PartSucceeds ==
    ASSUME Inv, proc = "append", NEW E \in SUBSET ToSet(pending), NEW g, Stages(feed, g, E),
           NEW h \in Feeds, h.id = g.id, h.next = g.next, h.ring = g.ring,
           h.digest \in {Null, feed.digest}, NEW l \in Logs, Mirrors(l, h)
    PROVE  Succeeds(feed, l)
<1>1. feed \in Feeds /\ Contig(feed) /\ UpHolds /\ file = mem
  BY DEF Inv, LiveHolds, FeedOk, FileHolds
<1>2. g \in Feeds /\ Contig(g) /\ Grown(feed, g)
  BY DEF Stages
<1>3. Grown(g, h) /\ Contig(h) /\ RingEvents(h) = RingEvents(g)
  BY <1>2, GrownRefl
<1>4. /\ Load(l) \in Feeds /\ Grown(h, Load(l)) /\ l.digest = h.digest
      /\ RingEvents(Load(l)) = RingEvents(h) /\ Contig(Load(l))
  BY <1>3, MirrorGrown
<1>5. Grown(feed, h)
  BY <1>1, <1>2, <1>3, GrownThen
<1>6. Grown(feed, Load(l))
  BY <1>1, <1>3, <1>4, <1>5, GrownThen
<1>7. RingEvents(Load(l)) \subseteq file \cup expired
  BY <1>1, <1>3, <1>4 DEF Stages, UpHolds
<1>8. Load(l).digest = l.digest
  BY LoadIs
<1>. QED  BY <1>4, <1>6, <1>7, <1>8 DEF Succeeds

LEMMA TornSucceeds ==
    ASSUME Inv, proc = "append", pending # <<>>, NEW l \in Torn
    PROVE  Succeeds(feed, l)
<1>1. Typed /\ LiveHolds /\ UpHolds /\ proc # "down" /\ proc \in {"up", "append"}
  BY DEF Inv
<1>2. /\ feed \in Feeds /\ Contig(feed) /\ log \in Logs /\ Mirrors(log, feed)
      /\ pending \in Seq(Events)
  BY <1>1 DEF LiveHolds, FeedOk, Typed, UpHolds
<1>3. CASE feed.lines = Null /\ l = log
  <2>1. Stages(feed, feed, {}) /\ {} \in SUBSET ToSet(pending)
    BY <1>2, StageNone
  <2>. QED  BY <1>2, <1>3, <2>1, PartSucceeds
<1>4. CASE feed.lines = Null /\ l = Compacted(Staged(feed, pending))
  <2>1. PICK g : g = Staged(feed, pending)
    OBVIOUS
  <2>2. Stages(feed, g, ToSet(pending))
    BY <1>2, <2>1, StageAll
  <2>3. g \in Feeds /\ g.digest \in {Null, feed.digest}
    BY <2>2 DEF Stages
  <2>4. l \in Logs /\ Mirrors(l, g)
    BY <1>4, <2>1, <2>3, CompactedIs
  <2>. QED  BY <2>2, <2>3, <2>4, PartSucceeds
<1>5. ASSUME NEW k \in 0..Len(pending)
      PROVE  /\ SubSeq(pending, 1, k) \in Seq(Events)
             /\ ToSet(SubSeq(pending, 1, k)) \subseteq ToSet(pending)
  <2>1. Len(pending) \in Nat /\ DOMAIN pending = 1..Len(pending)
    BY <1>2
  <2>2. \A i \in 1..k : pending[i] \in Events /\ i \in 1..Len(pending) /\ 1 + i - 1 = i
    BY <1>2, <2>1
  <2>3. SubSeq(pending, 1, k) \in Seq(Events) /\ Len(SubSeq(pending, 1, k)) = k
    BY <1>2, <2>1, <2>2
  <2>4. \A i \in 1..k : SubSeq(pending, 1, k)[i] = pending[1 + i - 1]
    BY <1>2, <2>1, <2>2
  <2>5. DOMAIN SubSeq(pending, 1, k) = 1..k
    BY <2>3
  <2>. QED  BY <2>1, <2>2, <2>3, <2>4, <2>5 DEF ToSet
<1>6. ASSUME NEW q \in Seq(Events), ToSet(q) \subseteq ToSet(pending),
             NEW g, g = Staged(feed, q)
      PROVE  /\ Stages(feed, g, ToSet(q)) /\ g \in Feeds /\ g.digest \in {Null, feed.digest}
             /\ Extended(feed, g) \in Logs /\ Mirrors(Extended(feed, g), g)
             /\ Succeeds(feed, Extended(feed, g))
  <2>1. Stages(feed, g, ToSet(q))
    BY <1>2, <1>6, StageAll
  <2>2. g \in Feeds /\ g.digest \in {Null, feed.digest} /\ Onward(feed, g)
    BY <2>1, StagesOnward DEF Stages
  <2>3. Extended(feed, g) \in Logs /\ Mirrors(Extended(feed, g), g)
    BY <1>2, <2>2, ExtendedIs
  <2>4. Succeeds(feed, Extended(feed, g))
    BY <1>6, <2>1, <2>2, <2>3, PartSucceeds
  <2>. QED  BY <2>1, <2>2, <2>3, <2>4
<1>7. ASSUME NEW k \in 0..Len(pending), l = Extended(feed, Staged(feed, SubSeq(pending, 1, k)))
      PROVE  Succeeds(feed, l)
  BY <1>5, <1>6, <1>7
<1>8. ASSUME l = [Extended(feed, Staged(feed, SubSeq(pending, 1, 1))) EXCEPT !.digest = feed.digest]
      PROVE  Succeeds(feed, l)
  <2>1. 1 \in 0..Len(pending)
    <3>1. Len(pending) \in Nat /\ Len(pending) # 0
      BY <1>2
    <3>. QED  BY <3>1
  <2>2. PICK q : q = SubSeq(pending, 1, 1)
    OBVIOUS
  <2>3. PICK g : g = Staged(feed, q)
    OBVIOUS
  <2>4. q \in Seq(Events) /\ ToSet(q) \subseteq ToSet(pending)
    BY <1>5, <2>1, <2>2
  <2>5. /\ Stages(feed, g, ToSet(q)) /\ g \in Feeds
        /\ Extended(feed, g) \in Logs /\ Mirrors(Extended(feed, g), g)
    BY <1>6, <2>3, <2>4
  <2>6. PICK x : x = Extended(feed, g)
    OBVIOUS
  <2>7. l = [x EXCEPT !.digest = feed.digest] /\ x \in Logs /\ feed.digest \in Digests \cup {Null}
    BY <1>2, <1>8, <2>2, <2>3, <2>5, <2>6 DEF Feeds
  <2>8. l \in Logs /\ l.id = x.id /\ l.header = x.header /\ l.ring = x.ring /\ l.digest = feed.digest
    BY <2>7 DEF Logs
  <2>9. PICK h : h = [g EXCEPT !.digest = feed.digest]
    OBVIOUS
  <2>10. h \in Feeds /\ h.id = g.id /\ h.next = g.next /\ h.ring = g.ring /\ h.digest = feed.digest
    BY <2>5, <2>7, <2>9 DEF Feeds
  <2>11. Mirrors(l, h)
    BY <2>5, <2>6, <2>8, <2>10 DEF Mirrors
  <2>. QED  BY <2>4, <2>5, <2>8, <2>10, <2>11, PartSucceeds
<1>9. CASE feed.lines # Null
  <2>1. \/ \E k \in 0..Len(pending) : l = Extended(feed, Staged(feed, SubSeq(pending, 1, k)))
        \/ l = [Extended(feed, Staged(feed, SubSeq(pending, 1, 1))) EXCEPT !.digest = feed.digest]
    BY <1>9 DEF Torn
  <2>. QED  BY <1>7, <1>8, <2>1
<1>. QED  BY <1>3, <1>4, <1>9 DEF Torn

\* The log of a live book succeeds its feed while nothing is being written.
LEMMA LogSucceeds ==
    ASSUME Inv, proc # "down"
    PROVE  Succeeds(feed, log) /\ FeedOk(feed)
<1>1. log \in Logs /\ FeedOk(feed) /\ Grown(feed, Load(log)) /\ log.digest \in {Null, feed.digest}
      /\ RingEvents(Load(log)) \subseteq file \cup expired
  BY DEF Inv, Typed, LiveHolds, FileHolds
<1>2. Load(log) \in Feeds /\ Load(log).digest = log.digest
  BY <1>1, LoadIs
<1>. QED  BY <1>1, <1>2 DEF Succeeds, Grown

LEMMA SucceedsOk ==
    ASSUME Typed, NEW f, FeedOk(f), NEW l, Succeeds(f, l)
    PROVE  l \in Logs /\ FeedOk(Load(l)) /\ RingEvents(Load(l)) \subseteq file \cup expired
<1>1. served \subseteq Int \X Int \X Events
  BY DEF Typed
<1>. QED  BY <1>1, GrownOk DEF Succeeds

LEMMA GoneInv ==
    ASSUME Inv, Gone, UNCHANGED <<file, told, ids, expired, served, mirror>>,
           NEW l \in Logs, l = log', FeedOk(Load(l)),
           RingEvents(Load(l)) \subseteq file \cup expired
    PROVE  Inv'
<1>1. Typed /\ IdsKnown /\ SeqHolds /\ FileHolds
  BY DEF Inv
<1>2. proc' = "down" /\ mem' = {} /\ pending' = <<>> /\ waiting' = {} /\ cache' = Null
      /\ UNCHANGED <<file, told, ids, expired, served, cursor, have, deferred, page>>
  BY DEF Gone, mirror
<1>3. Typed'
  BY <1>1, <1>2 DEF Typed
<1>4. Quiet
  <2>1. ids <= ids'
    BY <1>1, <1>2 DEF Typed
  <2>. QED  BY <1>2, <2>1, BookQuiet
<1>5. IdsKnown' /\ SeqHolds'
  BY <1>1, <1>3, <1>4, QuietIds
<1>6. PICK f : f = Load(l)
  OBVIOUS
<1>7. FeedOk(f)'
  <2>1. FeedOk(f) /\ (f.digest # Null => f.digest \subseteq Events) /\ Steady(f, Events)
    BY <1>4, <1>6, QuietSteady DEF FeedOk, Feeds, Digests
  <2>. QED  BY <1>1, <1>3, <2>1, SteadyFeed
<1>8. Load(l) = Load(log)'
  OBVIOUS
<1>9. DownHolds' /\ LiveHolds' /\ UpHolds'
  BY <1>2, <1>6, <1>7, <1>8 DEF DownHolds, LiveHolds, UpHolds
<1>10. FileHolds'
  <2>1. RingEvents(Load(log))' = RingEvents(Load(l))
    BY DEF RingEvents, Load
  <2>. QED  BY <1>1, <1>2, <2>1 DEF FileHolds
<1>. QED  BY <1>3, <1>5, <1>9, <1>10 DEF Inv

LEMMA CrashInv ==
    ASSUME Inv, Crash
    PROVE  Inv'
<1>1. /\ proc # "down" /\ Gone /\ UNCHANGED <<file, told, ids, expired, served, mirror>>
      /\ log' \in (IF proc = "append" /\ pending # <<>> THEN Torn ELSE {log})
  BY DEF Crash
<1>2. PICK l : l = log'
  OBVIOUS
<1>3. Succeeds(feed, l) /\ FeedOk(feed)
  BY <1>1, <1>2, LogSucceeds, TornSucceeds
<1>4. l \in Logs /\ FeedOk(Load(l)) /\ RingEvents(Load(l)) \subseteq file \cup expired
  BY <1>3, SucceedsOk DEF Inv
<1>. QED  BY <1>1, <1>2, <1>4, GoneInv

LEMMA CommitFailsInv ==
    ASSUME Inv, CommitFails
    PROVE  Inv'
<1>1. proc' = "failed" /\ waiting' = {} /\ pending' = <<>>
      /\ UNCHANGED <<mem, dirty, told, ids, expired, served, cursor, have, deferred, page>>
  BY DEF CommitFails, mirror
<1>2. Typed /\ UpHolds /\ FileHolds /\ IdsKnown /\ SeqHolds
  BY DEF Inv
<1>3. CASE proc = "up" /\ file' \in {file, mem} /\ UNCHANGED <<feed, log, cache>>
  <2>1. proc # "down" /\ proc \in {"up", "append"} /\ FeedStill
    BY <1>1, <1>3 DEF FeedStill
  <2>2. Typed'
    BY <1>1, <1>2, <1>3 DEF Typed
  <2>3. /\ IdsKnown' /\ SeqHolds' /\ log' # Null /\ FeedOk(feed)'
        /\ Grown(feed, Load(log))' /\ log'.digest \in {Null, feed'.digest}
        /\ RingEvents(Load(log))' = RingEvents(Load(log))
    BY <2>1, <2>2, StillLive
  <2>4. RingEvents(Load(log)) = RingEvents(feed)
    <3>1. log \in Logs
      BY <1>2, <1>3, <2>3 DEF Typed
    <3>. QED  BY <1>2, <2>1, <3>1, LoadIs DEF UpHolds, Mirrors, RingEvents
  <2>5. told \subseteq mem \cup expired /\ RingEvents(feed) \subseteq mem \cup expired
    BY <1>2, <2>1 DEF UpHolds
  <2>6. told \subseteq file \cup expired /\ RingEvents(Load(log)) \subseteq file \cup expired
    BY <1>2, <1>3, <2>3 DEF FileHolds
  <2>7. FileHolds'
    BY <1>1, <1>3, <2>3, <2>4, <2>5, <2>6 DEF FileHolds
  <2>8. LiveHolds' /\ DownHolds' /\ UpHolds'
    BY <1>1, <2>3 DEF LiveHolds, DownHolds, UpHolds
  <2>. QED  BY <2>2, <2>3, <2>7, <2>8 DEF Inv
<1>4. CASE /\ proc = "append" /\ pending # <<>> /\ log' \in Torn
           /\ feed' = [feed EXCEPT !.lines = Null] /\ cache' = Null /\ file' = file
  <2>1. PICK l : l = log'
    OBVIOUS
  <2>2. PICK f : f = feed'
    OBVIOUS
  <2>3. Succeeds(feed, l) /\ FeedOk(feed) /\ feed \in Feeds /\ Contig(feed)
    <3>1. proc # "down"
      BY <1>4
    <3>. QED  BY <1>4, <2>1, <3>1, LogSucceeds, TornSucceeds DEF FeedOk
  <2>4. l \in Logs /\ RingEvents(Load(l)) \subseteq file \cup expired
    BY <2>3 DEF Succeeds
  <2>5. f \in Feeds /\ f.id = feed.id /\ f.next = feed.next /\ f.ring = feed.ring
        /\ f.digest = feed.digest
    BY <1>4, <2>2, <2>3, LinesOnly
  <2>6. FeedOk(f)
    <3>1. served \subseteq Int \X Int \X Events
      BY <1>2 DEF Typed
    <3>. QED  BY <2>3, <2>5, <3>1, SameFeed
  <2>7. Grown(f, Load(l)) /\ l.digest \in {Null, f.digest} /\ l # Null
    <3>1. Contig(f) /\ Grown(f, feed)
      BY <2>3, <2>5, <2>6, GrownRefl DEF FeedOk
    <3>2. Load(l) \in Feeds /\ Contig(Load(l)) /\ Grown(feed, Load(l))
      BY <2>3 DEF Succeeds
    <3>3. Grown(f, Load(l))
      BY <2>3, <2>5, <3>1, <3>2, GrownThen
    <3>. QED  BY <2>3, <2>4, <2>5, <3>3, NullAssumption DEF Succeeds
  <2>8. Typed'
    BY <1>1, <1>2, <1>4, <2>1, <2>4 DEF Typed
  <2>9. Quiet
    <3>1. ids <= ids'
      BY <1>1, <1>2 DEF Typed
    <3>. QED  BY <1>1, <1>4, <3>1, BookQuiet
  <2>10. IdsKnown' /\ SeqHolds'
    BY <1>2, <2>8, <2>9, QuietIds
  <2>11. FeedOk(f)'
    <3>1. (f.digest # Null => f.digest \subseteq Events) /\ Steady(f, Events)
      BY <2>5, <2>9, QuietSteady DEF Feeds, Digests
    <3>. QED  BY <1>2, <2>6, <2>8, <3>1, SteadyFeed
  <2>12. Grown(f, Load(l))' /\ RingEvents(Load(log))' = RingEvents(Load(l))
    BY <2>1, <2>7 DEF Grown, Entries, Low, Load, RingEvents, Contig
  <2>13. Grown(feed, Load(log))' /\ FeedOk(feed)'
    BY <2>1, <2>2, <2>11, <2>12
  <2>14. LiveHolds' /\ DownHolds' /\ UpHolds'
    BY <1>1, <2>1, <2>2, <2>7, <2>13 DEF LiveHolds, DownHolds, UpHolds
  <2>15. FileHolds'
    BY <1>1, <1>2, <1>4, <2>4, <2>12 DEF FileHolds
  <2>. QED  BY <2>8, <2>10, <2>14, <2>15 DEF Inv
<1>. QED  BY <1>3, <1>4 DEF CommitFails

LEMMA StopInv ==
    ASSUME Inv, Stop
    PROVE  Inv'
<1>1. PICK f : f = [feed EXCEPT !.digest = Swept]
  OBVIOUS
<1>2. /\ proc # "down" /\ Gone /\ UNCHANGED <<file, told, ids, expired, served, mirror>>
      /\ log' = IF CanCheckpoint /\ feed.digest # Swept THEN Appended(feed, f).log ELSE log
  BY <1>1 DEF Stop
<1>3. PICK l : l = log'
  OBVIOUS
<1>4. Typed /\ served \subseteq Int \X Int \X Events /\ mem \in SUBSET Events
  BY DEF Inv, Typed
<1>5. Succeeds(feed, log) /\ FeedOk(feed) /\ feed \in Feeds /\ Contig(feed)
  BY <1>2, LogSucceeds DEF FeedOk
<1>6. CASE l = log
  BY <1>2, <1>3, <1>4, <1>5, <1>6, SucceedsOk, GoneInv
<1>7. CASE CanCheckpoint /\ l = Appended(feed, f).log
  <2>1. proc = "up" /\ ~dirty /\ proc \in {"up", "append"}
    BY <1>7 DEF CanCheckpoint
  <2>2. /\ pending = <<>> /\ Mirrors(log, feed) /\ Covers(feed, mem \ ToSet(pending))
        /\ log \in Logs
    BY <1>5, <2>1 DEF Inv, UpHolds, FileHolds, Succeeds
  <2>3. mem \ ToSet(pending) = mem
    BY <2>2 DEF ToSet
  <2>4. Covers(feed, Swept)
    BY <2>2, <2>3 DEF Covers, Swept
  <2>5. Swept \in Digests
    BY <1>4 DEF Swept, Digests
  <2>6. /\ f \in Feeds /\ f.id = feed.id /\ f.next = feed.next /\ f.ring = feed.ring
        /\ f.digest = Swept /\ f.lines = feed.lines
    BY <1>1, <1>5, <2>5 DEF Feeds
  <2>7. Onward(feed, f)
    <3>1. feed.next \in Int /\ feed.next <= feed.next
      BY <1>5 DEF Feeds
    <3>. QED  BY <2>6, <3>1 DEF Onward
  <2>8. FeedOk(f) /\ RingEvents(f) = RingEvents(feed)
    <3>1. Grown(feed, f) /\ Contig(f) /\ RingEvents(f) = RingEvents(feed)
      BY <1>5, <2>6, GrownRefl
    <3>2. AllBehind(feed) /\ Agrees(feed) /\ feed.id <= ids
      BY <1>5 DEF FeedOk
    <3>3. AllBehind(f) /\ Agrees(f) /\ Covers(f, Swept)
      BY <1>4, <1>5, <2>4, <2>6, <3>1, <3>2, GrownKeeps
    <3>. QED  BY <2>6, <3>1, <3>2, <3>3 DEF FeedOk
  <2>9. Holds(Appended(feed, f).feed, l, f)
    BY <1>5, <1>7, <2>2, <2>6, <2>7, AppendedIs
  <2>10. PICK h : h = Appended(feed, f).feed
    OBVIOUS
  <2>11. /\ h \in Feeds /\ h.id = f.id /\ h.next = f.next /\ h.ring = f.ring /\ h.digest = f.digest
         /\ l \in Logs /\ Mirrors(l, h)
    BY <2>9, <2>10 DEF Holds
  <2>12. FeedOk(h) /\ RingEvents(h) = RingEvents(f) /\ Contig(h)
    BY <1>4, <2>8, <2>11, SameFeed DEF FeedOk
  <2>13. /\ Load(l) \in Feeds /\ Grown(h, Load(l)) /\ l.digest = h.digest
         /\ RingEvents(Load(l)) = RingEvents(h) /\ Contig(Load(l))
    BY <2>11, <2>12, MirrorGrown
  <2>14. FeedOk(Load(l))
    BY <1>4, <2>11, <2>12, <2>13, GrownOk, LoadIs
  <2>15. RingEvents(Load(l)) \subseteq file \cup expired
    <3>1. RingEvents(Load(log)) = RingEvents(feed)
      BY <1>5, <2>2, MirrorGrown
    <3>. QED  BY <1>5, <2>8, <2>12, <2>13, <3>1 DEF Succeeds
  <2>. QED  BY <1>2, <1>3, <2>11, <2>14, <2>15, GoneInv
<1>. QED  BY <1>2, <1>3, <1>6, <1>7

\* The book is up with a feed that covers what it loaded.
LEMMA StartedInv ==
    ASSUME Inv, proc = "down", proc' = "up", Typed',
           UNCHANGED <<file, pending, waiting, told, cache, expired, served, cursor, have,
                       deferred, page>>,
           mem' = file \ expired, dirty' = (file \ expired # file), ids <= ids',
           NEW f \in Feeds, f = feed', NEW l \in Logs, l = log', Mirrors(l, f),
           FeedOk(f)', Covers(f, mem)',
           RingEvents(f) \subseteq file \cup expired,
           f.digest # Null => f.digest \subseteq file \cup expired
    PROVE  Inv'
<1>1. Typed /\ IdsKnown /\ SeqHolds /\ FileHolds /\ pending = <<>> /\ waiting = {}
  BY DEF Inv, DownHolds
<1>2. Quiet
  BY BookQuiet
<1>3. IdsKnown' /\ SeqHolds'
  BY <1>1, <1>2, QuietIds
<1>4. Contig(f)
  BY DEF FeedOk, Contig, Low
<1>5. /\ Grown(f, Load(l)) /\ l.digest = f.digest
      /\ RingEvents(Load(l)) = RingEvents(f) /\ l # Null
  BY <1>4, MirrorGrown
<1>6. /\ Grown(feed, Load(log))' /\ Mirrors(log, feed)' /\ FeedOk(feed)' /\ Covers(feed, mem)'
      /\ RingEvents(feed)' = RingEvents(f) /\ RingEvents(Load(log))' = RingEvents(f)
  <2>1. Grown(f, Load(l))' /\ Mirrors(l, f)' /\ RingEvents(f)' = RingEvents(f)
        /\ RingEvents(Load(l))' = RingEvents(f)
    BY <1>5 DEF Grown, Entries, Low, Load, Mirrors, RingEvents, Contig
  <2>. QED  BY <2>1
<1>7. LiveHolds' /\ DownHolds'
  BY <1>5, <1>6 DEF LiveHolds, DownHolds
<1>8. UpHolds'
  <2>1. ToSet(pending)' = {} /\ (mem \ ToSet(pending))' = mem'
    BY <1>1 DEF ToSet
  <2>2. Covers(feed, mem \ ToSet(pending))'
    BY <1>6, <2>1
  <2>3. told \subseteq file \cup expired
    BY <1>1 DEF FileHolds
  <2>4. RingEvents(f) \cup told' \cup waiting' \subseteq mem' \cup expired'
    BY <1>1, <2>3
  <2>5. f.digest # Null => f.digest \subseteq mem' \cup expired'
    OBVIOUS
  <2>. QED  BY <1>6, <2>1, <2>2, <2>4, <2>5 DEF UpHolds
<1>9. FileHolds'
  BY <1>1, <1>6 DEF FileHolds
<1>. QED  BY <1>3, <1>7, <1>8, <1>9 DEF Inv

\* No holder has a cursor of an identity that was just drawn.
LEMMA FreshOk ==
    ASSUME Quiet, Typed, Typed', IdsKnown, SeqHolds, NEW f \in Feeds, Contig(f),
           ids < f.id, f.id <= ids', NEW S
    PROVE  FeedOk(f)' /\ Covers(f, S)'
<1>1. ids \in Int /\ f.id \in Int /\ served' = served /\ served \subseteq Int \X Int \X Events
  BY DEF Typed, Feeds, Quiet
<1>2. ASSUME NEW c \in Cursors, NEW H \in SUBSET Events, Holder(c, H)' PROVE c.id # f.id
  <2>1. Same(c, H)
    BY <1>2 DEF Quiet
  <2>2. c.id <= ids /\ c.id \in Int
    BY <2>1 DEF Same, IdsKnown, Cursors
  <2>. QED  BY <1>1, <2>2
<1>3. ASSUME NEW x \in served' PROVE x[1] # f.id
  <2>1. x[1] <= ids /\ x[1] \in Int
    BY <1>1 DEF IdsKnown
  <2>. QED  BY <1>1, <2>1
<1>4. AllBehind(f)' /\ Agrees(f)' /\ (\A T : Covers(f, T)')
  BY <1>2, <1>3 DEF AllBehind, Agrees, Covers, Honours
<1>5. Contig(f)'
  BY DEF Contig, Low
<1>. QED  BY <1>4, <1>5 DEF FeedOk

LEMMA StartInv ==
    ASSUME Inv, Start
    PROVE  Inv'
<1>1. PICK loaded : loaded = IF log = Null THEN FreshFeed ELSE Load(log)
  OBVIOUS
<1>2. PICK snapshot : snapshot = file \ expired
  OBVIOUS
<1>3. PICK rotated : rotated = [loaded EXCEPT !.id = ids + 2, !.digest = snapshot,
                                              !.lines = Len(loaded.ring)]
  OBVIOUS
<1>4. /\ proc = "down" /\ proc' = "up" /\ mem' = snapshot /\ dirty' = (snapshot # file)
      /\ \/ /\ Reconciles(loaded, snapshot) /\ feed' = loaded /\ UNCHANGED <<log, ids>>
         \/ /\ feed' = rotated /\ log' = Compacted(rotated) /\ ids' = ids + 2
      /\ UNCHANGED <<file, pending, waiting, told, cache, expired, served, cursor, have,
                     deferred, page>>
  BY <1>1, <1>2, <1>3 DEF Start, mirror
<1>5. Typed /\ IdsKnown /\ SeqHolds /\ DownHolds /\ FileHolds
  BY DEF Inv
<1>6. file \in SUBSET Events /\ snapshot \in SUBSET Events /\ snapshot # Null /\ ids \in Nat
  BY <1>2, <1>5, FeedAssumption DEF Typed
<1>7. /\ loaded \in Feeds /\ Contig(loaded) /\ RingEvents(loaded) \subseteq file \cup expired
      /\ log = Null => loaded.digest = Null
  <2>1. CASE log = Null
    <3>1. loaded = [id |-> ids + 1, next |-> 1, ring |-> <<>>, digest |-> Null, lines |-> Null]
      BY <1>1, <2>1 DEF FreshFeed
    <3>2. <<>> \in Seq(Entry) /\ DOMAIN <<>> = {}
      OBVIOUS
    <3>3. loaded \in Feeds /\ loaded.ring = <<>> /\ loaded.digest = Null
      BY <1>6, <3>1, <3>2 DEF Feeds
    <3>. QED  BY <3>2, <3>3 DEF Contig, RingEvents
  <2>2. CASE log # Null
    BY <1>1, <1>4, <1>5, <2>2 DEF DownHolds, FileHolds, FeedOk
  <2>. QED  BY <2>1, <2>2
<1>8. CASE Reconciles(loaded, snapshot) /\ feed' = loaded /\ UNCHANGED <<log, ids>>
  <2>1. loaded.digest = snapshot /\ log # Null
    BY <1>6, <1>7, <1>8 DEF Reconciles
  <2>2. loaded = Load(log) /\ FeedOk(loaded) /\ log \in Logs
    BY <1>1, <1>4, <1>5, <2>1 DEF DownHolds, Typed
  <2>3. Mirrors(log, loaded)
    BY <2>2, LoadIs DEF Mirrors
  <2>4. Typed'
    BY <1>4, <1>5, <1>6, <1>8 DEF Typed
  <2>5. ids <= ids'
    BY <1>6, <1>8
  <2>6. Quiet
    BY <1>4, <2>5, BookQuiet
  <2>7. Steady(loaded, Events)
    BY <2>6, QuietSteady
  <2>8. FeedOk(loaded)' /\ Covers(loaded, snapshot)'
    <3>1. Covers(loaded, snapshot)
      BY <1>6, <2>1, <2>2 DEF FeedOk
    <3>. QED  BY <1>5, <1>6, <2>1, <2>2, <2>4, <2>7, <3>1, SteadyFeed, SteadyCovers
  <2>9. Covers(loaded, mem)'
    BY <1>4, <2>8
  <2>10. PICK l : l = log
    OBVIOUS
  <2>11. l \in Logs /\ l = log' /\ Mirrors(l, loaded)
    BY <1>8, <2>2, <2>3, <2>10
  <2>12. mem' = file \ expired /\ dirty' = (file \ expired # file)
         /\ (loaded.digest # Null => loaded.digest \subseteq file \cup expired)
    BY <1>2, <1>4, <2>1
  <2>. QED  BY <1>4, <1>7, <1>8, <2>4, <2>5, <2>8, <2>9, <2>11, <2>12, StartedInv
<1>9. CASE feed' = rotated /\ log' = Compacted(rotated) /\ ids' = ids + 2
  <2>1. ids + 2 \in Int /\ Len(loaded.ring) \in Int /\ snapshot \in Digests \cup {Null}
    BY <1>6, <1>7 DEF Feeds, Digests
  <2>2. /\ rotated \in Feeds /\ rotated.id = ids + 2 /\ rotated.next = loaded.next
        /\ rotated.ring = loaded.ring /\ rotated.digest = snapshot
    BY <1>3, <1>7, <2>1 DEF Feeds
  <2>3. Contig(rotated) /\ RingEvents(rotated) = RingEvents(loaded)
    BY <1>7, <2>2 DEF Contig, Low, RingEvents
  <2>4. Compacted(rotated) \in Logs /\ Mirrors(Compacted(rotated), rotated)
    BY <2>2, CompactedIs
  <2>5. ids <= ids' /\ ids < rotated.id /\ rotated.id <= ids' /\ ids' \in Nat
    BY <1>6, <1>9, <2>2
  <2>6. Typed'
    BY <1>4, <1>5, <1>6, <1>9, <2>4, <2>5 DEF Typed
  <2>7. Quiet
    BY <1>4, <2>5, BookQuiet
  <2>8. FeedOk(rotated)' /\ Covers(rotated, snapshot)'
    BY <1>5, <2>2, <2>3, <2>5, <2>6, <2>7, FreshOk
  <2>9. Covers(rotated, mem)'
    BY <1>4, <2>8
  <2>10. PICK l : l = Compacted(rotated)
    OBVIOUS
  <2>11. l \in Logs /\ l = log' /\ Mirrors(l, rotated)
    BY <1>9, <2>4, <2>10
  <2>12. mem' = file \ expired /\ dirty' = (file \ expired # file)
         /\ (rotated.digest # Null => rotated.digest \subseteq file \cup expired)
    BY <1>2, <1>4, <2>2
  <2>13. RingEvents(rotated) \subseteq file \cup expired
    BY <1>7, <2>3
  <2>. QED  BY <1>4, <1>9, <2>2, <2>5, <2>6, <2>8, <2>9, <2>11, <2>12, <2>13, StartedInv
<1>. QED  BY <1>4, <1>8, <1>9

-----------------------------------------------------------------------------
(* The theorems.                                                           *)

LEMMA InitInv ==
    ASSUME Init
    PROVE  Inv
<1>1. Typed
  BY DEF Init, Typed
<1>2. \A c, H : ~Holder(c, H)
  BY DEF Init, Holder
<1>3. IdsKnown /\ SeqHolds
  BY <1>2 DEF Init, IdsKnown, SeqHolds, SeqNamesOneEvent
<1>4. DownHolds /\ LiveHolds /\ UpHolds /\ FileHolds
  BY DEF Init, DownHolds, LiveHolds, UpHolds, FileHolds
<1>. QED  BY <1>1, <1>3, <1>4 DEF Inv

LEMMA NextInv ==
    ASSUME Inv, [Next]_vars
    PROVE  Inv'
<1>. Typed
  BY DEF Inv
<1>1. ASSUME NEW e \in Events, Accept(e) PROVE Inv'
  BY <1>1, AcceptInv
<1>2. ASSUME NEW e \in Events, Expire(e) PROVE Inv'
  BY <1>2, ExpireInv
<1>3. CASE ReadSweeps
  BY <1>3, ReadSweepsInv
<1>4. CASE Commit
  BY <1>4, WriteSnapshotInv, AppendBatchInv DEF Commit
<1>5. CASE CompactionFails
  BY <1>5, CompactionFailsInv
<1>6. CASE CommitFails
  BY <1>6, CommitFailsInv
<1>7. CASE Crash
  BY <1>7, CrashInv
<1>8. CASE Stop
  BY <1>8, StopInv
<1>9. CASE LogLost
  BY <1>9, LogLostInv
<1>10. CASE Start
  BY <1>10, StartInv
<1>11. CASE Serve
  BY <1>11, ServeResetInv, ServePageInv DEF Serve
<1>12. CASE TakeRecord
  BY <1>12, TakeRecordStep, MirrorInv
<1>13. CASE DeferRecord
  BY <1>13, DeferRecordStep, MirrorInv
<1>14. CASE FinishPage
  BY <1>14, FinishPageStep, MirrorInv
<1>15. CASE RetryDeferred
  BY <1>15, RetryDeferredStep, MirrorInv
<1>16. CASE DeferredExpires \/ SyncFails \/ MirrorRestarts
  BY <1>16, DroppedSteps, MirrorInv
<1>17. CASE UNCHANGED vars
  <2>1. UNCHANGED <<book, expired, served, cursor, have, deferred, page>>
    BY <1>17 DEF vars, mirror
  <2>2. MirrorStep
    BY <2>1, MirrorTypes, HoldersAre DEF MirrorStep
  <2>. QED  BY <2>2, MirrorInv
<1>. QED
  BY <1>1, <1>2, <1>3, <1>4, <1>5, <1>6, <1>7, <1>8, <1>9, <1>10, <1>11, <1>12, <1>13, <1>14,
     <1>15, <1>16, <1>17 DEF Next

\* The invariant above holds of every behaviour of the book and its mirror:
\* the log on disk can always be resumed, and under an identity that is kept
\* it covers what the recorded digest describes (reconcileSnapshot()).
THEOREM FeedHolds == Spec => []Inv
BY InitInv, NextInv, PTL DEF Spec

\* What a client was told is in the orders file until its order is past
\* retention, whatever crash or failed write comes in between (flush(),
\* runCommits()).
THEOREM SurvivesAnswer == Spec => []ToldSurvives
<1>1. Inv => ToldSurvives
  BY DEF Inv, FileHolds, ToldSurvives
<1>. QED  BY <1>1, FeedHolds, PTL

\* A sequence number of a feed identity never names two events, however
\* often the feed is resumed from a torn log (parseLog()).
THEOREM SeqNames == Spec => []SeqNamesOneEvent
<1>1. Inv => SeqNamesOneEvent
  BY DEF Inv, SeqHolds
<1>. QED  BY <1>1, FeedHolds, PTL

\* No accepted event is invisible to a mirror whose cursor the book honours:
\* page(), the reset pages and their cache, reconcileSnapshot() at the start.
THEOREM NothingSkipped == Spec => []NothingInvisible
<1>1. Inv => NothingInvisible
  <2>1. SUFFICES ASSUME Inv, proc = "up", ~requiresReset(feed, cursor)
                 PROVE  mem \ expired \subseteq
                            have \cup deferred \cup Range(pending)
                                 \cup {feed.ring[i].ev : i \in {j \in DOMAIN feed.ring :
                                                                   feed.ring[j].seq > cursor.seq}}
    BY DEF NothingInvisible
  <2>2. proc # "down" /\ proc \in {"up", "append"}
    BY <2>1
  <2>3. Typed /\ feed \in Feeds /\ Contig(feed) /\ Covers(feed, mem \ ToSet(pending))
    BY <2>1, <2>2 DEF Inv, LiveHolds, UpHolds, FeedOk
  <2>4. cursor \in Cursors \cup {Null} /\ have \cup deferred \in SUBSET Events
    BY <2>3 DEF Typed
  <2>5. cursor # Null /\ Honours(feed, cursor) /\ cursor \in Cursors
    BY <2>1, <2>3, <2>4, ResetIs
  <2>6. Holder(cursor, have \cup deferred)
    BY <2>5 DEF Holder
  <2>7. (mem \ ToSet(pending)) \ expired \subseteq have \cup deferred \cup After(feed, cursor.seq)
    BY <2>3, <2>4, <2>5, <2>6 DEF Covers
  <2>8. Range(pending) = ToSet(pending)
    BY DEF Range, ToSet
  <2>9. After(feed, cursor.seq) \subseteq
            {feed.ring[i].ev : i \in {j \in DOMAIN feed.ring : feed.ring[j].seq > cursor.seq}}
    BY DEF After, Entries
  <2>. QED  BY <2>7, <2>8, <2>9
<1>. QED  BY <1>1, FeedHolds, PTL

=============================================================================
