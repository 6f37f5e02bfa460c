-------------------------- MODULE BookServerProofs --------------------------
(***************************************************************************)
(* Proofs about BookServer and the BookLease it is built on, for every     *)
(* number of processes, files, requests and heartbeats in a lease's life.  *)
(***************************************************************************)
EXTENDS BookServer, FiniteSetTheorems, WellFoundedInduction, TLAPS

-----------------------------------------------------------------------------
(* The inductive invariant.                                                *)

LeaseFiles == [by : Procs, at : Nat] \cup {Null}
Places == {"out", "acquire", "backout", "load", "up", "refused", "gone"}
Phases == {"idle", "fenced", "written", "appending", "failed"}
Answers == {"idle", "body", "commit", "told", "shed", "refused"}

LeaseTypeOK ==
    /\ now \in Nat /\ site \in Sites
    /\ lease \in [Files -> LeaseFiles]
    /\ pc \in [Procs -> Places]
    /\ held \in [Procs -> SUBSET Files] /\ lost \in [Procs -> SUBSET Files]
    /\ fails \in [Procs -> [Files -> Nat]]
    /\ beaten \subseteq Procs
    /\ blind \subseteq Procs \X Files

ServerTypeOK ==
    /\ mem \in [Procs -> SUBSET Requests]
    /\ dirty \in [Procs -> BOOLEAN]
    /\ commit \in [Procs -> Phases]
    /\ stop \in [Procs -> {Null, 0, 1}]
    /\ orders \subseteq Requests /\ feed \subseteq Requests
    /\ at \in [Requests -> Answers]
    /\ by \in [Requests -> Procs \cup {Null}]
    /\ late \in [Procs -> Nat]
    /\ faults \in Nat

TypeOK == LeaseTypeOK /\ ServerTypeOK

\* A process takes its files from the least upwards; whose lease a file is,
\* that process took it.
HeldOk(p) ==
    /\ pc[p] = "out" => held[p] = {}
    /\ held[p] \subseteq ProtectedFiles(p)
    /\ pc[p] \in {"acquire", "backout", "refused"} =>
          held[p] # ProtectedFiles(p) /\ \A g \in held[p] : g < nextFile(p)
    /\ pc[p] \in {"load", "up"} => held[p] = ProtectedFiles(p)

HolderOk(f) == lease[f] # Null => f \in held[lease[f].by]

\* Without faults, who was turned away wanted a file that somebody had taken.
TurnedAway(p) ==
    pc[p] \in {"backout", "refused"} => \E q \in Procs : nextFile(p) \in held[q]

NoFaults == site.faults = 0 => faults = 0 /\ blind = {} /\ \A p \in Procs : TurnedAway(p)

HeldInv ==
    /\ \A p \in Procs : HeldOk(p)
    /\ \A f \in Files : HolderOk(f)
    /\ NoFaults

\* A process that keeps time has stamped a lease it believes in once in every
\* beat but for the failures it counted.
Fresh(p, f) ==
    /\ pc[p] \in {"acquire", "load"} => lease[f].at = now
    /\ pc[p] = "up" /\ f \notin lost[p] =>
          now - lease[f].at <= fails[p][f] + (IF p \in beaten THEN 0 ELSE 1)

AgeInv ==
    /\ ~site.stalls => \A p \in Procs, f \in Files : Mine(f, p) => Fresh(p, f)
    /\ \A p \in Procs, f \in Files : f \notin lost[p] => fails[p][f] < failureBudget

Told == {r \in Requests : at[r] = "told"}

\* A process that was not displaced has the whole orders file in memory, and
\* past its write the orders file has what it is to answer for.
UpToDate(p) ==
    pc[p] = "up" /\ ~Displaced(p) =>
        /\ orders \subseteq mem[p]
        /\ commit[p] \in {"written", "appending"} => With(p, "commit") \subseteq orders

ReceiptInv ==
    /\ \A r \in Requests : at[r] # "idle" => by[r] \in Procs /\ pc[by[r]] \in {"up", "gone"}
    /\ \A p \in Procs : pc[p] = "up" => With(p, "commit") \subseteq mem[p]
    /\ (\A p \in Procs : late[p] = 0) =>
          Told \subseteq orders \cap feed /\ \A p \in Procs : UpToDate(p)

\* What the lanes other than the makers' may occupy.
Ceiling(bound) == bound.total - bound.reserved + bound.reserved \div 2

Reading(p) == {q \in With(p, "body") : q.lane # "maker"}
ReadingFrom(p, r) == {q \in Reading(p) : q.src = r.src}
Writing(p) == {q \in With(p, "commit") : q.lane \notin {"maker", "peer"}}

LaneOk(p) ==
    /\ Cardinality(Reading(p)) <= Ceiling(BodyReads)
    /\ \A r \in Requests : Cardinality(ReadingFrom(p, r)) <= PerSource
    /\ Cardinality(Writing(p)) <= Ceiling(Mutations)

LaneInv == \A p \in Procs : LaneOk(p)

-----------------------------------------------------------------------------
(* Least and greatest numbers.                                             *)

LEMMA Least ==
    ASSUME NEW T, T \subseteq Nat, T # {}
    PROVE  \E x \in T : \A y \in T : x <= y
<1>. DEFINE R == OpToRel(<, Nat)
<1>1. IsWellFoundedOn(R, Nat)
  BY NatLessThanWellFounded
<1>2. \A x, y \in Nat : y < x => <<y, x>> \in R
  BY DEF OpToRel
<1>. HIDE DEF R
<1>3. \E x \in T : \A y \in T : ~(<<y, x>> \in R)
  BY <1>1, WFMin
<1>4. PICK x \in T : \A y \in T : ~(<<y, x>> \in R)
  BY <1>3
<1>5. \A y \in T : ~(y < x)
  BY <1>2, <1>4
<1>6. \A m, n \in Nat : ~(m < n) => n <= m
  OBVIOUS
<1>. QED  BY <1>4, <1>5, <1>6

LEMMA MinOf ==
    ASSUME NEW T, T \subseteq Nat, T # {}
    PROVE  Min(T) \in T /\ \A y \in T : Min(T) <= y
BY Least DEF Min

\* A finite set of numbers has a greatest one: the least set of those from
\* some member upwards is that of the greatest member.
LEMMA Greatest ==
    ASSUME NEW T, T \subseteq Nat, T # {}, IsFiniteSet(T)
    PROVE  \E x \in T : \A y \in T : y <= x
<1>. DEFINE From(x) == {z \in T : x <= z}
            Sizes == {Cardinality(From(x)) : x \in T}
<1>1. \A x \in T : IsFiniteSet(From(x)) /\ Cardinality(From(x)) \in Nat
  <2>. TAKE x \in T
  <2>1. From(x) \subseteq T OBVIOUS
  <2>. QED  BY <2>1, FS_Subset, FS_CardinalityType
<1>2. Sizes \subseteq Nat /\ Sizes # {}
  BY <1>1
<1>3. PICK n \in Sizes : \A m \in Sizes : n <= m
  BY <1>2, Least
<1>4. PICK x \in T : n = Cardinality(From(x))
  BY <1>3
<1>5. ASSUME NEW y \in T, ~(y <= x) PROVE FALSE
  <2>1. From(y) \subseteq From(x) /\ x \in From(x) /\ x \notin From(y)
    <3>1. x \in Nat /\ y \in Nat
      BY <1>4, <1>5
    <3>2. \A z \in Nat : y <= z => x <= z
      BY <1>5, <3>1
    <3>. QED  BY <1>4, <1>5, <3>1, <3>2
  <2>2. Cardinality(From(y)) < Cardinality(From(x))
    <3>. HIDE DEF From
    <3>. QED  BY <2>1, <1>1, FS_Subset
  <2>3. Cardinality(From(x)) <= Cardinality(From(y))
    BY <1>3, <1>4
  <2>4. Cardinality(From(x)) \in Nat /\ Cardinality(From(y)) \in Nat
    BY <1>1
  <2>. HIDE DEF From
  <2>. QED  BY <2>2, <2>3, <2>4
<1>. QED  BY <1>5

-----------------------------------------------------------------------------
(* The files of a process.                                                 *)

LEMMA Protected ==
    ASSUME TypeOK, NEW p \in Procs
    PROVE  /\ ProtectedFiles(p) \subseteq Files
           /\ \A q \in Procs : \E f \in Files : f \in ProtectedFiles(p) /\ f \in ProtectedFiles(q)
<1>1. site \in Sites
  BY DEF TypeOK, LeaseTypeOK
<1>2. /\ site.config \in [Procs -> Seq(Files)]
      /\ \A q \in Procs : \E i \in DOMAIN site.config[p], j \in DOMAIN site.config[q] :
             site.config[p][i] = site.config[q][j]
  BY <1>1, SitesAssumption
<1>3. \A q \in Procs : \A i \in DOMAIN site.config[q] : site.config[q][i] \in Files
  BY <1>2
<1>. QED  BY <1>2, <1>3 DEF ProtectedFiles

\* What is next to take exists, is not held and comes before what is left.
LEMMA NextFileOk ==
    ASSUME TypeOK, NEW p \in Procs, HeldOk(p), held[p] # ProtectedFiles(p)
    PROVE  /\ nextFile(p) \in ProtectedFiles(p) /\ nextFile(p) \notin held[p]
           /\ nextFile(p) \in Files /\ nextFile(p) \in Nat
           /\ \A g \in ProtectedFiles(p) \ held[p] : nextFile(p) <= g
<1>. DEFINE T == ProtectedFiles(p) \ held[p]
<1>1. T # {} /\ T \subseteq Files
  BY Protected DEF HeldOk
<1>2. T \subseteq Nat
  BY <1>1, BookLeaseAssumption
<1>3. Min(T) \in T /\ \A y \in T : Min(T) <= y
  BY <1>1, <1>2, MinOf
<1>4. nextFile(p) = Min(T)
  BY DEF nextFile
<1>. HIDE DEF T
<1>5. nextFile(p) \in T /\ \A y \in T : nextFile(p) <= y
  BY <1>3, <1>4
<1>. QED  BY <1>1, <1>2, <1>5 DEF T

LEMMA LostGrows ==
    ASSUME TypeOK, NEW p \in Procs
    PROVE  /\ LostAfterAssert(p) \in [Procs -> SUBSET Files]
           /\ \A q \in Procs : lost[q] \subseteq LostAfterAssert(p)[q]
<1>. DEFINE doubtful == {f \in held[p] : verdict(p, f) # "owned"}
<1>0. held[p] \subseteq Files /\ lost \in [Procs -> SUBSET Files]
  BY DEF TypeOK, LeaseTypeOK
<1>1. doubtful \subseteq Files
  BY <1>0
<1>2. CASE assertOwned(p) = "lost"
  <2>1. doubtful # {}
    BY <1>2 DEF assertOwned
  <2>2. Min(doubtful) \in Files
    <3>1. doubtful \subseteq Nat
      BY <1>1, BookLeaseAssumption
    <3>. HIDE DEF doubtful
    <3>2. Min(doubtful) \in doubtful
      BY <2>1, <3>1, MinOf
    <3>. QED  BY <3>2, <1>1
  <2>3. LostAfterAssert(p) = [lost EXCEPT ![p] = @ \cup {Min(doubtful)}]
    BY <1>2 DEF LostAfterAssert
  <2>. HIDE DEF doubtful
  <2>. QED  BY <1>0, <2>2, <2>3
<1>3. CASE assertOwned(p) # "lost"
  BY <1>0, <1>3 DEF LostAfterAssert
<1>. QED  BY <1>2, <1>3

LEMMA ShutdownType ==
    ASSUME TypeOK, NEW p \in Procs, NEW code \in {0, 1}
    PROVE  initiateShutdown(p, code) \in [Procs -> {Null, 0, 1}]
BY DEF TypeOK, ServerTypeOK, initiateShutdown

LEMMA AnsweredType ==
    ASSUME TypeOK, NEW rs, NEW answer \in Answers
    PROVE  /\ Answered(rs, answer) \in [Requests -> Answers]
           /\ \A r \in Requests : Answered(rs, answer)[r] = IF r \in rs THEN answer ELSE at[r]
BY DEF TypeOK, ServerTypeOK, Answered

LEMMA FaultType ==
    ASSUME TypeOK, Fault
    PROVE  faults' \in Nat /\ site.faults # 0
<1>1. faults \in Nat /\ site.faults \in Nat
  BY SitesAssumption DEF TypeOK, LeaseTypeOK, ServerTypeOK
<1>. QED  BY <1>1 DEF Fault

-----------------------------------------------------------------------------
(* Types.  Most steps are quiet: they leave the lease files and the places *)
(* of the processes alone and can only add to what is known to be lost.    *)

Quiet ==
    /\ UNCHANGED <<now, site, lease, pc, held, fails, beaten, blind>>
    /\ lost' \in [Procs -> SUBSET Files]
    /\ \A p \in Procs : lost[p] \subseteq lost'[p]
    /\ site.faults = 0 => faults' = faults

LEMMA QuietUnchanged ==
    ASSUME TypeOK, UNCHANGED leaseVars, UNCHANGED faults \/ Fault
    PROVE  Quiet
<1>1. lost \in [Procs -> SUBSET Files] /\ lost' = lost
  BY DEF TypeOK, LeaseTypeOK, leaseVars
<1>2. UNCHANGED <<now, site, lease, pc, held, fails, beaten, blind>>
  BY DEF leaseVars
<1>3. site.faults = 0 => faults' = faults
  BY FaultType
<1>. QED  BY <1>1, <1>2, <1>3 DEF Quiet

LEMMA QuietAssert ==
    ASSUME TypeOK, NEW p \in Procs, lost' = LostAfterAssert(p) \/ lost' = lost,
           UNCHANGED <<now, site, lease, pc, held, fails, beaten, blind>>, UNCHANGED faults
    PROVE  Quiet
<1>1. lost \in [Procs -> SUBSET Files]
  BY DEF TypeOK, LeaseTypeOK
<1>. QED  BY <1>1, LostGrows DEF Quiet

LEMMA QuietType ==
    ASSUME TypeOK, Quiet PROVE LeaseTypeOK'
BY DEF TypeOK, LeaseTypeOK, Quiet

LEMMA ArriveType ==
    ASSUME TypeOK, NEW p \in Procs, NEW r \in Requests, Arrive(p, r)
    PROVE  Quiet /\ ServerTypeOK'
<1>1. Quiet
  BY QuietAssert DEF Arrive
<1>2. stop' \in [Procs -> {Null, 0, 1}]
  <2>1. stop \in [Procs -> {Null, 0, 1}]
    BY DEF TypeOK, ServerTypeOK
  <2>. QED  BY <2>1, ShutdownType DEF Arrive
<1>3. at' \in [Requests -> Answers] /\ by' \in [Requests -> Procs \cup {Null}]
  BY DEF TypeOK, ServerTypeOK, Arrive, Answers
<1>4. UNCHANGED <<mem, dirty, commit, orders, feed, late, faults>>
  BY DEF Arrive, files
<1>. QED  BY <1>1, <1>2, <1>3, <1>4 DEF TypeOK, ServerTypeOK

LEMMA BodyArrivesType ==
    ASSUME TypeOK, NEW p \in Procs, NEW r \in Requests, BodyArrives(p, r)
    PROVE  Quiet /\ ServerTypeOK'
<1>1. Quiet
  BY QuietUnchanged DEF BodyArrives
<1>2. at' \in [Requests -> Answers]
  BY DEF TypeOK, ServerTypeOK, BodyArrives, Answers
<1>3. mem' \in [Procs -> SUBSET Requests] /\ dirty' \in [Procs -> BOOLEAN]
  <2>0. mem \in [Procs -> SUBSET Requests] /\ dirty \in [Procs -> BOOLEAN]
    BY DEF TypeOK, ServerTypeOK
  <2>1. CASE UNCHANGED <<mem, dirty>>
    BY <2>0, <2>1
  <2>2. CASE /\ mem' = [mem EXCEPT ![p] = @ \cup {r}]
             /\ dirty' = [dirty EXCEPT ![p] = TRUE]
    <3>1. mem' \in [Procs -> SUBSET Requests]
      BY <2>0, <2>2
    <3>2. dirty' \in [Procs -> BOOLEAN]
      BY <2>0, <2>2
    <3>. QED  BY <3>1, <3>2
  <2>. QED  BY <2>1, <2>2 DEF BodyArrives
<1>4. UNCHANGED <<commit, stop, by, orders, feed, late, faults>>
  BY DEF BodyArrives, files
<1>. QED  BY <1>1, <1>2, <1>3, <1>4 DEF TypeOK, ServerTypeOK

LEMMA BodyFailsType ==
    ASSUME TypeOK, NEW p \in Procs, NEW r \in Requests, BodyFails(p, r)
    PROVE  Quiet /\ ServerTypeOK'
<1>1. Quiet
  BY QuietUnchanged DEF BodyFails
<1>2. at' \in [Requests -> Answers]
  BY DEF TypeOK, ServerTypeOK, BodyFails, Answers
<1>4. UNCHANGED <<mem, dirty, commit, stop, by, orders, feed, late, faults>>
  BY DEF BodyFails, files
<1>. QED  BY <1>1, <1>2, <1>4 DEF TypeOK, ServerTypeOK

LEMMA PeerApplyType ==
    ASSUME TypeOK, NEW p \in Procs, NEW r \in Requests, PeerApply(p, r)
    PROVE  Quiet /\ ServerTypeOK'
<1>1. Quiet
  BY QuietAssert DEF PeerApply
<1>2. stop' \in [Procs -> {Null, 0, 1}]
  <2>1. stop \in [Procs -> {Null, 0, 1}]
    BY DEF TypeOK, ServerTypeOK
  <2>. QED  BY <2>1, ShutdownType DEF PeerApply
<1>3. at' \in [Requests -> Answers] /\ by' \in [Requests -> Procs \cup {Null}]
  BY DEF TypeOK, ServerTypeOK, PeerApply, Answers
<1>4. mem' \in [Procs -> SUBSET Requests] /\ dirty' \in [Procs -> BOOLEAN]
  <2>0. mem \in [Procs -> SUBSET Requests] /\ dirty \in [Procs -> BOOLEAN]
    BY DEF TypeOK, ServerTypeOK
  <2>1. CASE UNCHANGED <<mem, dirty>>
    BY <2>0, <2>1
  <2>2. CASE /\ mem' = [mem EXCEPT ![p] = @ \cup {r}]
             /\ dirty' = [dirty EXCEPT ![p] = TRUE]
    <3>1. mem' \in [Procs -> SUBSET Requests]
      BY <2>0, <2>2
    <3>2. dirty' \in [Procs -> BOOLEAN]
      BY <2>0, <2>2
    <3>. QED  BY <3>1, <3>2
  <2>. QED  BY <2>1, <2>2 DEF PeerApply
<1>5. UNCHANGED <<commit, orders, feed, late, faults>>
  BY DEF PeerApply, files
<1>. QED  BY <1>1, <1>2, <1>3, <1>4, <1>5 DEF TypeOK, ServerTypeOK

LEMMA ReadType ==
    ASSUME TypeOK, NEW p \in Procs, Read(p)
    PROVE  Quiet /\ ServerTypeOK'
<1>1. Quiet
  BY QuietAssert DEF Read
<1>2. stop' \in [Procs -> {Null, 0, 1}]
  <2>1. stop \in [Procs -> {Null, 0, 1}]
    BY DEF TypeOK, ServerTypeOK
  <2>. QED  BY <2>1, ShutdownType DEF Read
<1>3. dirty' \in [Procs -> BOOLEAN]
  BY DEF TypeOK, ServerTypeOK, Read
<1>4. UNCHANGED <<mem, commit, at, by, orders, feed, late, faults>>
  BY DEF Read, files
<1>. QED  BY <1>1, <1>2, <1>3, <1>4 DEF TypeOK, ServerTypeOK

LEMMA FailCommitType ==
    ASSUME TypeOK, NEW p \in Procs, failCommit(p)
    PROVE  /\ commit' \in [Procs -> Phases] /\ at' \in [Requests -> Answers]
           /\ stop' \in [Procs -> {Null, 0, 1}]
BY ShutdownType, AnsweredType DEF failCommit, TypeOK, ServerTypeOK, Phases, Answers

LEMMA FenceType ==
    ASSUME TypeOK, NEW p \in Procs, NEW from, NEW to \in Phases, Fence(p, from, to)
    PROVE  /\ Quiet
           /\ commit' \in [Procs -> Phases] /\ at' \in [Requests -> Answers]
           /\ stop' \in [Procs -> {Null, 0, 1}]
           /\ UNCHANGED <<mem, by, orders, feed, late, faults>>
<1>1. Quiet
  BY QuietAssert DEF Fence
<1>2. CASE failCommit(p)
  BY <1>1, <1>2, FailCommitType DEF Fence, files
<1>3. CASE commit' = [commit EXCEPT ![p] = to] /\ UNCHANGED <<at, stop>>
  BY <1>1, <1>3 DEF Fence, files, TypeOK, ServerTypeOK
<1>. QED  BY <1>2, <1>3 DEF Fence

LEMMA BeginCommitType ==
    ASSUME TypeOK, NEW p \in Procs, BeginCommit(p)
    PROVE  Quiet /\ ServerTypeOK'
<1>1. Fence(p, "idle", "fenced") /\ dirty' = [dirty EXCEPT ![p] = FALSE]
  BY DEF BeginCommit
<1>2. "fenced" \in Phases BY DEF Phases
<1>. QED  BY <1>1, <1>2, FenceType DEF TypeOK, ServerTypeOK

LEMMA FenceFeedType ==
    ASSUME TypeOK, NEW p \in Procs, FenceFeed(p)
    PROVE  Quiet /\ ServerTypeOK'
<1>1. Fence(p, "written", "appending") /\ dirty' = dirty
  BY DEF FenceFeed
<1>2. "appending" \in Phases BY DEF Phases
<1>. QED  BY <1>1, <1>2, FenceType DEF TypeOK, ServerTypeOK

LEMMA WritesType ==
    ASSUME TypeOK, NEW p \in Procs, Writes(p)
    PROVE  /\ late' \in [Procs -> Nat]
           /\ late' = [late EXCEPT ![p] = IF Displaced(p) THEN @ + 1 ELSE @]
<1>1. late \in [Procs -> Nat]
  BY DEF TypeOK, ServerTypeOK
<1>2. CASE Displaced(p)
  BY <1>1, <1>2 DEF Writes
<1>3. CASE ~Displaced(p)
  <2>1. late' = [late EXCEPT ![p] = @ + 0]
    BY <1>3 DEF Writes
  <2>2. late[p] + 0 = late[p]
    BY <1>1
  <2>. QED  BY <1>1, <1>3, <2>1, <2>2
<1>. QED  BY <1>2, <1>3

LEMMA WriteOrdersType ==
    ASSUME TypeOK, NEW p \in Procs, WriteOrders(p)
    PROVE  Quiet /\ ServerTypeOK'
<1>1. UNCHANGED leaseVars /\ UNCHANGED <<mem, dirty, by, feed>>
  BY DEF WriteOrders
<1>2. /\ commit' \in [Procs -> Phases] /\ at' \in [Requests -> Answers]
      /\ stop' \in [Procs -> {Null, 0, 1}]
  BY FailCommitType DEF WriteOrders, TypeOK, ServerTypeOK, Phases
<1>3. orders' \subseteq Requests /\ late' \in [Procs -> Nat]
  BY WritesType DEF WriteOrders, TypeOK, ServerTypeOK
<1>4. faults' \in Nat /\ (UNCHANGED faults \/ Fault)
  BY FaultType DEF WriteOrders, TypeOK, ServerTypeOK
<1>5. Quiet
  BY <1>1, <1>4, QuietUnchanged
<1>. QED  BY <1>1, <1>2, <1>3, <1>4, <1>5 DEF TypeOK, ServerTypeOK

LEMMA EndSweepType ==
    ASSUME TypeOK, NEW p \in Procs, EndSweep(p)
    PROVE  Quiet /\ ServerTypeOK'
<1>1. Quiet
  BY QuietUnchanged DEF EndSweep
<1>2. commit' \in [Procs -> Phases]
  BY DEF EndSweep, TypeOK, ServerTypeOK, Phases
<1>3. UNCHANGED <<mem, dirty, stop, at, by, orders, feed, late, faults>>
  BY DEF EndSweep, files
<1>. QED  BY <1>1, <1>2, <1>3 DEF TypeOK, ServerTypeOK

LEMMA AppendFeedType ==
    ASSUME TypeOK, NEW p \in Procs, AppendFeed(p)
    PROVE  Quiet /\ ServerTypeOK'
<1>1. UNCHANGED leaseVars /\ UNCHANGED <<mem, dirty, by, orders>>
  BY DEF AppendFeed
<1>2. /\ commit' \in [Procs -> Phases] /\ at' \in [Requests -> Answers]
      /\ stop' \in [Procs -> {Null, 0, 1}]
  <2>1. "told" \in Answers
    BY DEF Answers
  <2>. QED  BY <2>1, FailCommitType, AnsweredType DEF AppendFeed, TypeOK, ServerTypeOK, Phases
<1>3. feed' \subseteq Requests /\ late' \in [Procs -> Nat]
  BY WritesType DEF AppendFeed, TypeOK, ServerTypeOK, With
<1>4. faults' \in Nat /\ (UNCHANGED faults \/ Fault)
  BY FaultType DEF AppendFeed, TypeOK, ServerTypeOK
<1>5. Quiet
  BY <1>1, <1>4, QuietUnchanged
<1>. QED  BY <1>1, <1>2, <1>3, <1>4, <1>5 DEF TypeOK, ServerTypeOK

LEMMA EndingType ==
    ASSUME TypeOK, NEW p \in Procs, Notified(p) \/ Signal(p) \/ Deadline(p)
    PROVE  Quiet /\ ServerTypeOK'
<1>1. stop' \in [Procs -> {Null, 0, 1}]
  BY ShutdownType DEF Notified, Signal, Deadline
<1>2. at' \in [Requests -> Answers]
  <2>1. "refused" \in Answers BY DEF Answers
  <2>. QED  BY <2>1, AnsweredType DEF Notified, Signal, Deadline, TypeOK, ServerTypeOK
<1>3. /\ UNCHANGED leaseVars /\ (UNCHANGED faults \/ Fault)
      /\ UNCHANGED <<mem, dirty, commit, by, orders, feed, late>>
  BY DEF Notified, Signal, Deadline, files
<1>4. faults' \in Nat
  BY <1>3, FaultType DEF TypeOK, ServerTypeOK
<1>5. Quiet
  BY <1>3, QuietUnchanged
<1>. QED  BY <1>1, <1>2, <1>3, <1>4, <1>5 DEF TypeOK, ServerTypeOK

\* The quiet steps of process p.
QuietActs(p) ==
    \/ Read(p) \/ Commits(p)
    \/ Notified(p) \/ Signal(p) \/ Deadline(p)
    \/ \E r \in Requests :
          Arrive(p, r) \/ BodyArrives(p, r) \/ BodyFails(p, r) \/ PeerApply(p, r)

LEMMA QuietActsType ==
    ASSUME TypeOK, NEW p \in Procs, QuietActs(p)
    PROVE  Quiet /\ TypeOK'
<1>1. Quiet /\ ServerTypeOK'
  BY ReadType, BeginCommitType, FenceFeedType, WriteOrdersType, EndSweepType, AppendFeedType,
     EndingType, ArriveType, BodyArrivesType, BodyFailsType, PeerApplyType
     DEF QuietActs, Commits
<1>. QED  BY <1>1, QuietType DEF TypeOK

\* The other steps.
LEMMA StartType ==
    ASSUME TypeOK, NEW p \in Procs, Start(p)
    PROVE  TypeOK' /\ UNCHANGED <<server, files, faults>>
BY DEF Start, TypeOK, LeaseTypeOK, ServerTypeOK, Places, server, files

LEMMA ServerUnchanged ==
    ASSUME TypeOK, UNCHANGED <<server, files, faults>>
    PROVE  ServerTypeOK'
BY DEF TypeOK, ServerTypeOK, server, files

LEMMA AcquireType ==
    ASSUME TypeOK, HeldInv, NEW p \in Procs, Acquire(p), UNCHANGED <<server, files, faults>>
    PROVE  TypeOK'
<1>1. nextFile(p) \in Files
  <2>1. pc[p] = "acquire" /\ HeldOk(p)
    BY DEF Acquire, HeldInv
  <2>. QED  BY <2>1, NextFileOk DEF HeldOk
<1>2. PICK f \in Files : f = nextFile(p)
  BY <1>1
<1>3. pc' \in [Procs -> Places]
  BY DEF Acquire, TypeOK, LeaseTypeOK, Places
<1>4. lease' \in [Files -> LeaseFiles]
  <2>1. [by |-> p, at |-> now] \in LeaseFiles
    BY DEF TypeOK, LeaseTypeOK, LeaseFiles
  <2>2. lease \in [Files -> LeaseFiles]
    BY DEF TypeOK, LeaseTypeOK
  <2>. QED  BY <1>2, <2>1, <2>2 DEF Acquire
<1>5. held' \in [Procs -> SUBSET Files]
  BY <1>2 DEF Acquire, TypeOK, LeaseTypeOK
<1>6. UNCHANGED <<now, site, lost, fails, beaten, blind>>
  BY DEF Acquire
<1>7. LeaseTypeOK'
  BY <1>3, <1>4, <1>5, <1>6 DEF TypeOK, LeaseTypeOK
<1>. QED  BY <1>7, ServerUnchanged DEF TypeOK

\* A release removes lease files and changes no other.
LEMMA ReleasedType ==
    ASSUME TypeOK, NEW p \in Procs
    PROVE  /\ Released(p) \in [Files -> LeaseFiles]
           /\ \A f \in Files : Released(p)[f] = Null \/ Released(p)[f] = lease[f]
BY DEF TypeOK, LeaseTypeOK, Released, LeaseFiles

LEMMA BackOutType ==
    ASSUME TypeOK, NEW p \in Procs, BackOut(p), UNCHANGED <<server, files, faults>>
    PROVE  TypeOK'
<1>1. LeaseTypeOK'
  BY ReleasedType DEF BackOut, TypeOK, LeaseTypeOK, Places
<1>. QED  BY <1>1, ServerUnchanged DEF TypeOK

LEMMA ExitType ==
    ASSUME TypeOK, NEW p \in Procs, Exit(p)
    PROVE  TypeOK'
<1>1. LeaseTypeOK'
  BY ReleasedType DEF Exit, TypeOK, LeaseTypeOK, Places
<1>2. UNCHANGED <<server, files, faults>>
  BY DEF Exit
<1>. QED  BY <1>1, <1>2, ServerUnchanged DEF TypeOK

\* What a load leaves: a process that is gone, or one that is up with the
\* orders file in memory and in the feed.
LoadEnds(p) == pc' = [pc EXCEPT ![p] = "gone"] /\ UNCHANGED <<mem, feed, beaten>>
LoadSucceeds(p) ==
    /\ pc' = [pc EXCEPT ![p] = "up"]
    /\ mem' = [mem EXCEPT ![p] = orders]
    /\ feed' = feed \cup orders
    /\ beaten' = beaten \cup {p}

LEMMA LoadCases ==
    ASSUME NEW p \in Procs, Load(p)
    PROVE  /\ pc[p] = "load"
           /\ LoadEnds(p) \/ LoadSucceeds(p)
           /\ UNCHANGED faults \/ Fault
           /\ UNCHANGED <<now, site, lease, held, lost, fails, blind,
                          dirty, commit, stop, orders, at, by, late>>
BY DEF Load, Loaded, LoadEnds, LoadSucceeds

LEMMA LoadType ==
    ASSUME TypeOK, NEW p \in Procs, Load(p)
    PROVE  TypeOK'
<1>1. /\ LoadEnds(p) \/ LoadSucceeds(p)
      /\ UNCHANGED faults \/ Fault
      /\ UNCHANGED <<now, site, lease, held, lost, fails, blind,
                     dirty, commit, stop, orders, at, by, late>>
  BY LoadCases
<1>2. faults' \in Nat
  BY <1>1, FaultType DEF TypeOK, ServerTypeOK
<1>3. /\ pc' \in [Procs -> Places] /\ mem' \in [Procs -> SUBSET Requests]
      /\ feed' \subseteq Requests /\ beaten' \subseteq Procs
  BY <1>1 DEF TypeOK, LeaseTypeOK, ServerTypeOK, LoadEnds, LoadSucceeds, Places
<1>. QED  BY <1>1, <1>2, <1>3 DEF TypeOK, LeaseTypeOK, ServerTypeOK

LEMMA BeatType ==
    ASSUME TypeOK, NEW p \in Procs, Beat(p), UNCHANGED <<server, files, faults>>
    PROVE  TypeOK'
<1>1. fails' \in [Procs -> [Files -> Nat]]
  BY DEF Beat, TypeOK, LeaseTypeOK
<1>2. lost' \in [Procs -> SUBSET Files]
  BY DEF Beat, TypeOK, LeaseTypeOK
<1>3. lease' \in [Files -> LeaseFiles]
  <2>1. ASSUME NEW f \in Files, BeatStamps(p, f)
        PROVE  [lease[f] EXCEPT !.at = now] \in LeaseFiles
    <3>1. lease[f] \in [by : Procs, at : Nat] /\ now \in Nat
      BY <2>1 DEF BeatStamps, Mine, TypeOK, LeaseTypeOK, LeaseFiles
    <3>. QED  BY <3>1 DEF LeaseFiles
  <2>. QED  BY <2>1 DEF Beat, TypeOK, LeaseTypeOK
<1>4. beaten' \subseteq Procs /\ UNCHANGED <<now, site, pc, held, blind>>
  BY DEF Beat, TypeOK, LeaseTypeOK
<1>5. LeaseTypeOK'
  BY <1>1, <1>2, <1>3, <1>4 DEF TypeOK, LeaseTypeOK
<1>. QED  BY <1>5, ServerUnchanged DEF TypeOK

LEMMA KilledType ==
    ASSUME TypeOK, NEW p \in Procs, Killed(p)
    PROVE  TypeOK'
<1>1. pc' \in [Procs -> Places]
  BY DEF Killed, TypeOK, LeaseTypeOK, Places
<1>2. at' \in [Requests -> Answers]
  <2>1. "refused" \in Answers BY DEF Answers
  <2>. QED  BY <2>1, AnsweredType DEF Killed
<1>3. faults' \in Nat
  BY FaultType DEF Killed
<1>4. UNCHANGED <<now, site, lease, held, lost, fails, beaten, blind,
                  mem, dirty, commit, stop, by, orders, feed, late>>
  BY DEF Killed, files
<1>. QED  BY <1>1, <1>2, <1>3, <1>4 DEF TypeOK, LeaseTypeOK, ServerTypeOK

LEMMA BlindType ==
    ASSUME TypeOK, NEW p \in Procs, NEW f \in Files, Blinded(p, f) \/ Sees(p, f)
    PROVE  TypeOK'
<1>1. blind' \subseteq Procs \X Files
  BY DEF Blinded, Sees, TypeOK, LeaseTypeOK
<1>2. faults' \in Nat
  BY FaultType DEF Blinded, Sees, TypeOK, ServerTypeOK
<1>3. UNCHANGED <<now, site, lease, pc, held, lost, fails, beaten,
                  mem, dirty, commit, stop, at, by, orders, feed, late>>
  BY DEF Blinded, Sees, server, files
<1>. QED  BY <1>1, <1>2, <1>3 DEF TypeOK, LeaseTypeOK, ServerTypeOK

LEMMA LeaseRemovedType ==
    ASSUME TypeOK, NEW f \in Files, LeaseRemoved(f)
    PROVE  TypeOK'
<1>1. lease' \in [Files -> LeaseFiles]
  BY DEF LeaseRemoved, TypeOK, LeaseTypeOK, LeaseFiles
<1>2. faults' \in Nat
  BY FaultType DEF LeaseRemoved
<1>3. UNCHANGED <<now, site, pc, held, lost, fails, beaten, blind,
                  mem, dirty, commit, stop, at, by, orders, feed, late>>
  BY DEF LeaseRemoved, server, files
<1>. QED  BY <1>1, <1>2, <1>3 DEF TypeOK, LeaseTypeOK, ServerTypeOK

LEMMA ClockType ==
    ASSUME TypeOK, Clock
    PROVE  TypeOK'
<1>1. LeaseTypeOK'
  BY DEF Clock, Tick, TypeOK, LeaseTypeOK
<1>2. UNCHANGED <<server, files, faults>>
  BY DEF Clock
<1>. QED  BY <1>1, <1>2, ServerUnchanged DEF TypeOK

-----------------------------------------------------------------------------
(* Who holds what.                                                         *)

\* Every step but the taking of a file is steady: nobody gains a file, and a
\* process only moves on.
Moves(from, to) ==
    \/ to \in {from, "gone"}
    \/ from = "out" /\ to = "acquire"
    \/ from = "backout" /\ to = "refused"
    \/ from = "load" /\ to = "up"

Steady ==
    /\ UNCHANGED <<site, held>>
    /\ \A p \in Procs : Moves(pc[p], pc'[p])
    /\ \A f \in Files : lease'[f] = Null \/ (lease[f] # Null /\ lease'[f].by = lease[f].by)
    /\ site.faults = 0 => faults' = faults /\ blind' \subseteq blind

LEMMA SteadyHeld ==
    ASSUME TypeOK, HeldInv, Steady
    PROVE  HeldInv'
<1>1. UNCHANGED <<site, held>>
  BY DEF Steady
<1>2. ASSUME NEW p \in Procs
      PROVE  ProtectedFiles(p)' = ProtectedFiles(p) /\ nextFile(p)' = nextFile(p)
  BY <1>1 DEF ProtectedFiles, nextFile
<1>3. ASSUME NEW p \in Procs PROVE HeldOk(p)'
  <2>1. HeldOk(p) /\ Moves(pc[p], pc'[p])
    BY DEF HeldInv, Steady
  <2>2. ProtectedFiles(p) # {}
    BY Protected
  <2>. QED  BY <1>1, <1>2, <2>1, <2>2 DEF HeldOk, Moves
<1>4. ASSUME NEW f \in Files PROVE HolderOk(f)'
  BY <1>1 DEF HeldInv, HolderOk, Steady
<1>5. ASSUME NEW p \in Procs, site.faults = 0 PROVE TurnedAway(p)'
  <2>1. TurnedAway(p) /\ Moves(pc[p], pc'[p])
    BY <1>5 DEF HeldInv, NoFaults, Steady
  <2>2. pc'[p] \in {"backout", "refused"} => pc[p] \in {"backout", "refused"}
    BY <2>1 DEF Moves
  <2>. QED  BY <1>1, <1>2, <2>1, <2>2 DEF TurnedAway
<1>6. NoFaults'
  BY <1>1, <1>5 DEF NoFaults, HeldInv, Steady
<1>. QED  BY <1>3, <1>4, <1>6 DEF HeldInv

LEMMA QuietSteady == TypeOK /\ Quiet => Steady
BY DEF Quiet, Steady, Moves

\* The steps of process p that move it or touch the lease files.
LoudActs(p) ==
    \/ Start(p) \/ Load(p) \/ Heartbeat(p) \/ Exit(p) \/ Killed(p)
    \/ BackOut(p) /\ UNCHANGED <<server, files, faults>>
    \/ \E f \in Files : Blinded(p, f) \/ Sees(p, f)

\* The steps of nobody.
OuterActs == (\E f \in Files : LeaseRemoved(f)) \/ Clock

LEMMA NextCases ==
    ASSUME Next
    PROVE  \/ \E p \in Procs : QuietActs(p) \/ LoudActs(p)
           \/ \E p \in Procs : Acquire(p) /\ UNCHANGED <<server, files, faults>>
           \/ OuterActs
BY DEF Next, QuietActs, LoudActs, OuterActs, AcquireLease

LEMMA LoudType ==
    ASSUME TypeOK, NEW p \in Procs, LoudActs(p)
    PROVE  TypeOK'
BY StartType, LoadType, BeatType, ExitType, KilledType, BackOutType, BlindType
   DEF LoudActs, Heartbeat

LEMMA LoudSteady ==
    ASSUME TypeOK, NEW p \in Procs, LoudActs(p)
    PROVE  Steady
<1>0. pc \in [Procs -> Places]
  BY DEF TypeOK, LeaseTypeOK
<1>1. CASE Start(p)
  <2>1. site.procs \in Seq(Procs)
    BY SitesAssumption DEF TypeOK, LeaseTypeOK
  <2>2. pc[p] = "out"
    <3>1. PICK i \in DOMAIN site.procs :
             site.procs[i] = p /\ \A j \in 1..i : (pc[site.procs[j]] = "out") = (j = i)
      BY <1>1 DEF Start
    <3>2. i \in 1..i
      BY <2>1, <3>1
    <3>. QED  BY <3>1, <3>2
  <2>3. pc' = [pc EXCEPT ![p] = "acquire"] /\ UNCHANGED <<site, held, lease, blind, faults>>
    BY <1>1 DEF Start
  <2>. QED  BY <1>0, <2>2, <2>3 DEF Steady, Moves
<1>2. CASE Load(p)
  <2>1. /\ pc[p] = "load" /\ (LoadEnds(p) \/ LoadSucceeds(p))
        /\ UNCHANGED faults \/ Fault
        /\ UNCHANGED <<site, lease, held, blind>>
    BY <1>2, LoadCases
  <2>2. \A q \in Procs : Moves(pc[q], pc'[q])
    BY <1>0, <2>1 DEF LoadEnds, LoadSucceeds, Moves
  <2>3. site.faults = 0 => faults' = faults
    BY <2>1, FaultType
  <2>. QED  BY <2>1, <2>2, <2>3 DEF Steady
<1>3. CASE Heartbeat(p)
  <2>1. Beat(p) /\ UNCHANGED faults
    BY <1>3 DEF Heartbeat
  <2>2. ASSUME NEW f \in Files
        PROVE  lease'[f] = Null \/ (lease[f] # Null /\ lease'[f].by = lease[f].by)
    <3>1. CASE BeatStamps(p, f)
      <4>1. lease[f] \in [by : Procs, at : Nat] /\ lease[f] # Null
        BY <3>1 DEF BeatStamps, Mine, TypeOK, LeaseTypeOK, LeaseFiles
      <4>2. lease'[f] = [lease[f] EXCEPT !.at = now]
        BY <2>1, <3>1 DEF Beat
      <4>. QED  BY <4>1, <4>2
    <3>2. CASE ~BeatStamps(p, f)
      BY <2>1, <3>2 DEF Beat
    <3>. QED  BY <3>1, <3>2
  <2>3. UNCHANGED <<site, held, pc, blind>>
    BY <2>1 DEF Beat
  <2>. QED  BY <2>1, <2>2, <2>3 DEF Steady, Moves
<1>4. CASE Exit(p)
  BY <1>0, <1>4, ReleasedType DEF Exit, Steady, Moves
<1>5. CASE Killed(p)
  BY <1>0, <1>5, FaultType DEF Killed, Steady, Moves
<1>6. CASE BackOut(p) /\ UNCHANGED <<server, files, faults>>
  BY <1>0, <1>6, ReleasedType DEF BackOut, Steady, Moves
<1>7. ASSUME NEW f \in Files, Blinded(p, f) \/ Sees(p, f) PROVE Steady
  BY <1>7, FaultType DEF Blinded, Sees, Steady, Moves
<1>. QED  BY <1>1, <1>2, <1>3, <1>4, <1>5, <1>6, <1>7 DEF LoudActs

LEMMA OuterSteady ==
    ASSUME TypeOK, OuterActs
    PROVE  TypeOK' /\ Steady
<1>1. ASSUME NEW f \in Files, LeaseRemoved(f) PROVE Steady
  <2>1. lease \in [Files -> LeaseFiles]
    BY DEF TypeOK, LeaseTypeOK
  <2>. QED  BY <1>1, <2>1, FaultType DEF LeaseRemoved, Steady, Moves
<1>2. ASSUME Clock PROVE Steady
  BY <1>2 DEF Clock, Tick, Steady, Moves
<1>3. TypeOK'
  BY LeaseRemovedType, ClockType DEF OuterActs
<1>4. Steady
  BY <1>1, <1>2 DEF OuterActs
<1>. QED  BY <1>3, <1>4

LEMMA AcquireHeld ==
    ASSUME TypeOK, HeldInv, NEW p \in Procs, Acquire(p), UNCHANGED faults
    PROVE  HeldInv'
<1>0. /\ pc[p] = "acquire" /\ HeldOk(p) /\ pc \in [Procs -> Places]
      /\ held \in [Procs -> SUBSET Files] /\ lease \in [Files -> LeaseFiles]
  BY DEF Acquire, HeldInv, TypeOK, LeaseTypeOK
<1>1. /\ held[p] # ProtectedFiles(p) /\ \A g \in held[p] : g < nextFile(p)
      /\ held[p] \subseteq ProtectedFiles(p)
  BY <1>0 DEF HeldOk
<1>2. PICK f : f = nextFile(p)
  OBVIOUS
<1>3. /\ f \in ProtectedFiles(p) /\ f \notin held[p] /\ f \in Files /\ f \in Nat
      /\ \A g \in ProtectedFiles(p) \ held[p] : f <= g
  BY <1>0, <1>1, <1>2, NextFileOk
<1>4. UNCHANGED <<site, blind>>
  BY DEF Acquire
<1>5. ASSUME NEW q \in Procs PROVE ProtectedFiles(q)' = ProtectedFiles(q)
  BY <1>4 DEF ProtectedFiles
<1>6. ASSUME NEW q \in Procs, held'[q] = held[q] PROVE nextFile(q)' = nextFile(q)
  BY <1>5, <1>6 DEF nextFile
<1>7. CASE <<p, f>> \in blind \/ isLiveLease(f, p)
  <2>1. pc' = [pc EXCEPT ![p] = "backout"] /\ UNCHANGED <<lease, held>>
    BY <1>2, <1>7 DEF Acquire
  <2>2. ASSUME NEW q \in Procs PROVE HeldOk(q)'
    <3>1. HeldOk(q) /\ held'[q] = held[q]
      BY <2>1 DEF HeldInv
    <3>2. CASE q = p
      BY <1>0, <1>1, <1>5, <1>6, <2>1, <3>1, <3>2 DEF HeldOk
    <3>3. CASE q # p
      BY <1>0, <1>5, <1>6, <2>1, <3>1, <3>3 DEF HeldOk
    <3>. QED  BY <3>2, <3>3
  <2>3. ASSUME NEW g \in Files PROVE HolderOk(g)'
    BY <2>1 DEF HeldInv, HolderOk
  <2>4. ASSUME site.faults = 0 PROVE \A q \in Procs : TurnedAway(q)'
    <3>1. blind = {} /\ \A q \in Procs : TurnedAway(q)
      BY <2>4 DEF HeldInv, NoFaults
    <3>2. lease[f] # Null /\ f \in held[lease[f].by]
      BY <1>3, <1>7, <3>1 DEF isLiveLease, HeldInv, HolderOk
    <3>3. lease[f].by \in Procs
      BY <1>0, <1>3, <3>2 DEF LeaseFiles
    <3>4. TurnedAway(p)'
      BY <1>2, <1>6, <2>1, <3>2, <3>3 DEF TurnedAway
    <3>5. ASSUME NEW q \in Procs, q # p PROVE TurnedAway(q)'
      BY <1>0, <1>6, <2>1, <3>1, <3>5 DEF TurnedAway
    <3>. QED  BY <3>4, <3>5
  <2>5. NoFaults'
    BY <1>4, <2>4 DEF HeldInv, NoFaults
  <2>. QED  BY <2>2, <2>3, <2>5 DEF HeldInv
<1>8. CASE ~(<<p, f>> \in blind \/ isLiveLease(f, p))
  <2>1. /\ lease' = [lease EXCEPT ![f] = [by |-> p, at |-> now]]
        /\ held' = [held EXCEPT ![p] = @ \cup {f}]
        /\ pc' = IF held'[p] = ProtectedFiles(p) THEN [pc EXCEPT ![p] = "load"] ELSE pc
    BY <1>2, <1>8 DEF Acquire
  <2>2. /\ held'[p] = held[p] \cup {f} /\ held'[p] \subseteq ProtectedFiles(p)
        /\ \A q \in Procs : q # p => held'[q] = held[q] /\ pc'[q] = pc[q]
        /\ \A q \in Procs : held[q] \subseteq held'[q]
    BY <1>0, <1>1, <1>3, <2>1
  <2>3. HeldOk(p)'
    <3>1. CASE held'[p] = ProtectedFiles(p)
      BY <1>0, <1>5, <2>1, <2>2, <3>1 DEF HeldOk
    <3>2. CASE held'[p] # ProtectedFiles(p)
      <4>. DEFINE T == ProtectedFiles(p) \ held'[p]
      <4>1. T # {} /\ T \subseteq Nat
        BY <2>2, <3>2, Protected, BookLeaseAssumption
      <4>2. nextFile(p)' = Min(T)
        BY <1>5 DEF nextFile
      <4>3. nextFile(p)' \in T
        <5>. HIDE DEF T
        <5>. QED  BY <4>1, <4>2, MinOf
      <4>4. nextFile(p)' \in Nat /\ f <= nextFile(p)' /\ nextFile(p)' # f
        BY <1>3, <2>2, <4>1, <4>3
      <4>5. ASSUME NEW g \in held'[p] PROVE g < nextFile(p)'
        <5>1. g \in Nat
          BY <2>2, Protected, BookLeaseAssumption
        <5>2. g = f \/ g < f
          BY <1>1, <1>2, <2>2
        <5>. HIDE DEF T
        <5>. QED  BY <1>3, <4>4, <5>1, <5>2
      <4>6. pc'[p] = "acquire"
        BY <1>0, <2>1, <3>2
      <4>. QED  BY <1>5, <2>2, <3>2, <4>5, <4>6 DEF HeldOk
    <3>. QED  BY <3>1, <3>2
  <2>4. ASSUME NEW q \in Procs, q # p PROVE HeldOk(q)'
    <3>1. HeldOk(q) /\ held'[q] = held[q] /\ pc'[q] = pc[q]
      BY <2>2, <2>4 DEF HeldInv
    <3>. QED  BY <1>5, <1>6, <3>1 DEF HeldOk
  <2>5. ASSUME NEW g \in Files PROVE HolderOk(g)'
    <3>1. CASE g = f
      BY <1>0, <1>3, <2>1, <2>2, <3>1 DEF HolderOk
    <3>2. CASE g # f
      <4>1. lease'[g] = lease[g] /\ HolderOk(g)
        BY <1>0, <2>1, <3>2 DEF HeldInv
      <4>2. lease[g] # Null => lease[g].by \in Procs
        BY <1>0 DEF LeaseFiles
      <4>. QED  BY <2>2, <4>1, <4>2 DEF HolderOk
    <3>. QED  BY <3>1, <3>2
  <2>6. ASSUME site.faults = 0, NEW q \in Procs PROVE TurnedAway(q)'
    <3>1. TurnedAway(q)
      BY <2>6 DEF HeldInv, NoFaults
    <3>2. pc'[q] \in {"backout", "refused"} => q # p /\ pc'[q] = pc[q] /\ held'[q] = held[q]
      BY <1>0, <2>1, <2>2
    <3>. QED  BY <1>6, <2>2, <3>1, <3>2 DEF TurnedAway
  <2>7. NoFaults'
    BY <1>4, <2>6 DEF HeldInv, NoFaults
  <2>. QED  BY <2>3, <2>4, <2>5, <2>7 DEF HeldInv
<1>. QED  BY <1>7, <1>8

-----------------------------------------------------------------------------
(* How old a lease can be.                                                 *)

\* Steps that stamp no lease and let no time pass.
Ageless ==
    /\ UNCHANGED <<now, site, fails, beaten>>
    /\ \A p \in Procs : lost[p] \subseteq lost'[p]
    /\ \A f \in Files : lease'[f] \in {Null, lease[f]}
    /\ \A p \in Procs : pc'[p] \in {pc[p], "gone", "refused"} \/ pc[p] = "out"

\* Who has not started has no lease.
LEMMA OutHasNone ==
    ASSUME TypeOK, HeldInv, NEW p \in Procs, NEW f \in Files, Mine(f, p)
    PROVE  f \in held[p] /\ pc[p] # "out"
BY DEF HeldInv, HolderOk, HeldOk, Mine

LEMMA AgelessAge ==
    ASSUME TypeOK, HeldInv, AgeInv, Ageless
    PROVE  AgeInv'
<1>1. UNCHANGED <<now, site, fails, beaten>>
  BY DEF Ageless
<1>2. ASSUME NEW p \in Procs, NEW f \in Files, ~site.stalls, Mine(f, p)' PROVE Fresh(p, f)'
  <2>1. lease'[f] = lease[f] /\ Mine(f, p)
    BY <1>2 DEF Mine, Ageless
  <2>2. Fresh(p, f) /\ pc[p] # "out"
    BY <1>2, <2>1, OutHasNone DEF AgeInv
  <2>3. pc'[p] \in {pc[p], "gone", "refused"} /\ lost[p] \subseteq lost'[p]
    BY <2>2 DEF Ageless
  <2>. QED  BY <1>1, <2>1, <2>2, <2>3 DEF Fresh
<1>3. ASSUME NEW p \in Procs, NEW f \in Files, f \notin lost'[p]
      PROVE  fails'[p][f] < failureBudget
  BY <1>1, <1>3 DEF AgeInv, Ageless
<1>4. failureBudget' = failureBudget
  BY DEF failureBudget
<1>. QED  BY <1>1, <1>2, <1>3, <1>4 DEF AgeInv

LEMMA QuietAge ==
    ASSUME TypeOK, HeldInv, AgeInv, Quiet
    PROVE  AgeInv'
<1>1. Ageless
  BY DEF Quiet, Ageless
<1>. QED  BY <1>1, AgelessAge

LEMMA LoadAge ==
    ASSUME TypeOK, HeldInv, AgeInv, NEW p \in Procs, Load(p)
    PROVE  AgeInv'
<1>1. /\ pc[p] = "load" /\ (LoadEnds(p) \/ LoadSucceeds(p)) /\ pc \in [Procs -> Places]
      /\ UNCHANGED <<now, site, lease, lost, fails>>
  BY LoadCases DEF TypeOK, LeaseTypeOK
<1>2. CASE LoadEnds(p)
  <2>1. Ageless
    BY <1>1, <1>2 DEF Ageless, LoadEnds
  <2>. QED  BY <2>1, AgelessAge
<1>3. CASE LoadSucceeds(p)
  <2>1. ASSUME NEW q \in Procs, NEW f \in Files, ~site.stalls, Mine(f, q)' PROVE Fresh(q, f)'
    <3>1. Fresh(q, f)
      BY <1>1, <2>1 DEF AgeInv, Mine
    <3>2. CASE q = p
      <4>1. lease[f].at = now /\ now \in Nat /\ fails[p][f] \in Nat
        BY <1>1, <3>1, <3>2 DEF Fresh, TypeOK, LeaseTypeOK
      <4>2. pc'[p] = "up" /\ p \in beaten'
        BY <1>1, <1>3 DEF LoadSucceeds
      <4>3. now - lease[f].at <= fails[p][f] + 0
        BY <4>1
      <4>. QED  BY <1>1, <3>2, <4>1, <4>2, <4>3 DEF Fresh
    <3>3. CASE q # p
      <4>1. pc'[q] = pc[q] /\ (q \in beaten' <=> q \in beaten)
        BY <1>1, <1>3, <3>3 DEF LoadSucceeds
      <4>. QED  BY <1>1, <3>1, <4>1 DEF Fresh
    <3>. QED  BY <3>2, <3>3
  <2>. QED  BY <1>1, <2>1 DEF AgeInv, failureBudget
<1>. QED  BY <1>1, <1>2, <1>3

LEMMA BeatAge ==
    ASSUME TypeOK, HeldInv, AgeInv, NEW p \in Procs, Beat(p)
    PROVE  AgeInv'
<1>0. /\ now \in Nat /\ lease \in [Files -> LeaseFiles] /\ fails \in [Procs -> [Files -> Nat]]
      /\ held \in [Procs -> SUBSET Files] /\ lost \in [Procs -> SUBSET Files]
      /\ failureBudget \in Nat /\ failureBudget >= 1
  BY BookLeaseAssumption DEF TypeOK, LeaseTypeOK, failureBudget
<1>1. pc[p] = "up" /\ p \notin beaten /\ beaten' = beaten \cup {p}
  BY DEF Beat
<1>2. UNCHANGED <<now, site, pc, held>>
  BY DEF Beat
<1>3. ASSUME NEW f \in Files
      PROVE  /\ fails'[p][f] = IF BeatFails(p, f) THEN fails[p][f] + 1
                               ELSE IF BeatStamps(p, f) THEN 0 ELSE fails[p][f]
             /\ f \in lost'[p] <=> \/ f \in lost[p] \/ BeatFindsLoss(p, f)
                                   \/ BeatFails(p, f) /\ fails'[p][f] >= failureBudget
             /\ lease'[f] = IF BeatStamps(p, f) THEN [lease[f] EXCEPT !.at = now] ELSE lease[f]
  BY <1>0 DEF Beat
<1>4. ASSUME NEW q \in Procs, q # p PROVE fails'[q] = fails[q] /\ lost'[q] = lost[q]
  BY <1>0, <1>4 DEF Beat
<1>5. ASSUME NEW f \in Files, BeatStamps(p, f)
      PROVE  lease'[f].by = p /\ lease'[f].at = now /\ Mine(f, p)
  <2>1. lease[f] \in [by : Procs, at : Nat] /\ lease[f].by = p
    BY <1>0, <1>5 DEF BeatStamps, Mine, LeaseFiles
  <2>. QED  BY <1>3, <1>5, <2>1 DEF BeatStamps
<1>6. ASSUME NEW q \in Procs, NEW f \in Files, ~site.stalls, Mine(f, q)' PROVE Fresh(q, f)'
  <2>1. Mine(f, q)
    <3>1. CASE BeatStamps(p, f)
      BY <1>5, <1>6, <3>1 DEF Mine
    <3>2. CASE ~BeatStamps(p, f)
      BY <1>3, <1>6, <3>2 DEF Mine
    <3>. QED  BY <3>1, <3>2
  <2>2. Fresh(q, f) /\ f \in held[q]
    BY <1>6, <2>1, OutHasNone DEF AgeInv
  <2>3. CASE q # p
    <3>1. ~BeatStamps(p, f)
      BY <2>1, <2>3 DEF BeatStamps, Mine
    <3>2. /\ lease'[f] = lease[f] /\ fails'[q] = fails[q] /\ lost'[q] = lost[q]
          /\ q \in beaten' <=> q \in beaten
      BY <1>1, <1>3, <1>4, <2>3, <3>1
    <3>. QED  BY <1>2, <2>2, <3>2 DEF Fresh
  <2>4. CASE q = p /\ f \notin lost'[p]
    <3>1. f \notin lost[p] /\ ~BeatFindsLoss(p, f)
      BY <1>3, <2>4
    <3>2. now - lease[f].at <= fails[p][f] + 1
      BY <1>1, <2>2, <2>4, <3>1 DEF Fresh
    <3>3. p \in beaten' /\ pc'[p] = "up" /\ fails[p][f] \in Nat
      BY <1>0, <1>1, <1>2
    <3>4. now' - lease'[f].at <= fails'[p][f] + 0
      <4>1. CASE BeatFails(p, f)
        <5>1. ~BeatStamps(p, f)
          BY <4>1 DEF BeatFails, BeatStamps
        <5>2. fails'[p][f] = fails[p][f] + 1 /\ lease'[f] = lease[f]
          BY <1>3, <4>1, <5>1
        <5>3. lease[f].at \in Int
          BY <1>0, <2>1 DEF Mine, LeaseFiles
        <5>. QED  BY <1>0, <1>2, <3>2, <3>3, <5>2, <5>3
      <4>2. CASE BeatStamps(p, f)
        <5>1. fails'[p][f] = 0 /\ lease'[f].at = now
          BY <1>3, <1>5, <4>2 DEF BeatFails, BeatStamps
        <5>. QED  BY <1>0, <1>2, <5>1
      <4>. QED  BY <2>1, <2>2, <2>4, <3>1, <4>1, <4>2
                DEF BeatFails, BeatStamps, BeatFindsLoss
    <3>. QED  BY <2>4, <3>3, <3>4 DEF Fresh
  <2>5. CASE q = p /\ f \in lost'[p]
    BY <1>1, <1>2, <2>5 DEF Fresh
  <2>. QED  BY <2>3, <2>4, <2>5
<1>7. ASSUME NEW q \in Procs, NEW f \in Files, f \notin lost'[q]
      PROVE  fails'[q][f] < failureBudget
  <2>1. CASE q # p
    BY <1>4, <1>7, <2>1 DEF AgeInv
  <2>2. CASE q = p
    <3>1. f \notin lost[p] /\ fails[p][f] < failureBudget /\ fails[p][f] \in Nat
      BY <1>0, <1>3, <1>7, <2>2 DEF AgeInv
    <3>2. PICK n \in Nat : n = fails[p][f]
      BY <3>1
    <3>3. CASE BeatFails(p, f)
      <4>1. fails'[p][f] = n + 1 /\ ~(fails'[p][f] >= failureBudget)
        BY <1>3, <1>7, <2>2, <3>2, <3>3
      <4>. QED  BY <1>0, <2>2, <4>1
    <3>4. CASE ~BeatFails(p, f)
      <4>1. fails'[p][f] = 0 \/ fails'[p][f] = n
        BY <1>3, <3>2, <3>4
      <4>. QED  BY <1>0, <2>2, <3>1, <3>2, <4>1
    <3>. QED  BY <3>3, <3>4
  <2>. QED  BY <2>1, <2>2
<1>8. failureBudget' = failureBudget
  BY DEF failureBudget
<1>. QED  BY <1>2, <1>6, <1>7, <1>8 DEF AgeInv

LEMMA AcquireAge ==
    ASSUME TypeOK, HeldInv, AgeInv, NEW p \in Procs, Acquire(p)
    PROVE  AgeInv'
<1>0. pc[p] = "acquire" /\ lease \in [Files -> LeaseFiles] /\ pc \in [Procs -> Places]
  BY DEF Acquire, TypeOK, LeaseTypeOK
<1>1. PICK f \in Files : f = nextFile(p)
  <2>1. HeldOk(p)
    BY DEF HeldInv
  <2>. QED  BY <1>0, <2>1, NextFileOk DEF HeldOk
<1>2. UNCHANGED <<now, site, lost, fails, beaten>>
  BY DEF Acquire
<1>3. ASSUME NEW q \in Procs, NEW g \in Files, ~site.stalls, Mine(g, q)' PROVE Fresh(q, g)'
  <2>1. CASE UNCHANGED <<lease, held>> /\ pc' = [pc EXCEPT ![p] = "backout"]
    <3>1. Fresh(q, g)
      BY <1>3, <2>1 DEF AgeInv, Mine
    <3>2. pc'[q] \in {pc[q], "backout"}
      BY <1>0, <2>1
    <3>. QED  BY <1>2, <2>1, <3>1, <3>2 DEF Fresh
  <2>2. CASE /\ lease' = [lease EXCEPT ![f] = [by |-> p, at |-> now]]
             /\ pc' = pc \/ pc' = [pc EXCEPT ![p] = "load"]
    <3>1. CASE g = f
      <4>1. q = p /\ lease'[g].at = now
        BY <1>0, <1>3, <2>2, <3>1 DEF Mine
      <4>2. pc'[p] \in {"acquire", "load"}
        BY <1>0, <2>2
      <4>. QED  BY <1>2, <4>1, <4>2 DEF Fresh
    <3>2. CASE g # f
      <4>1. lease'[g] = lease[g]
        BY <1>0, <2>2, <3>2
      <4>2. Fresh(q, g)
        BY <1>3, <4>1 DEF AgeInv, Mine
      <4>3. CASE q = p
        <5>1. pc'[p] \in {"acquire", "load"} /\ lease[g].at = now
          BY <1>0, <2>2, <4>2, <4>3 DEF Fresh
        <5>. QED  BY <1>2, <4>1, <4>3, <5>1 DEF Fresh
      <4>4. CASE q # p
        <5>1. pc'[q] = pc[q]
          BY <1>0, <2>2, <4>4
        <5>. QED  BY <1>2, <4>1, <4>2, <5>1 DEF Fresh
      <4>. QED  BY <4>3, <4>4
    <3>. QED  BY <3>1, <3>2
  <2>. QED  BY <1>1, <2>1, <2>2 DEF Acquire
<1>4. failureBudget' = failureBudget
  BY DEF failureBudget
<1>. QED  BY <1>2, <1>3, <1>4 DEF AgeInv

LEMMA ClockAge ==
    ASSUME TypeOK, HeldInv, AgeInv, Clock
    PROVE  AgeInv'
<1>1. /\ now' = now + 1 /\ beaten' = {} /\ (site.stalls \/ Prompt)
      /\ UNCHANGED <<site, lease, pc, lost, fails>>
  BY DEF Clock, Tick
<1>2. ASSUME NEW p \in Procs, NEW f \in Files, ~site.stalls, Mine(f, p)' PROVE Fresh(p, f)'
  <2>1. Mine(f, p) /\ Fresh(p, f)
    BY <1>1, <1>2 DEF Mine, AgeInv
  <2>2. pc[p] \notin {"acquire", "backout", "load"} /\ (pc[p] = "up" => p \in beaten)
    BY <1>1, <1>2 DEF Prompt
  <2>3. now \in Nat /\ lease[f].at \in Int /\ fails[p][f] \in Nat
    BY <2>1 DEF Mine, TypeOK, LeaseTypeOK, LeaseFiles
  <2>4. ASSUME pc[p] = "up", f \notin lost[p]
        PROVE  (now + 1) - lease[f].at <= fails[p][f] + 1
    <3>1. now - lease[f].at <= fails[p][f] + 0
      BY <2>1, <2>2, <2>4 DEF Fresh
    <3>. QED  BY <2>3, <3>1
  <2>. QED  BY <1>1, <2>2, <2>4 DEF Fresh
<1>3. failureBudget' = failureBudget
  BY DEF failureBudget
<1>. QED  BY <1>1, <1>2, <1>3 DEF AgeInv

LEMMA LoudAge ==
    ASSUME TypeOK, HeldInv, AgeInv, NEW p \in Procs, LoudActs(p)
    PROVE  AgeInv'
<1>0. pc \in [Procs -> Places]
  BY DEF TypeOK, LeaseTypeOK
<1>1. CASE Start(p)
  <2>1. Steady /\ pc' = [pc EXCEPT ![p] = "acquire"]
    BY <1>1, LoudSteady DEF Start
  <2>2. Ageless
    BY <1>0, <1>1, <2>1 DEF Start, Steady, Moves, Ageless
  <2>. QED  BY <2>2, AgelessAge
<1>2. CASE Load(p) BY <1>2, LoadAge
<1>3. CASE Heartbeat(p) BY <1>3, BeatAge DEF Heartbeat
<1>4. CASE Exit(p) \/ (BackOut(p) /\ UNCHANGED <<server, files, faults>>)
  <2>1. Ageless
    BY <1>0, <1>4, ReleasedType DEF Exit, BackOut, Ageless
  <2>. QED  BY <2>1, AgelessAge
<1>5. CASE Killed(p) \/ \E f \in Files : Blinded(p, f) \/ Sees(p, f)
  <2>1. Ageless
    BY <1>0, <1>5 DEF Killed, Blinded, Sees, Ageless
  <2>. QED  BY <2>1, AgelessAge
<1>. QED  BY <1>1, <1>2, <1>3, <1>4, <1>5 DEF LoudActs

LEMMA OuterAge ==
    ASSUME TypeOK, HeldInv, AgeInv, OuterActs
    PROVE  AgeInv'
<1>1. ASSUME NEW f \in Files, LeaseRemoved(f) PROVE AgeInv'
  <2>0. lease \in [Files -> LeaseFiles]
    BY DEF TypeOK, LeaseTypeOK
  <2>1. Ageless
    BY <1>1, <2>0 DEF LeaseRemoved, Ageless
  <2>. QED  BY <2>1, AgelessAge
<1>. QED  BY <1>1, ClockAge DEF OuterActs

-----------------------------------------------------------------------------
(* The lease.                                                              *)

LeaseInv == TypeOK /\ HeldInv /\ AgeInv

LEMMA InitLease == Init => LeaseInv
<1>. SUFFICES ASSUME Init PROVE LeaseInv
  OBVIOUS
<1>1. TypeOK
  BY DEF Init, LeaseInit, TypeOK, LeaseTypeOK, ServerTypeOK, LeaseFiles, Places, Phases, Answers
<1>2. HeldInv
  BY DEF Init, LeaseInit, HeldInv, HeldOk, HolderOk, NoFaults, TurnedAway
<1>3. AgeInv
  <2>1. failureBudget \in Nat /\ 0 < failureBudget
    BY BookLeaseAssumption DEF failureBudget
  <2>. QED  BY <2>1 DEF Init, LeaseInit, AgeInv, Mine
<1>. QED  BY <1>1, <1>2, <1>3 DEF LeaseInv

LEMMA NextLease ==
    ASSUME LeaseInv, [Next]_vars
    PROVE  LeaseInv'
<1>. USE DEF LeaseInv
<1>1. ASSUME NEW p \in Procs, QuietActs(p) PROVE LeaseInv'
  BY <1>1, QuietActsType, QuietSteady, SteadyHeld, QuietAge
<1>2. ASSUME NEW p \in Procs, LoudActs(p) PROVE LeaseInv'
  BY <1>2, LoudType, LoudSteady, SteadyHeld, LoudAge
<1>3. ASSUME NEW p \in Procs, Acquire(p), UNCHANGED <<server, files, faults>> PROVE LeaseInv'
  BY <1>3, AcquireType, AcquireHeld, AcquireAge
<1>4. CASE OuterActs
  BY <1>4, OuterSteady, SteadyHeld, OuterAge
<1>5. CASE UNCHANGED vars
  <2>1. UNCHANGED leaseVars /\ UNCHANGED <<server, files, faults>>
    BY <1>5 DEF vars
  <2>2. Quiet /\ TypeOK'
    BY <2>1, QuietUnchanged, QuietType, ServerUnchanged DEF TypeOK
  <2>. QED  BY <2>2, QuietSteady, SteadyHeld, QuietAge
<1>. QED  BY <1>1, <1>2, <1>3, <1>4, <1>5, NextCases

\* A lease file names the process that took it, a process takes its files in
\* one order, and a process that keeps time has not let a lease it believes
\* in grow older than the failures it counted (BookLease.acquire(), beat()).
THEOREM LeaseHolds == Spec => []LeaseInv
BY InitLease, NextLease, PTL DEF Spec

\* Starters that race for overlapping sets of files are not all turned away:
\* of those turned away, the one that wanted the greatest file was turned
\* away by a process that got past that file (BookLease.acquire() sorts).
THEOREM SomeoneAlwaysWins == Spec => []SomeoneWins
<1>1. ASSUME LeaseInv PROVE SomeoneWins
  <2>. SUFFICES ASSUME site.faults = 0, NEW p0 \in Procs, pc[p0] = "refused"
                PROVE  \E p \in Procs : pc[p] \notin {"out", "backout", "refused"}
    BY DEF SomeoneWins
  <2>. DEFINE Away == {p \in Procs : pc[p] \in {"backout", "refused"}}
              Wanted == {nextFile(p) : p \in Away}
  <2>1. /\ TypeOK /\ \A p \in Procs : HeldOk(p) /\ TurnedAway(p)
        /\ held \in [Procs -> SUBSET Files]
    BY <1>1 DEF LeaseInv, HeldInv, NoFaults, TypeOK, LeaseTypeOK
  <2>2. ASSUME NEW p \in Away PROVE nextFile(p) \in Files
    BY <2>1, NextFileOk DEF HeldOk
  <2>3. Wanted \subseteq Files /\ Wanted # {}
    BY <2>2
  <2>4. Wanted \subseteq Nat /\ IsFiniteSet(Wanted)
    BY <2>3, BookLeaseAssumption, FS_Subset
  <2>. HIDE DEF Wanted
  <2>5. PICK top \in Wanted : \A y \in Wanted : y <= top
    BY <2>3, <2>4, Greatest
  <2>6. PICK p \in Away : top = nextFile(p)
    BY <2>5 DEF Wanted
  <2>7. PICK q \in Procs : top \in held[q]
    BY <2>1, <2>6 DEF TurnedAway
  <2>8. q \notin Away
    <3>1. SUFFICES ASSUME q \in Away PROVE FALSE
      OBVIOUS
    <3>2. top < nextFile(q)
      BY <2>1, <2>7, <3>1 DEF HeldOk
    <3>3. nextFile(q) \in Wanted
      BY <3>1 DEF Wanted
    <3>4. nextFile(q) <= top /\ nextFile(q) \in Nat /\ top \in Nat
      BY <2>4, <2>5, <3>3
    <3>. QED  BY <3>2, <3>4
  <2>9. pc[q] # "out"
    BY <2>1, <2>7 DEF HeldOk
  <2>. QED  BY <2>8, <2>9
<1>. QED  BY <1>1, LeaseHolds, PTL

\* A book that keeps time is never taken by surprise: a starter in another
\* container takes a lease whose owner is up only after that owner gave it up
\* for lost (countFailedBeat(), isLiveLease()).
THEOREM NobodySurprised == Spec => NeverSurprised
<1>. DEFINE A == ~site.stalls =>
                   \A f \in Files :
                       lease[f] # Null /\ lease'[f] # Null /\ lease'[f].by # lease[f].by =>
                           pc[lease[f].by] # "up" \/ f \in lost[lease[f].by]
<1>1. ASSUME LeaseInv, [Next]_vars PROVE [A]_leaseVars
  <2>0. TypeOK /\ HeldInv /\ AgeInv
    BY <1>1 DEF LeaseInv
  <2>1. CASE Steady
    BY <2>1 DEF Steady
  <2>2. ASSUME NEW p \in Procs, Acquire(p) PROVE A
    <3>. SUFFICES ASSUME ~site.stalls, NEW f \in Files, lease[f] # Null, lease'[f] # Null,
                         lease'[f].by # lease[f].by, pc[lease[f].by] = "up",
                         f \notin lost[lease[f].by]
                  PROVE  FALSE
      OBVIOUS
    <3>0. lease \in [Files -> LeaseFiles] /\ now \in Nat /\ fails \in [Procs -> [Files -> Nat]]
      BY <2>0 DEF TypeOK, LeaseTypeOK
    <3>1. f = nextFile(p) /\ ~isLiveLease(f, p)
      BY <2>2, <3>0 DEF Acquire
    <3>2. PICK q \in Procs : q = lease[f].by
      BY <3>0 DEF LeaseFiles
    <3>3. Mine(f, q) /\ Running(q) /\ lease[f].at \in Nat
      BY <3>0, <3>2 DEF Mine, Running, LeaseFiles
    <3>4. ~(now - lease[f].at < TTL)
      BY <3>1, <3>2, <3>3 DEF isLiveLease
    <3>5. now - lease[f].at <= fails[q][f] + 1
      <4>1. Fresh(q, f)
        BY <2>0, <3>3 DEF AgeInv
      <4>2. now - lease[f].at <= fails[q][f] + (IF q \in beaten THEN 0 ELSE 1)
        BY <3>2, <4>1 DEF Fresh
      <4>. QED  BY <3>0, <3>3, <4>2
    <3>6. fails[q][f] < failureBudget /\ fails[q][f] \in Nat
      BY <2>0, <3>0, <3>2 DEF AgeInv
    <3>7. failureBudget < TTL /\ failureBudget \in Nat /\ TTL \in Nat
      BY BookLeaseAssumption DEF failureBudget
    <3>. QED  BY <3>0, <3>3, <3>4, <3>5, <3>6, <3>7
  <2>3. CASE UNCHANGED vars
    BY <2>3 DEF vars
  <2>. QED  BY <1>1, <2>0, <2>1, <2>2, <2>3, NextCases, QuietActsType, QuietSteady, LoudSteady,
               OuterSteady
<1>. QED  BY <1>1, LeaseHolds, PTL DEF Spec, NeverSurprised

-----------------------------------------------------------------------------
(* The lanes.                                                              *)

LEMMA CeilingBounds ==
    ASSUME NEW bound \in {Mutations, BodyReads}
    PROVE  /\ Ceiling(bound) \in Nat /\ bound.total \in Nat /\ Ceiling(bound) < bound.total
           /\ \A lane : lane # "maker" => laneCeiling(lane, bound) <= Ceiling(bound)
           /\ laneCeiling("maker", bound) = bound.total
<1>1. PICK t \in Nat, r \in Nat : t = bound.total /\ r = bound.reserved /\ 1 <= r /\ r <= t - 1
  BY BookServerAssumption
<1>2. r \div 2 \in Nat /\ r \div 2 < r
  BY <1>1
<1>3. PICK h \in Nat : h = r \div 2
  BY <1>2
<1>4. Ceiling(bound) = t - r + h /\ h < r
  BY <1>1, <1>2, <1>3 DEF Ceiling
<1>5. ASSUME NEW lane, lane # "maker" PROVE laneCeiling(lane, bound) \in {t - r + h, t - r}
  <2>1. CASE lane = "signed-create"
    BY <1>1, <1>3, <2>1 DEF laneCeiling
  <2>2. CASE lane # "signed-create"
    BY <1>1, <1>5, <2>2 DEF laneCeiling
  <2>. QED  BY <2>1, <2>2
<1>6. laneCeiling("maker", bound) = t
  BY <1>1 DEF laneCeiling
<1>7. t - r <= t - r + h /\ t - r + h < t /\ t - r + h \in Nat
  BY <1>1, <1>4
<1>. QED  BY <1>1, <1>4, <1>5, <1>6, <1>7

LEMMA Fewer ==
    ASSUME NEW S, NEW T, S \subseteq T, T \subseteq Requests
    PROVE  /\ IsFiniteSet(S) /\ Cardinality(S) \in Nat /\ Cardinality(T) \in Nat
           /\ Cardinality(S) <= Cardinality(T)
<1>1. IsFiniteSet(T)
  BY BookServerAssumption, FS_Subset
<1>2. IsFiniteSet(S) /\ Cardinality(S) <= Cardinality(T)
  BY <1>1, FS_Subset
<1>. QED  BY <1>1, <1>2, FS_CardinalityType

LEMMA OneMore ==
    ASSUME NEW S, S \subseteq Requests, NEW r \in Requests, NEW n \in Nat, Cardinality(S) < n
    PROVE  Cardinality(S \cup {r}) <= n
<1>1. IsFiniteSet(S) /\ Cardinality(S) \in Nat
  BY Fewer
<1>2. CASE r \in S
  <2>1. S \cup {r} = S BY <1>2
  <2>. QED  BY <1>1, <2>1
<1>3. CASE r \notin S
  <2>1. Cardinality(S \cup {r}) = Cardinality(S) + 1
    BY <1>1, <1>3, FS_AddElement
  <2>. QED  BY <1>1, <2>1
<1>. QED  BY <1>2, <1>3

LEMMA LaneSets ==
    ASSUME NEW p
    PROVE  /\ Reading(p) \subseteq With(p, "body") /\ With(p, "body") \subseteq Requests
           /\ Writing(p) \subseteq With(p, "commit") /\ With(p, "commit") \subseteq Requests
           /\ Reading(p) \subseteq Requests /\ Writing(p) \subseteq Requests
           /\ \A r : ReadingFrom(p, r) \subseteq Reading(p)
BY DEF Reading, Writing, ReadingFrom, With

\* A step that adds nothing to what a process reads or writes.
LEMMA LaneKept ==
    ASSUME NEW p \in Procs, LaneOk(p),
           Reading(p)' \subseteq Reading(p), Writing(p)' \subseteq Writing(p)
    PROVE  LaneOk(p)'
<1>1. ASSUME NEW r \in Requests PROVE ReadingFrom(p, r)' \subseteq ReadingFrom(p, r)
  BY DEF ReadingFrom
<1>2. /\ Cardinality(Reading(p)') <= Cardinality(Reading(p))
      /\ Cardinality(Writing(p)') <= Cardinality(Writing(p))
      /\ Cardinality(Reading(p)') \in Nat /\ Cardinality(Reading(p)) \in Nat
      /\ Cardinality(Writing(p)') \in Nat /\ Cardinality(Writing(p)) \in Nat
  BY LaneSets, Fewer
<1>3. ASSUME NEW r \in Requests
      PROVE  /\ Cardinality(ReadingFrom(p, r)') <= Cardinality(ReadingFrom(p, r))
             /\ Cardinality(ReadingFrom(p, r)') \in Nat /\ Cardinality(ReadingFrom(p, r)) \in Nat
  <2>1. ReadingFrom(p, r) \subseteq Requests
    BY LaneSets
  <2>. QED  BY <1>1, <2>1, Fewer
<1>4. Ceiling(BodyReads) \in Nat /\ Ceiling(Mutations) \in Nat /\ PerSource \in Nat
  BY CeilingBounds, BookServerAssumption
<1>5. /\ Ceiling(BodyReads)' = Ceiling(BodyReads) /\ Ceiling(Mutations)' = Ceiling(Mutations)
      /\ Requests' = Requests /\ PerSource' = PerSource
  BY DEF Ceiling
<1>6. /\ Cardinality(Reading(p)') <= Ceiling(BodyReads)
      /\ Cardinality(Writing(p)') <= Ceiling(Mutations)
  BY <1>2, <1>4 DEF LaneOk
<1>7. ASSUME NEW r \in Requests PROVE Cardinality(ReadingFrom(p, r)') <= PerSource
  BY <1>3, <1>4 DEF LaneOk
<1>. QED  BY <1>5, <1>6, <1>7 DEF LaneOk

\* Most steps only answer requests in flight, if any.
Answering(answer) ==
    /\ by' = by
    /\ \A r \in Requests :
          at'[r] = at[r] \/ (at[r] \in {"body", "commit"} /\ at'[r] = answer)

LEMMA AnsweringLane ==
    ASSUME LaneInv, NEW answer \in {"told", "refused"}, Answering(answer)
    PROVE  LaneInv'
<1>1. ASSUME NEW p \in Procs PROVE LaneOk(p)'
  <2>1. Reading(p)' \subseteq Reading(p) /\ Writing(p)' \subseteq Writing(p)
    BY DEF Answering, Reading, Writing, With
  <2>2. LaneOk(p)
    BY DEF LaneInv
  <2>. QED  BY <2>1, <2>2, LaneKept
<1>. QED  BY <1>1 DEF LaneInv

LEMMA ArriveLane ==
    ASSUME TypeOK, LaneInv, NEW p \in Procs, NEW r \in Requests, Arrive(p, r)
    PROVE  LaneInv'
<1>0. at \in [Requests -> Answers] /\ by \in [Requests -> Procs \cup {Null}]
  BY DEF TypeOK, ServerTypeOK
<1>1. /\ at[r] = "idle" /\ by' = [by EXCEPT ![r] = p]
      /\ at'[r] \in {"refused", "shed"} \/ (at'[r] = "body" /\ ReadsBody(p, r))
      /\ \A q \in Requests : q # r => at'[q] = at[q] /\ by'[q] = by[q]
  BY <1>0 DEF Arrive
<1>2. ASSUME NEW q \in Procs
      PROVE  /\ Writing(q)' \subseteq Writing(q)
             /\ Reading(q)' \subseteq Reading(q) \cup {r}
             /\ r \in Reading(q)' => q = p /\ r.lane # "maker" /\ ReadsBody(p, r)
  BY <1>0, <1>1 DEF Writing, Reading, With
<1>3. ASSUME NEW q \in Procs PROVE LaneOk(q)'
  <2>0. LaneOk(q)
    BY DEF LaneInv
  <2>1. CASE r \notin Reading(q)'
    BY <1>2, <2>0, <2>1, LaneKept
  <2>2. CASE r \in Reading(q)'
    <3>1. q = p /\ r.lane # "maker" /\ ReadsBody(p, r)
      BY <1>2, <2>2
    <3>2. /\ Ceiling(BodyReads) \in Nat /\ Ceiling(Mutations) \in Nat /\ PerSource \in Nat
          /\ laneCeiling(r.lane, BodyReads) <= Ceiling(BodyReads)
          /\ laneCeiling(r.lane, BodyReads) \in Int
      <4>1. laneCeiling(r.lane, BodyReads) \in Int
        BY BookServerAssumption DEF laneCeiling
      <4>. QED  BY <3>1, <4>1, CeilingBounds, BookServerAssumption
    <3>3. Cardinality(Reading(p)) < Ceiling(BodyReads)
      <4>1. Cardinality(With(p, "body")) < laneCeiling(r.lane, BodyReads)
        BY <3>1 DEF ReadsBody
      <4>2. /\ Cardinality(Reading(p)) <= Cardinality(With(p, "body"))
            /\ Cardinality(Reading(p)) \in Nat /\ Cardinality(With(p, "body")) \in Nat
        BY LaneSets, Fewer
      <4>. QED  BY <3>2, <4>1, <4>2
    <3>4. ASSUME NEW s \in Requests, s.src = r.src
          PROVE  Cardinality(ReadingFrom(p, s)) < PerSource
      <4>1. Cardinality({x \in With(p, "body") : x.src = r.src}) < PerSource
        BY <3>1 DEF ReadsBody, perSourceCeiling
      <4>2. ReadingFrom(p, s) \subseteq {x \in With(p, "body") : x.src = r.src}
        BY <3>4 DEF ReadingFrom, Reading
      <4>3. {x \in With(p, "body") : x.src = r.src} \subseteq Requests
        BY LaneSets
      <4>. QED  BY <3>2, <4>1, <4>2, <4>3, Fewer
    <3>5. Cardinality(Reading(p)') <= Ceiling(BodyReads)
      <4>1. Cardinality(Reading(p) \cup {r}) <= Ceiling(BodyReads)
        BY <3>2, <3>3, LaneSets, OneMore
      <4>2. /\ Cardinality(Reading(p)') <= Cardinality(Reading(p) \cup {r})
            /\ Cardinality(Reading(p)') \in Nat /\ Cardinality(Reading(p) \cup {r}) \in Nat
        <5>1. Reading(p)' \subseteq Reading(p) \cup {r} /\ Reading(p) \cup {r} \subseteq Requests
          BY <1>2, LaneSets
        <5>. QED  BY <5>1, Fewer
      <4>. QED  BY <3>2, <4>1, <4>2
    <3>6. ASSUME NEW s \in Requests PROVE Cardinality(ReadingFrom(p, s)') <= PerSource
      <4>0. ReadingFrom(p, s) \subseteq Requests
        BY LaneSets
      <4>1. CASE s.src = r.src
        <5>1. Cardinality(ReadingFrom(p, s) \cup {r}) <= PerSource
          BY <3>2, <3>4, <4>0, <4>1, OneMore
        <5>2. ReadingFrom(p, s)' \subseteq ReadingFrom(p, s) \cup {r}
          BY <1>2 DEF ReadingFrom
        <5>3. /\ Cardinality(ReadingFrom(p, s)') <= Cardinality(ReadingFrom(p, s) \cup {r})
              /\ Cardinality(ReadingFrom(p, s)') \in Nat
              /\ Cardinality(ReadingFrom(p, s) \cup {r}) \in Nat
          <6>1. ReadingFrom(p, s) \cup {r} \subseteq Requests
            BY <4>0
          <6>. QED  BY <5>2, <6>1, Fewer
        <5>. QED  BY <3>2, <5>1, <5>3
      <4>2. CASE s.src # r.src
        <5>1. ReadingFrom(p, s)' \subseteq ReadingFrom(p, s)
          BY <1>2, <4>2 DEF ReadingFrom
        <5>2. /\ Cardinality(ReadingFrom(p, s)') <= Cardinality(ReadingFrom(p, s))
              /\ Cardinality(ReadingFrom(p, s)') \in Nat
              /\ Cardinality(ReadingFrom(p, s)) \in Nat
          BY <4>0, <5>1, Fewer
        <5>3. Cardinality(ReadingFrom(p, s)) <= PerSource
          BY <2>0, <3>1 DEF LaneOk
        <5>. QED  BY <3>2, <5>2, <5>3
      <4>. QED  BY <4>1, <4>2
    <3>7. Cardinality(Writing(p)') <= Ceiling(Mutations)
      <4>1. /\ Cardinality(Writing(p)') <= Cardinality(Writing(p))
            /\ Cardinality(Writing(p)') \in Nat /\ Cardinality(Writing(p)) \in Nat
        BY <1>2, LaneSets, Fewer
      <4>2. Cardinality(Writing(p)) <= Ceiling(Mutations)
        BY <2>0, <3>1 DEF LaneOk
      <4>. QED  BY <3>2, <4>1, <4>2
    <3>8. Ceiling(BodyReads)' = Ceiling(BodyReads) /\ Ceiling(Mutations)' = Ceiling(Mutations)
      BY DEF Ceiling
    <3>. QED  BY <3>1, <3>5, <3>6, <3>7, <3>8 DEF LaneOk
  <2>. QED  BY <2>1, <2>2
<1>. QED  BY <1>3 DEF LaneInv

LEMMA BodyArrivesLane ==
    ASSUME TypeOK, LaneInv, NEW p \in Procs, NEW r \in Requests, BodyArrives(p, r)
    PROVE  LaneInv'
<1>0. at \in [Requests -> Answers] /\ by' = by
  BY DEF TypeOK, ServerTypeOK, BodyArrives
<1>1. /\ by[r] = p
      /\ at'[r] \in {"refused", "shed"} \/ (at'[r] = "commit" /\ HasSlot(p, r))
      /\ \A q \in Requests : q # r => at'[q] = at[q]
  BY <1>0 DEF BodyArrives, With
<1>2. ASSUME NEW q \in Procs
      PROVE  /\ Reading(q)' \subseteq Reading(q)
             /\ Writing(q)' \subseteq Writing(q) \cup {r}
             /\ r \in Writing(q)' => q = p /\ r.lane # "maker" /\ HasSlot(p, r)
  BY <1>0, <1>1 DEF Writing, Reading, With
<1>3. ASSUME NEW q \in Procs PROVE LaneOk(q)'
  <2>0. LaneOk(q)
    BY DEF LaneInv
  <2>1. CASE r \notin Writing(q)'
    BY <1>2, <2>0, <2>1, LaneKept
  <2>2. CASE r \in Writing(q)'
    <3>1. q = p /\ r.lane # "maker" /\ HasSlot(p, r)
      BY <1>2, <2>2
    <3>2. /\ Ceiling(BodyReads) \in Nat /\ Ceiling(Mutations) \in Nat /\ PerSource \in Nat
          /\ laneCeiling(r.lane, Mutations) <= Ceiling(Mutations)
          /\ laneCeiling(r.lane, Mutations) \in Int
      <4>1. laneCeiling(r.lane, Mutations) \in Int
        BY BookServerAssumption DEF laneCeiling
      <4>. QED  BY <3>1, <4>1, CeilingBounds, BookServerAssumption
    <3>3. Cardinality(Writing(p)) < Ceiling(Mutations)
      <4>. DEFINE slots == {x \in With(p, "commit") : x.lane # "peer"}
      <4>1. Cardinality(slots) < laneCeiling(r.lane, Mutations)
        BY <3>1 DEF HasSlot
      <4>2. Writing(p) \subseteq slots /\ slots \subseteq Requests
        BY LaneSets DEF Writing
      <4>. HIDE DEF slots
      <4>3. /\ Cardinality(Writing(p)) <= Cardinality(slots)
            /\ Cardinality(Writing(p)) \in Nat /\ Cardinality(slots) \in Nat
        BY <4>2, Fewer
      <4>. QED  BY <3>2, <4>1, <4>3
    <3>4. Cardinality(Writing(p)') <= Ceiling(Mutations)
      <4>1. Cardinality(Writing(p) \cup {r}) <= Ceiling(Mutations)
        BY <3>2, <3>3, LaneSets, OneMore
      <4>2. /\ Cardinality(Writing(p)') <= Cardinality(Writing(p) \cup {r})
            /\ Cardinality(Writing(p)') \in Nat /\ Cardinality(Writing(p) \cup {r}) \in Nat
        <5>1. Writing(p)' \subseteq Writing(p) \cup {r} /\ Writing(p) \cup {r} \subseteq Requests
          BY <1>2, LaneSets
        <5>. QED  BY <5>1, Fewer
      <4>. QED  BY <3>2, <4>1, <4>2
    <3>5. ASSUME NEW s \in Requests PROVE Cardinality(ReadingFrom(p, s)') <= PerSource
      <4>0. ReadingFrom(p, s) \subseteq Requests /\ ReadingFrom(p, s)' \subseteq ReadingFrom(p, s)
        BY <1>2, LaneSets DEF ReadingFrom
      <4>1. /\ Cardinality(ReadingFrom(p, s)') <= Cardinality(ReadingFrom(p, s))
            /\ Cardinality(ReadingFrom(p, s)') \in Nat
            /\ Cardinality(ReadingFrom(p, s)) \in Nat
        BY <4>0, Fewer
      <4>2. Cardinality(ReadingFrom(p, s)) <= PerSource
        BY <2>0, <3>1 DEF LaneOk
      <4>. QED  BY <3>2, <4>1, <4>2
    <3>6. Cardinality(Reading(p)') <= Ceiling(BodyReads)
      <4>1. /\ Cardinality(Reading(p)') <= Cardinality(Reading(p))
            /\ Cardinality(Reading(p)') \in Nat /\ Cardinality(Reading(p)) \in Nat
        BY <1>2, LaneSets, Fewer
      <4>2. Cardinality(Reading(p)) <= Ceiling(BodyReads)
        BY <2>0, <3>1 DEF LaneOk
      <4>. QED  BY <3>2, <4>1, <4>2
    <3>7. Ceiling(BodyReads)' = Ceiling(BodyReads) /\ Ceiling(Mutations)' = Ceiling(Mutations)
      BY DEF Ceiling
    <3>. QED  BY <3>1, <3>4, <3>5, <3>6, <3>7 DEF LaneOk
  <2>. QED  BY <2>1, <2>2
<1>. QED  BY <1>3 DEF LaneInv

LEMMA PeerApplyLane ==
    ASSUME TypeOK, LaneInv, NEW p \in Procs, NEW r \in Requests, PeerApply(p, r)
    PROVE  LaneInv'
<1>0. /\ at \in [Requests -> Answers] /\ by \in [Requests -> Procs \cup {Null}]
      /\ at[r] = "idle" /\ r.lane = "peer"
  BY DEF TypeOK, ServerTypeOK, PeerApply
<1>1. CASE UNCHANGED <<by, at>>
  <2>1. Answering("refused")
    BY <1>1 DEF Answering
  <2>. QED  BY <2>1, AnsweringLane
<1>2. CASE /\ by' = [by EXCEPT ![r] = p]
           /\ at' = [at EXCEPT ![r] = IF commit[p] = "failed" THEN "refused" ELSE "commit"]
  <2>1. ASSUME NEW q \in Procs
        PROVE  Reading(q)' \subseteq Reading(q) /\ Writing(q)' \subseteq Writing(q)
    BY <1>0, <1>2 DEF Reading, Writing, With
  <2>2. ASSUME NEW q \in Procs PROVE LaneOk(q)'
    BY <2>1, LaneKept DEF LaneInv
  <2>. QED  BY <2>2 DEF LaneInv
<1>. QED  BY <1>1, <1>2 DEF PeerApply

LEMMA Unasked == UNCHANGED <<at, by>> => Answering("refused")
BY DEF Answering

LEMMA AnsweredAnswering ==
    ASSUME NEW p, NEW rs, rs \subseteq With(p, "body") \cup With(p, "commit"), NEW answer,
           at' = Answered(rs, answer), by' = by
    PROVE  Answering(answer)
BY DEF Answered, Answering, With

\* The quiet steps that only answer.
Refuses(p) ==
    \/ Read(p) \/ BeginCommit(p) \/ WriteOrders(p) \/ FenceFeed(p) \/ EndSweep(p)
    \/ Notified(p) \/ Signal(p) \/ Deadline(p)
    \/ \E r \in Requests : BodyFails(p, r)

LEMMA QuietAnswering ==
    ASSUME TypeOK, NEW p \in Procs, Refuses(p)
    PROVE  Answering("refused")
<1>1. CASE Read(p) \/ EndSweep(p) \/ Notified(p) \/ Signal(p)
  BY <1>1, Unasked DEF Read, EndSweep, Notified, Signal
<1>2. ASSUME NEW from, NEW to, Fence(p, from, to) PROVE Answering("refused")
  BY <1>2, Unasked, AnsweredAnswering DEF Fence, failCommit
<1>3. CASE BeginCommit(p) \/ FenceFeed(p)
  BY <1>2, <1>3 DEF BeginCommit, FenceFeed
<1>4. CASE WriteOrders(p)
  BY <1>4, Unasked, AnsweredAnswering DEF WriteOrders, failCommit
<1>5. CASE Deadline(p)
  BY <1>5, AnsweredAnswering DEF Deadline
<1>6. ASSUME NEW r \in Requests, BodyFails(p, r) PROVE Answering("refused")
  BY <1>6 DEF BodyFails, With, Answering, TypeOK, ServerTypeOK
<1>. QED  BY <1>1, <1>3, <1>4, <1>5, <1>6 DEF Refuses

LEMMA AppendAnswering ==
    ASSUME NEW p \in Procs, AppendFeed(p)
    PROVE  Answering("told") \/ Answering("refused")
BY AnsweredAnswering DEF AppendFeed, failCommit

LEMMA LoudAnswering ==
    ASSUME NEW p \in Procs, LoudActs(p)
    PROVE  Answering("refused")
<1>1. CASE Killed(p)
  BY <1>1, AnsweredAnswering DEF Killed
<1>2. CASE Load(p)
  BY <1>2, LoadCases, Unasked
<1>3. CASE ~Killed(p) /\ ~Load(p)
  BY <1>3, Unasked DEF LoudActs, Start, Heartbeat, Exit, Blinded, Sees, server
<1>. QED  BY <1>1, <1>2, <1>3

LEMMA OuterAnswering == OuterActs => Answering("refused")
BY Unasked DEF OuterActs, LeaseRemoved, Clock, server

LEMMA QuietCases ==
    ASSUME NEW p, QuietActs(p)
    PROVE  \/ Refuses(p) \/ AppendFeed(p)
           \/ \E r \in Requests : Arrive(p, r) \/ BodyArrives(p, r) \/ PeerApply(p, r)
BY DEF QuietActs, Refuses, Commits

LEMMA NextLane ==
    ASSUME LeaseInv, LaneInv, [Next]_vars
    PROVE  LaneInv'
<1>0. TypeOK
  BY DEF LeaseInv
<1>1. ASSUME NEW p \in Procs, QuietActs(p) PROVE LaneInv'
  BY <1>0, <1>1, QuietCases, QuietAnswering, AppendAnswering, AnsweringLane, ArriveLane,
     BodyArrivesLane, PeerApplyLane
<1>2. ASSUME NEW p \in Procs, LoudActs(p) PROVE LaneInv'
  BY <1>2, LoudAnswering, AnsweringLane
<1>3. CASE UNCHANGED <<server, files, faults>>
  BY <1>3, Unasked, AnsweringLane DEF server
<1>4. CASE OuterActs
  BY <1>4, OuterAnswering, AnsweringLane
<1>5. CASE UNCHANGED vars
  BY <1>3, <1>5 DEF vars
<1>. QED  BY <1>1, <1>2, <1>3, <1>4, <1>5, NextCases

LEMMA InitLane == Init => LaneInv
<1>. SUFFICES ASSUME Init, NEW p \in Procs PROVE LaneOk(p)
  BY DEF LaneInv
<1>1. Reading(p) = {} /\ Writing(p) = {} /\ \A r \in Requests : ReadingFrom(p, r) = {}
  BY DEF Init, Reading, Writing, ReadingFrom, With
<1>2. Cardinality({}) = 0
  BY FS_EmptySet
<1>3. Ceiling(BodyReads) \in Nat /\ Ceiling(Mutations) \in Nat /\ PerSource \in Nat
  BY CeilingBounds, BookServerAssumption
<1>. QED  BY <1>1, <1>2, <1>3 DEF LaneOk

\* However many takers and creates are in flight, a maker's authenticated
\* write is shed only while another one of the makers' is in flight: the
\* other lanes stay below the bounds, the signed creates included
\* (InflightWriteBound, bodyReadLimiter).
THEOREM MakersServed == Spec => MakerServed
<1>. DEFINE A == \A r \in Requests :
                   r.lane = "maker" /\ at[r] # "shed" /\ at'[r] = "shed" =>
                       \E q \in Requests \ {r} :
                           q.lane = "maker" /\ by[q] = by'[r] /\ at[q] \in {"body", "commit"}
<1>1. ASSUME LeaseInv, LaneInv, [Next]_vars PROVE [A]_vars
  <2>0. TypeOK /\ at \in [Requests -> Answers] /\ by \in [Requests -> Procs \cup {Null}]
    BY <1>1 DEF LeaseInv, TypeOK, ServerTypeOK
  <2>. SUFFICES ASSUME NEW r \in Requests, r.lane = "maker", at[r] # "shed", at'[r] = "shed", Next,
                       \A q \in Requests \ {r} :
                           ~(q.lane = "maker" /\ by[q] = by'[r] /\ at[q] \in {"body", "commit"})
                PROVE  FALSE
    BY <1>1
  <2>1. ASSUME NEW p \in Procs, Arrive(p, r) PROVE FALSE
    <3>1. by'[r] = p /\ at[r] = "idle" /\ ~ReadsBody(p, r)
      BY <2>0, <2>1 DEF Arrive
    <3>2. With(p, "body") = Reading(p)
      BY <3>1 DEF Reading, With
    <3>3. {q \in With(p, "body") : q.src = r.src} = ReadingFrom(p, r)
      BY <3>2 DEF ReadingFrom
    <3>4. LaneOk(p)
      BY <1>1 DEF LaneInv
    <3>5. Cardinality(Reading(p)) \in Nat /\ Cardinality(ReadingFrom(p, r)) \in Nat
      <4>1. ReadingFrom(p, r) \subseteq Requests
        BY LaneSets
      <4>. QED  BY <4>1, LaneSets, Fewer
    <3>6. Cardinality(Reading(p)) < laneCeiling("maker", BodyReads)
      BY <3>4, <3>5, CeilingBounds DEF LaneOk
    <3>7. Cardinality(ReadingFrom(p, r)) < PerSourceMaker
      BY <3>4, <3>5, BookServerAssumption DEF LaneOk
    <3>. QED  BY <3>1, <3>2, <3>3, <3>6, <3>7 DEF ReadsBody, perSourceCeiling
  <2>2. ASSUME NEW p \in Procs, BodyArrives(p, r) PROVE FALSE
    <3>1. by'[r] = p /\ at[r] = "body" /\ ~HasSlot(p, r)
      BY <2>0, <2>2 DEF BodyArrives, With
    <3>2. {q \in With(p, "commit") : q.lane # "peer"} = Writing(p)
      BY <3>1 DEF Writing, With
    <3>3. Cardinality(Writing(p)) \in Nat /\ LaneOk(p)
      BY <1>1, LaneSets, Fewer DEF LaneInv
    <3>4. Cardinality(Writing(p)) < laneCeiling("maker", Mutations)
      BY <3>3, CeilingBounds DEF LaneOk
    <3>. QED  BY <3>1, <3>2, <3>4 DEF HasSlot
  <2>3. ASSUME NEW p \in Procs, NEW s \in Requests, s # r,
               Arrive(p, s) \/ BodyArrives(p, s) \/ PeerApply(p, s)
        PROVE  FALSE
    BY <2>0, <2>3 DEF Arrive, BodyArrives, PeerApply
  <2>4. ASSUME NEW p \in Procs, PeerApply(p, r) PROVE FALSE
    BY <2>4 DEF PeerApply
  <2>5. ASSUME Answering("told") \/ Answering("refused") PROVE FALSE
    BY <2>5 DEF Answering
  <2>6. ASSUME NEW p \in Procs, QuietActs(p) PROVE FALSE
    BY <2>0, <2>1, <2>2, <2>3, <2>4, <2>5, <2>6, QuietCases, QuietAnswering, AppendAnswering
  <2>7. ASSUME UNCHANGED <<server, files, faults>> PROVE FALSE
    BY <2>5, <2>7, Unasked DEF server
  <2>. QED  BY <2>5, <2>6, <2>7, NextCases, LoudAnswering, OuterAnswering
<1>. QED  BY <1>1, LeaseHolds, InitLane, NextLane, PTL DEF Spec, MakerServed

-----------------------------------------------------------------------------
(* Receipts.                                                               *)

Undisturbed == \A p \in Procs : late[p] = 0

\* Two processes that own their files are one: their sets of files overlap.
LEMMA OneOwner ==
    ASSUME TypeOK, HeldInv, NEW p \in Procs, NEW q \in Procs,
           pc[p] = "up", pc[q] = "up", ~Displaced(p), ~Displaced(q)
    PROVE  p = q
<1>1. held[p] = ProtectedFiles(p) /\ held[q] = ProtectedFiles(q)
  BY DEF HeldInv, HeldOk
<1>2. PICK f \in Files : f \in held[p] /\ f \in held[q]
  BY <1>1, Protected
<1>. QED  BY <1>2 DEF Displaced, Mine

\* Who was displaced stays so.
StayDisplaced ==
    \A p \in Procs : pc'[p] = "up" /\ Displaced(p) => Displaced(p)'

LEMMA SteadyDisplaced == TypeOK /\ Steady => StayDisplaced
<1>1. SUFFICES ASSUME TypeOK, Steady, NEW p \in Procs, NEW f \in held[p], ~Mine(f, p)
               PROVE  f \in held'[p] /\ ~Mine(f, p)'
  BY DEF StayDisplaced, Displaced
<1>2. f \in Files /\ held' = held
  BY <1>1 DEF TypeOK, LeaseTypeOK, Steady
<1>. QED  BY <1>1, <1>2 DEF Steady, Mine

LEMMA AcquireDisplaced ==
    ASSUME TypeOK, HeldInv, NEW p \in Procs, Acquire(p)
    PROVE  StayDisplaced
<1>0. pc[p] = "acquire" /\ lease \in [Files -> LeaseFiles] /\ held \in [Procs -> SUBSET Files]
      /\ pc \in [Procs -> Places]
  BY DEF Acquire, TypeOK, LeaseTypeOK
<1>1. SUFFICES ASSUME NEW q \in Procs, pc'[q] = "up", NEW f \in held[q], ~Mine(f, q)
               PROVE  f \in held'[q] /\ ~Mine(f, q)'
  BY DEF StayDisplaced, Displaced
<1>2. q # p
  BY <1>0, <1>1 DEF Acquire
<1>3. held'[q] = held[q]
  BY <1>0, <1>2 DEF Acquire
<1>4. lease'[f] = lease[f] \/ lease'[f].by = p
  <2>1. f \in Files
    BY <1>0
  <2>2. CASE lease' = lease BY <2>2
  <2>3. CASE lease' = [lease EXCEPT ![nextFile(p)] = [by |-> p, at |-> now]]
    BY <1>0, <2>1, <2>3
  <2>. QED  BY <2>2, <2>3 DEF Acquire
<1>. QED  BY <1>1, <1>2, <1>3, <1>4 DEF Mine

\* A step that writes neither file, answers with no receipt, and grants no
\* process a memory it must read first.
Receiptless ==
    /\ StayDisplaced
    /\ \A r \in Requests : at'[r] # "idle" => by'[r] \in Procs /\ pc'[by'[r]] \in {"up", "gone"}
    /\ \A p \in Procs : pc'[p] = "up" =>
          /\ pc[p] = "up" /\ mem[p] \subseteq mem'[p]
          /\ With(p, "commit")' \subseteq mem'[p]
          /\ commit'[p] \in {"written", "appending"} =>
                /\ commit[p] \in {"written", "appending"}
                /\ With(p, "commit")' \subseteq With(p, "commit")
    /\ orders' = orders /\ feed \subseteq feed'
    /\ \A p \in Procs : late'[p] = 0 => late[p] = 0
    /\ Told' \subseteq Told

LEMMA ReceiptlessKeeps ==
    ASSUME ReceiptInv, Receiptless
    PROVE  ReceiptInv'
<1>1. ASSUME Undisturbed' PROVE Told' \subseteq orders' \cap feed'
  <2>1. Undisturbed
    BY <1>1 DEF Undisturbed, Receiptless
  <2>. QED  BY <2>1 DEF ReceiptInv, Receiptless, Undisturbed
<1>2. ASSUME Undisturbed', NEW p \in Procs PROVE UpToDate(p)'
  <2>1. Undisturbed
    BY <1>2 DEF Undisturbed, Receiptless
  <2>2. UpToDate(p)
    BY <2>1 DEF ReceiptInv, Undisturbed
  <2>3. SUFFICES ASSUME pc'[p] = "up", ~Displaced(p)'
                 PROVE  /\ orders' \subseteq mem'[p]
                        /\ commit'[p] \in {"written", "appending"} => With(p, "commit")' \subseteq orders'
    BY DEF UpToDate
  <2>4. pc[p] = "up" /\ ~Displaced(p) /\ mem[p] \subseteq mem'[p] /\ orders' = orders
    BY <2>3 DEF Receiptless, StayDisplaced
  <2>5. orders' \subseteq mem'[p]
    BY <2>2, <2>4 DEF UpToDate
  <2>6. ASSUME commit'[p] \in {"written", "appending"} PROVE With(p, "commit")' \subseteq orders'
    BY <2>2, <2>3, <2>4, <2>6 DEF UpToDate, Receiptless
  <2>. QED  BY <2>5, <2>6
<1>. QED  BY <1>1, <1>2 DEF ReceiptInv, Receiptless, Undisturbed

\* Answers leave the rest of what is in flight where it was.
LEMMA AnsweringCommit ==
    ASSUME NEW answer \in {"told", "refused"}, Answering(answer), NEW p
    PROVE  With(p, "commit")' \subseteq With(p, "commit")
BY DEF Answering, With

\* A process that has requests only moves on to its end.
KeepsUp == \A p \in Procs : pc[p] \in {"up", "gone"} => pc'[p] \in {"up", "gone"}

LEMMA AnsweringOwned ==
    ASSUME ReceiptInv, NEW answer, Answering(answer), KeepsUp
    PROVE  \A r \in Requests : at'[r] # "idle" => by'[r] \in Procs /\ pc'[by'[r]] \in {"up", "gone"}
BY DEF ReceiptInv, Answering, KeepsUp

LEMMA SteadyKeepsUp == Steady => KeepsUp
BY DEF Steady, KeepsUp, Moves

LEMMA AcquireKeepsUp ==
    ASSUME TypeOK, NEW p \in Procs, Acquire(p)
    PROVE  KeepsUp /\ \A q \in Procs : pc'[q] = "up" => pc[q] = "up"
BY DEF Acquire, KeepsUp, TypeOK, LeaseTypeOK

\* What such a step does to the two files and to the commit.
Refusal ==
    /\ Answering("refused") /\ KeepsUp /\ StayDisplaced
    /\ \A p \in Procs : pc'[p] = "up" => pc[p] = "up"
    /\ UNCHANGED <<mem, orders>> /\ feed \subseteq feed'
    /\ \A p \in Procs : late'[p] = 0 => late[p] = 0
    /\ \A p \in Procs : commit'[p] \in {"written", "appending"} =>
                            commit[p] \in {"written", "appending"}

LEMMA RefusalReceiptless ==
    ASSUME ReceiptInv, Refusal
    PROVE  Receiptless
<1>1. \A p \in Procs : With(p, "commit")' \subseteq With(p, "commit")
  BY AnsweringCommit DEF Refusal
<1>2. Told' \subseteq Told
  BY DEF Refusal, Answering, Told
<1>3. \A r \in Requests : at'[r] # "idle" => by'[r] \in Procs /\ pc'[by'[r]] \in {"up", "gone"}
  BY AnsweringOwned DEF Refusal
<1>4. ASSUME NEW p \in Procs, pc'[p] = "up"
      PROVE  /\ pc[p] = "up" /\ mem[p] \subseteq mem'[p]
             /\ With(p, "commit")' \subseteq mem'[p]
             /\ commit'[p] \in {"written", "appending"} => commit[p] \in {"written", "appending"}
  BY <1>1, <1>4 DEF Refusal, ReceiptInv
<1>. QED  BY <1>1, <1>2, <1>3, <1>4 DEF Refusal, Receiptless

\* The processes stay where they are through a quiet step.
LEMMA QuietStays ==
    ASSUME TypeOK, Quiet
    PROVE  KeepsUp /\ StayDisplaced /\ pc' = pc
<1>1. Steady
  BY QuietSteady
<1>. QED  BY <1>1, SteadyKeepsUp, SteadyDisplaced DEF Quiet

LEMMA RefusesRefusal ==
    ASSUME TypeOK, NEW p \in Procs, Refuses(p), ~WriteOrders(p)
    PROVE  Refusal
<1>1. Answering("refused")
  BY QuietAnswering
<1>2. Quiet
  BY QuietActsType DEF Refuses, QuietActs, Commits
<1>3. commit \in [Procs -> Phases]
  BY DEF TypeOK, ServerTypeOK
<1>4. ASSUME NEW from, NEW to, Fence(p, from, to), to = "fenced" \/ from = "written"
      PROVE  /\ UNCHANGED <<mem, orders, feed, late>>
             /\ \A q \in Procs : commit'[q] \in {"written", "appending"} =>
                                     commit[q] \in {"written", "appending"}
  BY <1>3, <1>4 DEF Fence, failCommit, files
<1>5. CASE BeginCommit(p) \/ FenceFeed(p)
  <2>1. /\ UNCHANGED <<mem, orders, feed, late>>
        /\ \A q \in Procs : commit'[q] \in {"written", "appending"} =>
                                commit[q] \in {"written", "appending"}
    BY <1>4, <1>5 DEF BeginCommit, FenceFeed
  <2>. QED  BY <1>1, <1>2, <2>1, QuietStays DEF Refusal
<1>6. CASE EndSweep(p)
  <2>1. UNCHANGED <<mem, orders, feed, late>> /\ commit' = [commit EXCEPT ![p] = "idle"]
    BY <1>6 DEF EndSweep, files
  <2>. QED  BY <1>1, <1>2, <1>3, <2>1, QuietStays DEF Refusal
<1>7. CASE \/ Read(p) \/ Notified(p) \/ Signal(p) \/ Deadline(p)
           \/ \E r \in Requests : BodyFails(p, r)
  <2>1. UNCHANGED <<mem, orders, feed, late, commit>>
    BY <1>7 DEF Read, Notified, Signal, Deadline, BodyFails, files
  <2>. QED  BY <1>1, <1>2, <2>1, QuietStays DEF Refusal
<1>. QED  BY <1>5, <1>6, <1>7 DEF Refuses

LEMMA LoudRefusal ==
    ASSUME TypeOK, NEW p \in Procs, LoudActs(p), ~LoadSucceeds(p) \/ ~Load(p)
    PROVE  Refusal
<1>1. Answering("refused") /\ KeepsUp /\ StayDisplaced
  BY LoudAnswering, LoudSteady, SteadyKeepsUp, SteadyDisplaced
<1>2. CASE Load(p)
  <2>1. LoadEnds(p) /\ UNCHANGED <<orders, late, commit>> /\ pc \in [Procs -> Places]
    BY <1>2, LoadCases DEF TypeOK, LeaseTypeOK
  <2>. QED  BY <1>1, <2>1 DEF Refusal, LoadEnds
<1>3. CASE ~Load(p)
  <2>0. pc \in [Procs -> Places]
    BY DEF TypeOK, LeaseTypeOK
  <2>1. UNCHANGED <<mem, orders, feed, late, commit>>
    BY <1>3 DEF LoudActs, Start, Heartbeat, Exit, Killed, Blinded, Sees, server, files
  <2>2. \A q \in Procs : pc'[q] = "up" => pc[q] = "up"
    BY <1>3, <2>0 DEF LoudActs, Start, Heartbeat, Beat, Exit, Killed, BackOut, Blinded, Sees
  <2>. QED  BY <1>1, <2>1, <2>2 DEF Refusal
<1>. QED  BY <1>2, <1>3

LEMMA OuterRefusal ==
    ASSUME TypeOK, OuterActs
    PROVE  Refusal
<1>1. Answering("refused") /\ KeepsUp /\ StayDisplaced
  BY OuterAnswering, OuterSteady, SteadyKeepsUp, SteadyDisplaced
<1>2. UNCHANGED <<pc, mem, orders, feed, late, commit>>
  BY DEF OuterActs, LeaseRemoved, Clock, Tick, server, files
<1>. QED  BY <1>1, <1>2 DEF Refusal

LEMMA AcquireRefusal ==
    ASSUME TypeOK, HeldInv, NEW p \in Procs, Acquire(p), UNCHANGED <<server, files, faults>>
    PROVE  Refusal
<1>1. UNCHANGED <<at, by, mem, orders, feed, late, commit>>
  BY DEF server, files
<1>. QED  BY <1>1, Unasked, AcquireDisplaced, AcquireKeepsUp DEF Refusal

\* A request is taken in, or its mutation reaches memory.
LEMMA ComingReceiptless ==
    ASSUME TypeOK, ReceiptInv, NEW p \in Procs, NEW r \in Requests,
           Arrive(p, r) \/ BodyArrives(p, r) \/ PeerApply(p, r)
    PROVE  Receiptless
<1>0. /\ at \in [Requests -> Answers] /\ by \in [Requests -> Procs \cup {Null}]
      /\ mem \in [Procs -> SUBSET Requests]
  BY DEF TypeOK, ServerTypeOK
<1>1. Quiet
  BY ArriveType, BodyArrivesType, PeerApplyType
<1>2. /\ pc[p] = "up" /\ commit[p] \in {"idle", "failed"}
      /\ UNCHANGED <<commit, orders, feed, late>>
  BY DEF Arrive, BodyArrives, PeerApply, Free, files
<1>3. \A q \in Requests : q # r => at'[q] = at[q] /\ by'[q] = by[q]
  BY <1>0 DEF Arrive, BodyArrives, PeerApply
<1>4. at'[r] # "told" /\ (at'[r] # "idle" => by'[r] = p)
  BY <1>0 DEF Arrive, BodyArrives, PeerApply, With
<1>5. \A q \in Procs : mem[q] \subseteq mem'[q]
  BY <1>0 DEF Arrive, BodyArrives, PeerApply
<1>6. at'[r] = "commit" => r \in mem'[p]
  BY <1>0 DEF Arrive, BodyArrives, PeerApply
<1>7. ASSUME NEW q \in Procs, pc[q] = "up"
      PROVE  /\ With(q, "commit")' \subseteq mem'[q]
             /\ q # p => With(q, "commit")' \subseteq With(q, "commit")
  <2>1. With(q, "commit") \subseteq mem[q]
    BY <1>7 DEF ReceiptInv
  <2>2. ASSUME NEW x \in With(q, "commit")' PROVE x \in With(q, "commit") \/ (x = r /\ q = p)
    BY <1>3, <1>4, <2>2 DEF With
  <2>3. ASSUME NEW x \in With(q, "commit")' PROVE x \in mem'[q]
    <3>1. CASE x \in With(q, "commit")
      BY <1>5, <2>1, <3>1
    <3>2. CASE x = r /\ q = p
      BY <1>6, <2>3, <3>2 DEF With
    <3>. QED  BY <2>2, <2>3, <3>1, <3>2
  <2>. QED  BY <2>2, <2>3
<1>8. \A x \in Requests : at'[x] # "idle" => by'[x] \in Procs /\ pc'[by'[x]] \in {"up", "gone"}
  <2>1. pc' = pc
    BY <1>1 DEF Quiet
  <2>. QED  BY <1>2, <1>3, <1>4, <2>1 DEF ReceiptInv
<1>9. Told' \subseteq Told
  BY <1>3, <1>4 DEF Told
<1>. QED  BY <1>1, <1>2, <1>5, <1>7, <1>8, <1>9, QuietStays DEF Receiptless

\* A write past its fence counts when the files were taken meanwhile.
LEMMA LateWrite ==
    ASSUME TypeOK, NEW p \in Procs, Writes(p)
    PROVE  /\ \A q \in Procs : late'[q] = 0 => late[q] = 0
           /\ Undisturbed' => Undisturbed /\ ~Displaced(p)
<1>1. late \in [Procs -> Nat] /\ late' = [late EXCEPT ![p] = IF Displaced(p) THEN @ + 1 ELSE @]
  BY WritesType DEF TypeOK, ServerTypeOK
<1>2. \A n \in Nat : n + 1 # 0
  OBVIOUS
<1>3. ASSUME NEW q \in Procs, late'[q] = 0 PROVE late[q] = 0 /\ (q = p => ~Displaced(p))
  BY <1>1, <1>2, <1>3
<1>. QED  BY <1>3 DEF Undisturbed

LEMMA FailedCommit ==
    ASSUME TypeOK, NEW p \in Procs, failCommit(p), UNCHANGED leaseVars,
           UNCHANGED <<mem, by, orders>>, feed \subseteq feed',
           \A q \in Procs : late'[q] = 0 => late[q] = 0, UNCHANGED faults \/ Fault
    PROVE  Refusal
<1>1. KeepsUp /\ StayDisplaced /\ pc' = pc
  BY QuietUnchanged, QuietStays
<1>2. Answering("refused")
  BY AnsweredAnswering DEF failCommit
<1>3. commit' = [commit EXCEPT ![p] = "failed"] /\ commit \in [Procs -> Phases]
  BY DEF failCommit, TypeOK, ServerTypeOK
<1>. QED  BY <1>1, <1>2, <1>3 DEF Refusal

LEMMA WriteOrdersReceipt ==
    ASSUME TypeOK, HeldInv, ReceiptInv, NEW p \in Procs, WriteOrders(p)
    PROVE  ReceiptInv'
<1>0. /\ pc[p] = "up" /\ UNCHANGED <<leaseVars, mem, dirty, by, feed>>
      /\ UNCHANGED faults \/ Fault
      /\ Answering("refused") /\ pc' = pc /\ lease' = lease /\ held' = held
  BY QuietAnswering DEF WriteOrders, Refuses, leaseVars
<1>1. CASE failCommit(p) /\ UNCHANGED <<orders, late>>
  <2>1. Refusal
    BY <1>0, <1>1, FailedCommit
  <2>. QED  BY <2>1, RefusalReceiptless, ReceiptlessKeeps
<1>2. CASE orders' = mem[p] /\ Writes(p)
  <2>1. \A q \in Procs : With(q, "commit")' \subseteq With(q, "commit")
    BY <1>0, AnsweringCommit
  <2>2. \A r \in Requests : at'[r] # "idle" => by'[r] \in Procs /\ pc'[by'[r]] \in {"up", "gone"}
    <3>1. KeepsUp
      BY <1>0 DEF KeepsUp
    <3>. QED  BY <1>0, <3>1, AnsweringOwned
  <2>3. \A q \in Procs : pc'[q] = "up" => With(q, "commit")' \subseteq mem'[q]
    BY <1>0, <2>1 DEF ReceiptInv
  <2>4. ASSUME Undisturbed'
        PROVE  Told' \subseteq orders' \cap feed' /\ \A q \in Procs : UpToDate(q)'
    <3>1. Undisturbed /\ ~Displaced(p)
      BY <1>2, <2>4, LateWrite
    <3>2. Told \subseteq orders \cap feed /\ orders \subseteq mem[p]
      BY <1>0, <3>1 DEF ReceiptInv, UpToDate, Undisturbed
    <3>3. Told' \subseteq Told
      BY <1>0 DEF Answering, Told
    <3>4. ASSUME NEW q \in Procs PROVE UpToDate(q)'
      <4>1. SUFFICES ASSUME pc'[q] = "up", ~Displaced(q)'
                     PROVE  /\ orders' \subseteq mem'[q]
                            /\ With(q, "commit")' \subseteq orders'
        BY DEF UpToDate
      <4>2. pc[q] = "up" /\ ~Displaced(q)
        BY <1>0, <4>1 DEF Displaced, Mine
      <4>3. q = p
        BY <1>0, <3>1, <4>2, OneOwner
      <4>. QED  BY <1>0, <1>2, <2>3, <4>1, <4>3
    <3>. QED  BY <1>0, <1>2, <3>2, <3>3, <3>4
  <2>. QED  BY <2>2, <2>3, <2>4 DEF ReceiptInv, Undisturbed
<1>. QED  BY <1>1, <1>2 DEF WriteOrders

LEMMA AppendFeedReceipt ==
    ASSUME TypeOK, HeldInv, ReceiptInv, NEW p \in Procs, AppendFeed(p)
    PROVE  ReceiptInv'
<1>0. /\ pc[p] = "up" /\ commit[p] = "appending"
      /\ UNCHANGED <<leaseVars, mem, dirty, by, orders>>
      /\ UNCHANGED faults \/ Fault
      /\ pc' = pc /\ lease' = lease /\ held' = held /\ commit \in [Procs -> Phases]
  BY DEF AppendFeed, leaseVars, TypeOK, ServerTypeOK
<1>1. CASE failCommit(p)
  <2>1. feed \subseteq feed' /\ \A q \in Procs : late'[q] = 0 => late[q] = 0
    <3>1. UNCHANGED <<feed, late>> \/ (feed \subseteq feed' /\ Writes(p))
      BY DEF AppendFeed
    <3>. QED  BY <3>1, LateWrite
  <2>2. Refusal
    BY <1>0, <1>1, <2>1, FailedCommit
  <2>. QED  BY <2>2, RefusalReceiptless, ReceiptlessKeeps
<1>2. CASE /\ feed' = feed \cup With(p, "commit") /\ Writes(p)
           /\ at' = Answered(With(p, "commit"), "told")
           /\ commit' = [commit EXCEPT ![p] = "idle"]
  <2>0. Answering("told")
    BY <1>0, <1>2, AnsweredAnswering
  <2>1. \A q \in Procs : With(q, "commit")' \subseteq With(q, "commit")
    BY <2>0, AnsweringCommit
  <2>2. \A r \in Requests : at'[r] # "idle" => by'[r] \in Procs /\ pc'[by'[r]] \in {"up", "gone"}
    <3>1. KeepsUp
      BY <1>0 DEF KeepsUp
    <3>. QED  BY <2>0, <3>1, AnsweringOwned
  <2>3. \A q \in Procs : pc'[q] = "up" => With(q, "commit")' \subseteq mem'[q]
    BY <1>0, <2>1 DEF ReceiptInv
  <2>4. ASSUME Undisturbed'
        PROVE  Told' \subseteq orders' \cap feed' /\ \A q \in Procs : UpToDate(q)'
    <3>1. Undisturbed /\ ~Displaced(p)
      BY <1>2, <2>4, LateWrite
    <3>2. Told \subseteq orders \cap feed /\ With(p, "commit") \subseteq orders
      BY <1>0, <3>1 DEF ReceiptInv, UpToDate, Undisturbed
    <3>3. Told' \subseteq Told \cup With(p, "commit")
      BY <1>2 DEF Answered, Told
    <3>4. ASSUME NEW q \in Procs PROVE UpToDate(q)'
      <4>1. UpToDate(q)
        BY <3>1 DEF ReceiptInv, Undisturbed
      <4>2. Displaced(q)' = Displaced(q)
        BY <1>0 DEF Displaced, Mine
      <4>3. commit'[q] \in {"written", "appending"} => commit[q] \in {"written", "appending"}
        BY <1>0, <1>2
      <4>. QED  BY <1>0, <2>1, <4>1, <4>2, <4>3 DEF UpToDate
    <3>. QED  BY <1>0, <1>2, <3>2, <3>3, <3>4
  <2>. QED  BY <2>2, <2>3, <2>4 DEF ReceiptInv, Undisturbed
<1>. QED  BY <1>1, <1>2 DEF AppendFeed

LEMMA LoadReceipt ==
    ASSUME TypeOK, ReceiptInv, NEW p \in Procs, Load(p), LoadSucceeds(p)
    PROVE  ReceiptInv'
<1>0. /\ pc[p] = "load" /\ UNCHANGED <<lease, held, commit, orders, at, by, late>>
      /\ pc \in [Procs -> Places] /\ mem \in [Procs -> SUBSET Requests]
  BY LoadCases DEF TypeOK, LeaseTypeOK, ServerTypeOK
<1>1. /\ pc'[p] = "up" /\ mem'[p] = orders /\ feed' = feed \cup orders
      /\ \A q \in Procs : q # p => pc'[q] = pc[q] /\ mem'[q] = mem[q]
  BY <1>0 DEF LoadSucceeds
<1>2. With(p, "commit") = {}
  BY <1>0 DEF ReceiptInv, With
<1>3. \A q \in Procs : With(q, "commit")' = With(q, "commit") /\ Displaced(q)' = Displaced(q)
  BY <1>0 DEF With, Displaced, Mine
<1>4. ASSUME NEW q \in Procs, pc'[q] = "up" PROVE With(q, "commit")' \subseteq mem'[q]
  BY <1>1, <1>2, <1>3, <1>4 DEF ReceiptInv
<1>5. \A r \in Requests : at'[r] # "idle" => by'[r] \in Procs /\ pc'[by'[r]] \in {"up", "gone"}
  BY <1>0, <1>1 DEF ReceiptInv
<1>6. ASSUME Undisturbed'
      PROVE  Told' \subseteq orders' \cap feed' /\ \A q \in Procs : UpToDate(q)'
  <2>1. Undisturbed
    BY <1>0, <1>6 DEF Undisturbed
  <2>2. Told' \subseteq orders' \cap feed'
    BY <1>0, <1>1, <2>1 DEF ReceiptInv, Undisturbed, Told
  <2>3. ASSUME NEW q \in Procs PROVE UpToDate(q)'
    <3>1. UpToDate(q)
      BY <2>1 DEF ReceiptInv, Undisturbed
    <3>2. CASE q = p
      BY <1>0, <1>1, <1>2, <1>3, <3>2 DEF UpToDate
    <3>3. CASE q # p
      BY <1>0, <1>1, <1>3, <3>1, <3>3 DEF UpToDate
    <3>. QED  BY <3>2, <3>3
  <2>. QED  BY <2>2, <2>3
<1>. QED  BY <1>4, <1>5, <1>6 DEF ReceiptInv, Undisturbed

LEMMA NextReceipt ==
    ASSUME LeaseInv, ReceiptInv, [Next]_vars
    PROVE  ReceiptInv'
<1>0. TypeOK /\ HeldInv
  BY DEF LeaseInv
<1>1. ASSUME Refusal PROVE ReceiptInv'
  BY <1>1, RefusalReceiptless, ReceiptlessKeeps
<1>2. ASSUME NEW p \in Procs, QuietActs(p) PROVE ReceiptInv'
  <2>1. CASE WriteOrders(p) BY <1>0, <2>1, WriteOrdersReceipt
  <2>2. CASE AppendFeed(p) BY <1>0, <2>2, AppendFeedReceipt
  <2>3. CASE Refuses(p) /\ ~WriteOrders(p)
    BY <1>0, <1>1, <2>3, RefusesRefusal
  <2>4. ASSUME NEW r \in Requests, Arrive(p, r) \/ BodyArrives(p, r) \/ PeerApply(p, r)
        PROVE  ReceiptInv'
    BY <1>0, <2>4, ComingReceiptless, ReceiptlessKeeps
  <2>. QED  BY <1>2, <2>1, <2>2, <2>3, <2>4, QuietCases
<1>3. ASSUME NEW p \in Procs, LoudActs(p) PROVE ReceiptInv'
  BY <1>0, <1>1, <1>3, LoudRefusal, LoadReceipt
<1>4. ASSUME NEW p \in Procs, Acquire(p), UNCHANGED <<server, files, faults>> PROVE ReceiptInv'
  BY <1>0, <1>1, <1>4, AcquireRefusal
<1>5. CASE OuterActs
  BY <1>0, <1>1, <1>5, OuterRefusal
<1>6. CASE UNCHANGED vars
  <2>1. /\ UNCHANGED leaseVars /\ UNCHANGED <<at, by, mem, commit, orders, feed, late, faults>>
    BY <1>6 DEF vars, server, files
  <2>2. KeepsUp /\ StayDisplaced /\ pc' = pc
    BY <1>0, <2>1, QuietUnchanged, QuietStays
  <2>3. Refusal
    BY <2>1, <2>2, Unasked DEF Refusal
  <2>. QED  BY <1>1, <2>3
<1>. QED  BY <1>2, <1>3, <1>4, <1>5, <1>6, NextCases

\* An answer of success is a receipt: through commits that fail half way,
\* kills, takeovers and restarts the mutation stays in the orders file and in
\* the feed, unless a process was displaced between a fence and its write.
\* Whoever owns its files has the whole orders file in memory, since nobody
\* else could write it meanwhile (runCommits(), writeSnapshot()).
THEOREM ReceiptsAlwaysHold == Spec => []ReceiptsHold
<1>1. Init => ReceiptInv
  BY DEF Init, LeaseInit, ReceiptInv, Told, UpToDate
<1>2. ReceiptInv => ReceiptsHold
  BY DEF ReceiptInv, ReceiptsHold, Told
<1>. QED  BY <1>1, <1>2, NextReceipt, LeaseHolds, PTL DEF Spec

=============================================================================
