----------------------------- MODULE BookLease ------------------------------
(***************************************************************************)
(* The lease of one order book process over its set of data files          *)
(* (ProcessLease and BookLease, server/src/process-lease.ts): one lease    *)
(* file beside each protected file, taken in the order of the resolved     *)
(* paths, kept fresh by heartbeats and asserted before every write.        *)
(*                                                                         *)
(* The acquisition of a single lease file is one step here: its file       *)
(* operations are the subject of ProcessLease.  A process is one           *)
(* incarnation.  A lease file is Null or [by, at]: the process whose id it *)
(* carries and its mtime.  Paths are numbers, so that they have an order;  *)
(* the unit of time is the heartbeat interval.                             *)
(***************************************************************************)
EXTENDS Integers, FiniteSets, FiniteSetsExt, Sequences

CONSTANTS
    Null,
    Procs,
    Files,   \* the resolved paths
    TTL,     \* LEASE_TTL_MS, in heartbeat intervals
    Sites    \* where the processes run and what may happen there:
             \*   procs    the processes, in the order they are started
             \*   ns       the PID namespace of each process
             \*   config   the files of each process, as configured
             \*   stalls   whether a process may miss heartbeats
             \*   faults   bound on kills, failures and signals
             \*   until    bound on the clock
             \*   reqs     the requests that may come

ASSUME BookLeaseAssumption ==
    /\ TTL \in Nat /\ TTL >= 3     \* startHeartbeat() refuses anything less
    /\ Files \subseteq Nat /\ IsFiniteSet(Files)
    /\ Null \notin [by : Procs, at : Nat]

\* Any two processes of a site protect a file in common: they serve the book
\* of one orders file, or contend for overlapping sets of files.
ASSUME SitesAssumption ==
    \A s \in Sites :
        /\ s.procs \in Seq(Procs)
        /\ s.config \in [Procs -> Seq(Files)]
        /\ \A p, q \in Procs :
              \E i \in DOMAIN s.config[p], j \in DOMAIN s.config[q] : s.config[p][i] = s.config[q][j]
        /\ s.stalls \in BOOLEAN /\ s.faults \in Nat /\ s.until \in Nat

VARIABLES
    now,
    site,    \* the site, which never changes
    lease,   \* the lease files
    pc,      \* the processes: "out", "acquire", "backout", "load", "up",
             \* "refused", "gone"
    held,    \* per process, the leases its BookLease holds
    lost,    \* per process, the leases it knows to be lost
    fails,   \* per process and file, failedBeats
    beaten,  \* processes that have beaten since the clock last moved
    blind    \* <<p, f>>: process p cannot read or stamp lease file f for now

leaseVars == <<now, site, lease, pc, held, lost, fails, beaten, blind>>

LeaseInit ==
    /\ now = 0
    /\ site \in Sites
    /\ lease = [f \in Files |-> Null]
    /\ pc = [p \in Procs |-> "out"]
    /\ held = [p \in Procs |-> {}]
    /\ lost = [p \in Procs |-> {}]
    /\ fails = [p \in Procs |-> [f \in Files |-> 0]]
    /\ beaten = {}
    /\ blind = {}

-----------------------------------------------------------------------------

Running(p) == pc[p] \notin {"out", "refused", "gone"}

\* A namespace that could not be read matches nothing.
usesPidSemantics(q, p) == site.ns[q] = site.ns[p] /\ site.ns[p] # "unknown"

\* isLiveLease(): by PID in the own namespace, by heartbeat in any other.
isLiveLease(f, p) ==
    /\ lease[f] # Null
    /\ IF usesPidSemantics(lease[f].by, p) THEN Running(lease[f].by)
       ELSE now - lease[f].at < TTL

Mine(f, p) == lease[f] # Null /\ lease[f].by = p

ProtectedFiles(p) == {site.config[p][i] : i \in DOMAIN site.config[p]}

\* Mutated form, used to check that the properties can fail: the files are
\* taken in the order of the configuration.
nextFile_AsConfigured(p) ==
    LET left == {i \in DOMAIN site.config[p] : site.config[p][i] \notin held[p]}
    IN  site.config[p][Min(left)]

\* BookLease.acquire() sorts the resolved paths.
nextFile(p) == Min(ProtectedFiles(p) \ held[p])

\* close(): removes what is provably this process's own, and never a lease it
\* knows to be lost.
Released(p) ==
    [f \in Files |-> IF f \in held[p] \ lost[p] /\ <<p, f>> \notin blind /\ Mine(f, p)
                     THEN Null ELSE lease[f]]

\* One file of BookLease.acquire().
Acquire(p) ==
    LET f == nextFile(p) IN
    /\ pc[p] = "acquire"
    /\ IF <<p, f>> \in blind \/ isLiveLease(f, p)
       THEN pc' = [pc EXCEPT ![p] = "backout"] /\ UNCHANGED <<lease, held>>
       ELSE /\ lease' = [lease EXCEPT ![f] = [by |-> p, at |-> now]]
            /\ held' = [held EXCEPT ![p] = @ \cup {f}]
            /\ pc' = IF held'[p] = ProtectedFiles(p) THEN [pc EXCEPT ![p] = "load"] ELSE pc
    /\ UNCHANGED <<now, site, lost, fails, beaten, blind>>

\* A refusal closes the leases taken so far and ends the process.
BackOut(p) ==
    /\ pc[p] = "backout"
    /\ lease' = Released(p)
    /\ pc' = [pc EXCEPT ![p] = "refused"]
    /\ UNCHANGED <<now, site, held, lost, fails, beaten, blind>>

-----------------------------------------------------------------------------
(* assertOwned()                                                           *)

\* ProcessLease.assertOwned(): what one lease says.  An unreadable file
\* proves nothing.
verdict(p, f) ==
    IF f \in lost[p] THEN "lost"
    ELSE IF <<p, f>> \in blind THEN "unverifiable"
    ELSE IF Mine(f, p) THEN "owned" ELSE "lost"

\* BookLease.assertOwned(): the first lease that is not owned decides.
assertOwned(p) ==
    LET doubtful == {f \in held[p] : verdict(p, f) # "owned"}
    IN  IF doubtful = {} THEN "owned" ELSE verdict(p, Min(doubtful))

\* markLost(), as assertOwned() does it on the way.
LostAfterAssert(p) ==
    LET doubtful == {f \in held[p] : verdict(p, f) # "owned"}
    IN  IF assertOwned(p) = "lost" THEN [lost EXCEPT ![p] = @ \cup {Min(doubtful)}] ELSE lost

-----------------------------------------------------------------------------
(* The heartbeat.                                                          *)

\* Mutated form, used to check that the properties can fail: the whole
\* lifetime may pass in failures.
failureBudget_WholeLife == TTL + 1

\* The lifetime minus two beats.
failureBudget == IF TTL - 2 > 1 THEN TTL - 2 ELSE 1

BeatFails(p, f) == f \in held[p] \ lost[p] /\ <<p, f>> \in blind
BeatFindsLoss(p, f) == f \in held[p] \ lost[p] /\ <<p, f>> \notin blind /\ ~Mine(f, p)
BeatStamps(p, f) == f \in held[p] \ lost[p] /\ <<p, f>> \notin blind /\ Mine(f, p)

\* beat() of every lease of the set: the timers share one period.
Beat(p) ==
    /\ pc[p] = "up" /\ p \notin beaten
    /\ beaten' = beaten \cup {p}
    /\ fails' = [fails EXCEPT ![p] =
                    [f \in Files |-> IF BeatFails(p, f) THEN @[f] + 1
                                     ELSE IF BeatStamps(p, f) THEN 0 ELSE @[f]]]
    /\ lost' = [lost EXCEPT ![p] =
                   @ \cup {f \in Files : \/ BeatFindsLoss(p, f)
                                         \/ BeatFails(p, f) /\ fails'[p][f] >= failureBudget}]
    /\ lease' = [f \in Files |-> IF BeatStamps(p, f) THEN [lease[f] EXCEPT !.at = now]
                                 ELSE lease[f]]
    /\ UNCHANGED <<now, site, pc, held, blind>>

\* Without stalls a start takes less than an interval and every timer fires
\* once in each.
Prompt ==
    \A p \in Procs : /\ pc[p] \notin {"acquire", "backout", "load"}
                     /\ pc[p] = "up" => p \in beaten

Tick ==
    /\ now < site.until
    /\ site.stalls \/ Prompt
    /\ now' = now + 1
    /\ beaten' = {}
    /\ UNCHANGED <<site, lease, pc, held, lost, fails, blind>>

-----------------------------------------------------------------------------
(* Properties.                                                             *)

\* A book that beats on time is never taken by surprise: whatever lease files
\* it cannot read, it has declared its lease lost before a starter elsewhere
\* takes it (countFailedBeat(): "before that peer can take it over").
NeverSurprised ==
    [][~site.stalls =>
          \A f \in Files :
              lease[f] # Null /\ lease'[f] # Null /\ lease'[f].by # lease[f].by =>
                  pc[lease[f].by] # "up" \/ f \in lost[lease[f].by]]_leaseVars

\* Starters that race for overlapping sets of files are not all turned away:
\* the lease files are taken in one order, so one of them completes its set
\* (BookLease, "exactly one of them wins").
SomeoneWins ==
    site.faults = 0 /\ (\E p \in Procs : pc[p] = "refused")
        => \E p \in Procs : pc[p] \notin {"out", "backout", "refused"}
=============================================================================
