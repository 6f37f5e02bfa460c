---------------------------- MODULE ProcessLease ----------------------------
(***************************************************************************)
(* The lease that keeps one daemon per state file (StateProcessLease,      *)
(* marketmaker/src/state.ts; server/src/process-lease.ts is a port of it). *)
(* One action per file operation: starters in different processes, and in  *)
(* different containers, interleave at every one of them.                  *)
(*                                                                         *)
(* A process is one incarnation: it starts once and ends once.  A file is  *)
(* NoFile or [by, ok, at]: who wrote it, whether the record is complete (a *)
(* file opened with "wx" is empty until it is written), and its mtime.     *)
(* Lease ids are fresh per process, so `by` stands for the id.             *)
(***************************************************************************)
EXTENDS Integers

CONSTANTS
    NoFile,
    Procs,
    TTL,          \* LEASE_TTL_MS
    GuardTTL,     \* GUARD_STALE_MS
    Sites         \* where the processes may run and what may go wrong there:
                  \*   ns          the PID namespace of each process
                  \*   stalls      whether a pause may outlast a TTL
                  \*   guardKills  where a process may be killed in the guard
                  \*   until       bound on the clock

ASSUME LeaseAssumption ==
    /\ TTL \in Nat \ {0} /\ GuardTTL \in Nat \ {0}
    /\ \A s \in Sites : s.stalls \in {"no", "yes"} /\ s.until \in Nat
    /\ NoFile \notin [by : Procs, ok : BOOLEAN, at : Nat]

VARIABLES
    clock,
    pc,      \* where each process is
    then,    \* where it goes once the guard is released
    lease,   \* the lease file
    guard,   \* the recovery guard file
    late,    \* per process, writes of the state file after it was displaced
    site     \* the site, which never changes

leaseVars == <<clock, pc, then, lease, guard, late, site>>

Places == {"out", "read", "guard", "guardWrite", "judge", "takeover", "check",
           "create", "leaseWrite", "replace", "confirm", "release", "unlink",
           "held", "stamp", "write", "close", "refused", "closed", "lost", "dead"}

\* Between the creation of the guard and its release.
InGuard == {"guardWrite", "check", "create", "leaseWrite", "replace",
            "confirm", "release", "unlink"}

\* acquire() has decided, or has returned, that the lease is this process's.
Owning == {"held", "stamp", "write", "close"}
Holds(p) == \/ pc[p] \in Owning
            \/ pc[p] \in {"release", "unlink"} /\ then[p] = "held"

LeaseInit ==
    /\ clock = 0
    /\ pc = [p \in Procs |-> "out"]
    /\ then = [p \in Procs |-> "read"]
    /\ lease = NoFile
    /\ guard = NoFile
    /\ late = [p \in Procs |-> 0]
    /\ site \in Sites

-----------------------------------------------------------------------------

Running(p) == pc[p] \notin {"out", "dead"}

Empty(p) == [by |-> p, ok |-> FALSE, at |-> clock]

Record(p) == [by |-> p, ok |-> TRUE, at |-> clock]

Mine(file, p) == file # NoFile /\ file.ok /\ file.by = p

usesPidSemantics(q, p) == site.ns[q] = site.ns[p]

\* isLiveLease() and isLiveGuard(): in its own namespace a process is judged
\* by its PID and start time, in another one by the file's mtime.
IsLive(file, p, ttl) ==
    /\ file # NoFile
    /\ file.ok
    /\ IF usesPidSemantics(file.by, p) THEN Running(file.by) ELSE clock - file.at < ttl

\* The lease provably stopped being p's: the file is gone, or whole and
\* another's.  A half-written record proves nothing.
Displaced(p) == IF lease = NoFile THEN TRUE ELSE lease.ok /\ lease.by # p

Goto(p, place) == pc' = [pc EXCEPT ![p] = place]

\* The finally block runs before the loop goes on, returns or throws.
ReleaseThen(p, place) ==
    /\ pc' = [pc EXCEPT ![p] = "release"]
    /\ then' = [then EXCEPT ![p] = place]

-----------------------------------------------------------------------------
(* acquire()                                                               *)

Start(p) ==
    /\ pc[p] = "out"
    /\ Goto(p, "read")
    /\ UNCHANGED <<clock, then, lease, guard, late>>

ReadLease(p) ==
    /\ pc[p] = "read"
    /\ Goto(p, IF IsLive(lease, p, TTL) THEN "refused" ELSE "guard")
    /\ UNCHANGED <<clock, then, lease, guard, late>>

TryCreateGuard(p) ==
    /\ pc[p] = "guard"
    /\ IF guard = NoFile
       THEN guard' = Empty(p) /\ Goto(p, "guardWrite")
       ELSE guard' = guard /\ Goto(p, "judge")
    /\ UNCHANGED <<clock, then, lease, late>>

\* The write goes to the opened file, which the path may no longer name.
WriteGuard(p) ==
    /\ pc[p] = "guardWrite"
    /\ guard' = IF guard = NoFile \/ guard.by # p THEN guard ELSE Record(p)
    /\ Goto(p, "check")
    /\ UNCHANGED <<clock, then, lease, late>>

\* Mutated form, used to check that the properties can fail: a dead guard is
\* waited for.
JudgeGuard_Waits(p) ==
    /\ pc[p] = "judge"
    /\ Goto(p, "read")
    /\ UNCHANGED <<clock, then, lease, guard, late>>

\* A guard that vanished, is half written or is live means another attempt.
JudgeGuard(p) ==
    /\ pc[p] = "judge"
    /\ Goto(p, IF guard = NoFile \/ ~guard.ok \/ IsLive(guard, p, GuardTTL)
               THEN "read" ELSE "takeover")
    /\ UNCHANGED <<clock, then, lease, guard, late>>

\* replaceStaleLeaseFile() renames over whatever is there by now.
TakeOverGuard(p) ==
    /\ pc[p] = "takeover"
    /\ guard' = Record(p)
    /\ Goto(p, "check")
    /\ UNCHANGED <<clock, then, lease, late>>

\* Mutated form, used to check that the properties can fail: the first read
\* of the lease is trusted.
LiveUnderGuard_FirstRead(p) == FALSE

\* The first read was only a hint: the lease is read again under the guard.
LiveUnderGuard(p) == IsLive(lease, p, TTL)

CheckLease(p) ==
    /\ pc[p] = "check"
    /\ IF LiveUnderGuard(p)
       THEN ReleaseThen(p, "refused")
       ELSE Goto(p, IF lease = NoFile THEN "create" ELSE "replace") /\ UNCHANGED then
    /\ UNCHANGED <<clock, lease, guard, late>>

TryCreateLease(p) ==
    /\ pc[p] = "create"
    /\ IF lease = NoFile
       THEN lease' = Empty(p) /\ Goto(p, "leaseWrite") /\ UNCHANGED then
       ELSE lease' = lease /\ ReleaseThen(p, "read")
    /\ UNCHANGED <<clock, guard, late>>

WriteLease(p) ==
    /\ pc[p] = "leaseWrite"
    /\ lease' = IF lease = NoFile \/ lease.by # p THEN lease ELSE Record(p)
    /\ Goto(p, "confirm")
    /\ UNCHANGED <<clock, then, guard, late>>

ReplaceLease(p) ==
    /\ pc[p] = "replace"
    /\ lease' = Record(p)
    /\ Goto(p, "confirm")
    /\ UNCHANGED <<clock, then, guard, late>>

ConfirmLease(p) ==
    /\ pc[p] = "confirm"
    /\ ReleaseThen(p, IF Mine(lease, p) THEN "held" ELSE "read")
    /\ UNCHANGED <<clock, lease, guard, late>>

\* releaseOwnedLeaseFile(): a read, then an unlink of the path.
ReleaseGuard(p) ==
    /\ pc[p] = "release"
    /\ Goto(p, IF Mine(guard, p) THEN "unlink" ELSE then[p])
    /\ UNCHANGED <<clock, then, lease, guard, late>>

UnlinkGuard(p) ==
    /\ pc[p] = "unlink"
    /\ guard' = NoFile
    /\ Goto(p, then[p])
    /\ UNCHANGED <<clock, then, lease, late>>

-----------------------------------------------------------------------------
(* The holder.                                                             *)

\* beat(): read, then stamp.  A record that cannot be read counts as a failed
\* beat; the budget of failures is not modelled.
Beat(p) ==
    /\ pc[p] = "held"
    /\ \/ Displaced(p) /\ Goto(p, "lost")
       \/ Mine(lease, p) /\ Goto(p, "stamp")
    /\ UNCHANGED <<clock, then, lease, guard, late>>

Stamp(p) ==
    /\ pc[p] = "stamp"
    /\ lease' = IF lease = NoFile THEN NoFile ELSE [lease EXCEPT !.at = clock]
    /\ Goto(p, "held")
    /\ UNCHANGED <<clock, then, guard, late>>

\* Mutated form, used to check that the properties can fail: only the flag
\* that the heartbeat sets is looked at.
FencePasses_FlagOnly(p) == TRUE

\* assertOwned(): every write re-reads the lease.
FencePasses(p) == Mine(lease, p)

AssertOwned(p) ==
    /\ pc[p] = "held"
    /\ \/ FencePasses(p) /\ Goto(p, "write")
       \/ ~FencePasses(p) /\ Displaced(p) /\ Goto(p, "lost")
    /\ UNCHANGED <<clock, then, lease, guard, late>>

\* The rename of the state file.
Write(p) ==
    /\ pc[p] = "write"
    /\ late' = IF Mine(lease, p) THEN late ELSE [late EXCEPT ![p] = @ + 1]
    /\ Goto(p, "held")
    /\ UNCHANGED <<clock, then, lease, guard>>

Close(p) ==
    /\ pc[p] = "held"
    /\ Goto(p, IF Mine(lease, p) THEN "close" ELSE "closed")
    /\ UNCHANGED <<clock, then, lease, guard, late>>

UnlinkLease(p) ==
    /\ pc[p] = "close"
    /\ lease' = NoFile
    /\ Goto(p, "closed")
    /\ UNCHANGED <<clock, then, guard, late>>

-----------------------------------------------------------------------------

Exit(p) ==
    /\ pc[p] \in {"refused", "closed", "lost"}
    /\ Goto(p, "dead")
    /\ UNCHANGED <<clock, then, lease, guard, late>>

Killed(p) ==
    /\ Running(p)
    /\ pc[p] \in InGuard => pc[p] \in site.guardKills
    /\ Goto(p, "dead")
    /\ UNCHANGED <<clock, then, lease, guard, late>>

\* Without stalls, a run of file operations takes less than a unit of time and
\* a holder's heartbeat never falls a TTL behind.
Prompt ==
    \A p \in Procs :
        /\ pc[p] \notin InGuard \cup {"takeover", "stamp", "write", "close"}
        /\ Holds(p) /\ lease # NoFile => clock + 1 - lease.at < TTL

ClockTicks ==
    /\ clock < site.until
    /\ site.stalls = "yes" \/ Prompt
    /\ clock' = clock + 1
    /\ UNCHANGED <<pc, then, lease, guard, late>>

Acquires(p) ==
    \/ ReadLease(p) \/ TryCreateGuard(p) \/ WriteGuard(p) \/ JudgeGuard(p)
    \/ TakeOverGuard(p) \/ CheckLease(p) \/ TryCreateLease(p) \/ WriteLease(p)
    \/ ReplaceLease(p) \/ ConfirmLease(p) \/ ReleaseGuard(p) \/ UnlinkGuard(p)

Works(p) ==
    \/ Beat(p) \/ Stamp(p) \/ AssertOwned(p) \/ Write(p)
    \/ Close(p) \/ UnlinkLease(p)

Step ==
    \/ \E p \in Procs : \/ Start(p) \/ Acquires(p) \/ Works(p)
                        \/ Exit(p) \/ Killed(p)
    \/ ClockTicks

LeaseNext == Step /\ UNCHANGED site

LeaseSpec == LeaseInit /\ [][LeaseNext]_leaseVars

\* A process that is not killed keeps running.
FairLeaseSpec ==
    /\ LeaseSpec
    /\ \A p \in Procs : /\ WF_leaseVars(Acquires(p) /\ UNCHANGED site)
                        /\ WF_leaseVars(Exit(p) /\ UNCHANGED site)

-----------------------------------------------------------------------------
(* Properties.                                                             *)

File == [by : Procs, ok : BOOLEAN, at : Nat]

\* Every variable has its type, and a process leaves the guard for a place
\* where acquire() can be.
TypeOK ==
    /\ clock \in Nat
    /\ pc \in [Procs -> Places]
    /\ then \in [Procs -> {"read", "held", "refused"}]
    /\ lease \in File \cup {NoFile}
    /\ guard \in File \cup {NoFile}
    /\ late \in [Procs -> Nat]
    /\ site \in Sites

\* Nobody stalls for a TTL, or is killed while it holds the guard.
Orderly == site.stalls = "no" /\ site.guardKills = {}

\* In orderly operation two daemons never both believe that the state file is
\* theirs.
AtMostOneHolder == Orderly => \A p, q \in Procs : Holds(p) /\ Holds(q) => p = q

\* Whatever stalls and kills happen, a displaced daemon completes at most the
\* one write whose fence it had already passed; it cannot begin another.
AtMostOneLateWrite == \A p \in Procs : late[p] <= 1

\* A starter is never left waiting: it gets the lease or an answer.
StarterAnswered ==
    \A p \in Procs : pc[p] = "read" ~> pc[p] \in Owning \cup {"refused", "dead"}
=============================================================================
