----------------------------- MODULE BookServer -----------------------------
(***************************************************************************)
(* Order book processes on one set of data files (server/src/server.ts):   *)
(* the start, the admission of writes by lane (admission.ts and the        *)
(* concurrency limiter of federation-reset.ts), the group commit of        *)
(* store.ts between its two ownership fences, and every way a process ends.*)
(*                                                                         *)
(* A request is a record [id, lane, src] and stands for the mutation it    *)
(* asks for; a data file is the set of mutations it contains.  A commit is *)
(* synchronous in its process: no other step of that process falls inside  *)
(* it, while the steps of other processes, the clock and a kill may.       *)
(***************************************************************************)
EXTENDS BookLease

CONSTANTS
    Requests,            \* records [id, lane, src]
    Mutations,           \* [total, reserved]: maxInflightMutations
    BodyReads,           \* [total, reserved]: maxInflightBodyReads
    PerSource,           \* MAX_BODY_READS_PER_SOURCE
    PerSourceMaker       \* MAX_MAKER_BODY_READS_PER_SOURCE

\* What the constructors and readConfig() demand, and a reservation of at
\* least one for the makers, as configured by default.
ASSUME BookServerAssumption ==
    /\ \A b \in {Mutations, BodyReads} : b.total \in Nat /\ b.reserved \in 1..(b.total - 1)
    /\ PerSourceMaker \in Nat /\ PerSource \in 1..(PerSourceMaker - 1)
    /\ IsFiniteSet(Requests)

VARIABLES
    mem,      \* per process, the mutations in the store's memory
    dirty,    \* per process, memory has moved past the orders file
    commit,   \* runCommits(): "idle", "fenced", "written", "appending", "failed"
    stop,     \* per process, Null or the exit code of the shutdown under way
    orders,   \* the orders file
    feed,     \* the federation feed log
    at,       \* requests: "idle", "body", "commit", "told", "shed", "refused"
    by,       \* the process that has the request
    late,     \* per process, the writes it made while it did not own its files
    faults

server == <<mem, dirty, commit, stop, at, by>>
files == <<orders, feed, late>>
vars == <<leaseVars, server, files, faults>>

Init ==
    /\ LeaseInit
    /\ mem = [p \in Procs |-> {}]
    /\ dirty = [p \in Procs |-> FALSE]
    /\ commit = [p \in Procs |-> "idle"]
    /\ stop = [p \in Procs |-> Null]
    /\ orders = {} /\ feed = {}
    /\ at = [r \in Requests |-> "idle"]
    /\ by = [r \in Requests |-> Null]
    /\ late = [p \in Procs |-> 0]
    /\ faults = 0

Fault == faults < site.faults /\ faults' = faults + 1

With(p, stage) == {r \in Requests : by[r] = p /\ at[r] = stage}

\* Nothing of process p runs while its commit does.
Free(p) == pc[p] = "up" /\ commit[p] \in {"idle", "failed"}

\* initiateShutdown(): a second cause can only raise the exit code.
initiateShutdown(p, code) ==
    [stop EXCEPT ![p] = IF @ = Null \/ code > @ THEN code ELSE @]

Answered(rs, answer) == [r \in Requests |-> IF r \in rs THEN answer ELSE at[r]]

-----------------------------------------------------------------------------
(* The start.                                                              *)

Start(p) ==
    /\ \E i \in DOMAIN site.procs :
          site.procs[i] = p /\ \A j \in 1..i : (pc[site.procs[j]] = "out") = (j = i)
    /\ pc' = [pc EXCEPT ![p] = "acquire"]
    /\ UNCHANGED <<now, site, lease, held, lost, fails, beaten, blind, server, files, faults>>

AcquireLease(p) == (Acquire(p) \/ BackOut(p)) /\ UNCHANGED <<server, files, faults>>

\* OrderStore.load(): only a file that does not exist is an empty book.
Loaded(readable) == IF readable THEN orders ELSE Null

\* From the lease to listen(): the store is loaded and the feed reconciled
\* with it under the fence.  A failure ends the process before its exit
\* handler is registered, so the lease files stay.
Load(p) ==
    /\ pc[p] = "load"
    /\ \E readable \in BOOLEAN :
          LET book == Loaded(readable)
              ends == book = Null \/ (~(book \subseteq feed) /\ assertOwned(p) # "owned")
          IN  /\ IF readable THEN UNCHANGED faults ELSE Fault
              /\ IF ends
                 THEN /\ pc' = [pc EXCEPT ![p] = "gone"]
                      /\ UNCHANGED <<mem, feed, beaten>>
                 ELSE /\ pc' = [pc EXCEPT ![p] = "up"]
                      /\ mem' = [mem EXCEPT ![p] = book]
                      /\ feed' = feed \cup book
                      /\ beaten' = beaten \cup {p}
    /\ UNCHANGED <<now, site, lease, held, lost, fails, blind,
                   dirty, commit, stop, orders, at, by, late>>

-----------------------------------------------------------------------------
(* Admission.                                                              *)

\* Mutated form, used to check that the properties can fail: signed creates
\* may use the whole reservation.
laneCeiling_WholeReserve(lane, bound) ==
    IF lane \in {"maker", "signed-create"} THEN bound.total ELSE bound.total - bound.reserved

laneCeiling(lane, bound) ==
    CASE lane = "maker" -> bound.total
      [] lane = "signed-create" -> bound.total - bound.reserved + bound.reserved \div 2
      [] OTHER -> bound.total - bound.reserved

perSourceCeiling(lane) == IF lane = "maker" THEN PerSourceMaker ELSE PerSource

\* bodyReadLimiter.acquire()
ReadsBody(p, r) ==
    LET reading == With(p, "body")
    IN  /\ Cardinality({q \in reading : q.src = r.src}) < perSourceCeiling(r.lane)
        /\ Cardinality(reading) < laneCeiling(r.lane, BodyReads)

\* InflightWriteBound.acquire(): a peer event takes no slot.
HasSlot(p, r) ==
    Cardinality({q \in With(p, "commit") : q.lane # "peer"}) < laneCeiling(r.lane, Mutations)

\* route() and dispatch() up to the body: a process that stops answers at the
\* door, ownership is proved before anything else.
Arrive(p, r) ==
    LET owned == assertOwned(p) IN
    /\ Free(p) /\ at[r] = "idle" /\ r \in site.reqs /\ r.lane # "peer"
    /\ by' = [by EXCEPT ![r] = p]
    /\ at' = [at EXCEPT ![r] =
                 IF stop[p] # Null \/ owned # "owned" THEN "refused"
                 ELSE IF ReadsBody(p, r) THEN "body" ELSE "shed"]
    /\ IF stop[p] = Null
       THEN /\ lost' = LostAfterAssert(p)
            /\ stop' = IF owned = "lost" THEN initiateShutdown(p, 1) ELSE stop
       ELSE UNCHANGED <<lost, stop>>
    /\ UNCHANGED <<now, site, lease, pc, held, fails, beaten, blind,
                   mem, dirty, commit, files, faults>>

\* The body came and withMutationSlot() runs the handler: it is refused, or
\* changes memory and waits in flush().  Ownership is not read again here.
BodyArrives(p, r) ==
    /\ Free(p) /\ r \in With(p, "body")
    /\ \/ /\ ~HasSlot(p, r)
          /\ at' = [at EXCEPT ![r] = "shed"]
          /\ UNCHANGED <<mem, dirty>>
       \/ /\ HasSlot(p, r)
          /\ at' = [at EXCEPT ![r] = "refused"]
          /\ UNCHANGED <<mem, dirty>>
       \/ /\ HasSlot(p, r)
          /\ mem' = [mem EXCEPT ![p] = @ \cup {r}]
          /\ dirty' = [dirty EXCEPT ![p] = TRUE]
          /\ at' = [at EXCEPT ![r] = IF commit[p] = "failed" THEN "refused" ELSE "commit"]
    /\ UNCHANGED <<leaseVars, commit, stop, by, files, faults>>

\* readRequestBody(): too slow, too large or cut off.
BodyFails(p, r) ==
    /\ Free(p) /\ r \in With(p, "body")
    /\ at' = [at EXCEPT ![r] = "refused"]
    /\ UNCHANGED <<leaseVars, mem, dirty, commit, stop, by, files, faults>>

\* The apply callback of peerSync.  What is deferred comes again.
PeerApply(p, r) ==
    LET owned == assertOwned(p) IN
    /\ Free(p) /\ at[r] = "idle" /\ r \in site.reqs /\ r.lane = "peer"
    /\ lost' = LostAfterAssert(p)
    /\ stop' = IF owned = "lost" THEN initiateShutdown(p, 1) ELSE stop
    /\ IF owned = "owned"
       THEN /\ by' = [by EXCEPT ![r] = p]
            /\ mem' = [mem EXCEPT ![p] = @ \cup {r}]
            /\ dirty' = [dirty EXCEPT ![p] = TRUE]
            /\ at' = [at EXCEPT ![r] = IF commit[p] = "failed" THEN "refused" ELSE "commit"]
       ELSE UNCHANGED <<by, mem, dirty, at>>
    /\ UNCHANGED <<now, site, lease, pc, held, fails, beaten, blind, commit, files, faults>>

\* A read, a stream push or a status call: ownership is proved, and the
\* expiry sweep of a read may leave something to commit that nobody awaits.
Read(p) ==
    LET owned == assertOwned(p) IN
    /\ Free(p) /\ stop[p] = Null
    /\ lost' = LostAfterAssert(p)
    /\ stop' = IF owned = "lost" THEN initiateShutdown(p, 1) ELSE stop
    /\ \E sweeps \in BOOLEAN : dirty' = [dirty EXCEPT ![p] = @ \/ (sweeps /\ owned = "owned")]
    /\ UNCHANGED <<now, site, lease, pc, held, fails, beaten, blind,
                   mem, commit, at, by, files, faults>>

-----------------------------------------------------------------------------
(* The group commit.                                                       *)

\* Mutated form, used to check that the properties can fail: the waiters of a
\* failed commit are settled like the others.
failCommit_Settles(p) ==
    /\ commit' = [commit EXCEPT ![p] = "failed"]
    /\ at' = Answered(With(p, "commit"), "told")
    /\ stop' = initiateShutdown(p, 1)

\* failCommit(): every waiter is refused, and the process stops.
failCommit(p) ==
    /\ commit' = [commit EXCEPT ![p] = "failed"]
    /\ at' = Answered(With(p, "commit"), "refused")
    /\ stop' = initiateShutdown(p, 1)

Displaced(p) == \E f \in held[p] : ~Mine(f, p)

\* A write between two fences happens whoever owns the files by now.
Writes(p) == late' = [late EXCEPT ![p] = @ + (IF Displaced(p) THEN 1 ELSE 0)]

\* assertBookOwnedForWrite(): the fence before each of the two files.
Fence(p, from, to) ==
    /\ pc[p] = "up" /\ commit[p] = from
    /\ lost' = LostAfterAssert(p)
    /\ IF assertOwned(p) = "owned"
       THEN commit' = [commit EXCEPT ![p] = to] /\ UNCHANGED <<at, stop>>
       ELSE failCommit(p)
    /\ UNCHANGED <<now, site, lease, pc, held, fails, beaten, blind, mem, by, files, faults>>

BeginCommit(p) ==
    /\ dirty[p]
    /\ Fence(p, "idle", "fenced")
    /\ dirty' = [dirty EXCEPT ![p] = FALSE]

\* writeSnapshot() past its fence.  A failure is reported before or after the
\* rename.
WriteOrders(p) ==
    /\ pc[p] = "up" /\ commit[p] = "fenced"
    /\ \/ /\ orders' = mem[p] /\ Writes(p)
          /\ commit' = [commit EXCEPT ![p] = "written"]
          /\ UNCHANGED <<at, stop, faults>>
       \/ /\ Fault /\ failCommit(p)
          /\ \/ UNCHANGED <<orders, late>>
             \/ orders' = mem[p] /\ Writes(p)
    /\ UNCHANGED <<leaseVars, mem, dirty, by, feed>>

FenceFeed(p) == With(p, "commit") # {} /\ Fence(p, "written", "appending") /\ UNCHANGED dirty

\* A sweep has no events for the feed and no waiters.
EndSweep(p) ==
    /\ pc[p] = "up" /\ commit[p] = "written" /\ With(p, "commit") = {}
    /\ commit' = [commit EXCEPT ![p] = "idle"]
    /\ UNCHANGED <<leaseVars, mem, dirty, stop, at, by, files, faults>>

\* appendBatch() past its fence, then the waiters are answered.
AppendFeed(p) ==
    /\ pc[p] = "up" /\ commit[p] = "appending"
    /\ \/ /\ feed' = feed \cup With(p, "commit") /\ Writes(p)
          /\ at' = Answered(With(p, "commit"), "told")
          /\ commit' = [commit EXCEPT ![p] = "idle"]
          /\ UNCHANGED <<stop, faults>>
       \/ /\ Fault /\ failCommit(p)
          /\ \/ UNCHANGED <<feed, late>>
             \/ feed' = feed \cup With(p, "commit") /\ Writes(p)
    /\ UNCHANGED <<leaseVars, mem, dirty, by, orders>>

-----------------------------------------------------------------------------
(* The ways a process ends.                                                *)

\* beat() in a process whose event loop is free.
Heartbeat(p) == Free(p) /\ Beat(p) /\ UNCHANGED <<server, files, faults>>

\* onLeaseLost(), dispatched with setImmediate().
Notified(p) ==
    /\ Free(p) /\ lost[p] # {} /\ stop[p] # 1
    /\ stop' = initiateShutdown(p, 1)
    /\ UNCHANGED <<leaseVars, mem, dirty, commit, at, by, files, faults>>

Signal(p) ==
    /\ Free(p) /\ stop[p] = Null /\ Fault
    /\ stop' = initiateShutdown(p, 0)
    /\ UNCHANGED <<leaseVars, mem, dirty, commit, at, by, files>>

\* The shutdown deadline: closeAllConnections() cuts the bodies still read.
Deadline(p) ==
    /\ Free(p) /\ stop[p] # Null /\ With(p, "body") # {}
    /\ at' = Answered(With(p, "body"), "refused")
    /\ stop' = initiateShutdown(p, 1)
    /\ UNCHANGED <<leaseVars, mem, dirty, commit, by, files, faults>>

\* Mutated form, used to check that the properties can fail: an exit waits
\* for memory to be on disk even when no commit will run again.
Drained_Committed(p) == With(p, "body") \cup With(p, "commit") = {} /\ ~dirty[p]

\* The event loop is empty: no connection and no commit to run.
Drained(p) ==
    /\ With(p, "body") \cup With(p, "commit") = {}
    /\ dirty[p] => commit[p] = "failed"

\* The exit handler releases the lease last.
Exit(p) ==
    /\ Free(p) /\ stop[p] # Null /\ Drained(p)
    /\ pc' = [pc EXCEPT ![p] = "gone"]
    /\ lease' = Released(p)
    /\ UNCHANGED <<now, site, held, lost, fails, beaten, blind, server, files, faults>>

\* The process is killed, at any point.
Killed(p) ==
    /\ Running(p) /\ Fault
    /\ pc' = [pc EXCEPT ![p] = "gone"]
    /\ at' = Answered(With(p, "body") \cup With(p, "commit"), "refused")
    /\ UNCHANGED <<now, site, lease, held, lost, fails, beaten, blind,
                   mem, dirty, commit, stop, by, files>>

\* A lease file cannot be read for a while, or is removed by hand.
Blinded(p, f) ==
    /\ f \in held[p] /\ <<p, f>> \notin blind /\ Running(p) /\ Fault
    /\ blind' = blind \cup {<<p, f>>}
    /\ UNCHANGED <<now, site, lease, pc, held, lost, fails, beaten, server, files>>

Sees(p, f) ==
    /\ <<p, f>> \in blind
    /\ blind' = blind \ {<<p, f>>}
    /\ UNCHANGED <<now, site, lease, pc, held, lost, fails, beaten, server, files, faults>>

LeaseRemoved(f) ==
    /\ lease[f] # Null /\ Fault
    /\ lease' = [lease EXCEPT ![f] = Null]
    /\ UNCHANGED <<now, site, pc, held, lost, fails, beaten, blind, server, files>>

\* Without stalls a commit is over before the next beat is due.
Clock ==
    /\ site.stalls \/ \A p \in Procs : pc[p] = "up" => commit[p] \in {"idle", "failed"}
    /\ Tick
    /\ UNCHANGED <<server, files, faults>>

Commits(p) ==
    BeginCommit(p) \/ WriteOrders(p) \/ FenceFeed(p) \/ EndSweep(p) \/ AppendFeed(p)

Next ==
    \/ \E p \in Procs :
          \/ Start(p) \/ AcquireLease(p) \/ Load(p)
          \/ Read(p) \/ Commits(p)
          \/ Heartbeat(p) \/ Notified(p)
          \/ Signal(p) \/ Deadline(p) \/ Exit(p) \/ Killed(p)
          \/ \E r \in Requests :
                Arrive(p, r) \/ BodyArrives(p, r) \/ BodyFails(p, r) \/ PeerApply(p, r)
          \/ \E f \in Files : Blinded(p, f) \/ Sees(p, f)
    \/ \E f \in Files : LeaseRemoved(f)
    \/ Clock

\* The event loop of a process runs, its timers fire and bodies time out.
Fairness ==
    \A p \in Procs :
        /\ WF_vars(Commits(p)) /\ WF_vars(Notified(p))
        /\ WF_vars(Deadline(p)) /\ WF_vars(Exit(p))

Spec == Init /\ [][Next]_vars /\ Fairness

-----------------------------------------------------------------------------
(* Properties.                                                             *)

\* An answer of success is a receipt: through commits that fail half way,
\* kills, takeovers and restarts the mutation stays in the orders file and in
\* the feed, unless a process was displaced between a fence and its write
\* (runCommits(): "no client ever holds a receipt for a mutation the feed
\* never saw").
ReceiptsHold ==
    (\A p \in Procs : late[p] = 0)
        => {r \in Requests : at[r] = "told"} \subseteq orders \cap feed

\* However many takers and creates are in flight, a maker's authenticated
\* write is shed only while another one of the makers' is in flight
\* (admission.ts: "a maker can always withdraw or fill a stale-priced order").
MakerServed ==
    [][\A r \in Requests :
          r.lane = "maker" /\ at[r] # "shed" /\ at'[r] = "shed" =>
              \E q \in Requests \ {r} :
                  q.lane = "maker" /\ by[q] = by'[r] /\ at[q] \in {"body", "commit"}]_vars

\* A process that lost its lease, or whose commit failed, ends: memory past
\* the files is never served for good.
Stops ==
    \A p \in Procs :
        pc[p] = "up" /\ (lost[p] # {} \/ commit[p] = "failed") ~> pc[p] = "gone"
=============================================================================
