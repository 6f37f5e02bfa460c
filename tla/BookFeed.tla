------------------------------ MODULE BookFeed ------------------------------
(***************************************************************************)
(* How an accepted order reaches the other mirrors: the group commit of    *)
(* the order book (server/src/store.ts), its federation feed log           *)
(* (server/src/federation.ts), the wiring of both in server/src/server.ts  *)
(* and one mirror that pulls the feed (server/src/peer-sync.ts).           *)
(*                                                                         *)
(* The book's public state is the set of signed events it holds (an order, *)
(* its fill, ...); Needs names the event another one refers to.  Everything*)
(* the book does between two turns of its event loop is one action, except *)
(* that a crash may fall between the write of the orders file and the      *)
(* append to the feed log, and inside the append.                          *)
(***************************************************************************)
EXTENDS Integers, Sequences, FiniteSets, SequencesExt

CONSTANTS
    Null,
    Events,
    Needs,        \* the event each one refers to, or Null
    Catalogue,    \* the order in which federationSnapshot() lists events
    Ring,         \* maxEvents: how many events the feed retains
    PageLimit,    \* events in one page
    MaxDeferred,  \* MAX_DEFERRED_EVENTS_PER_PEER
    MaxSeq,       \* bound on the feed's sequence numbers
    MaxFaults     \* bound on crashes, failures and replays

ASSUME FeedAssumption ==
    /\ Null \notin Events /\ \A s \in SUBSET Events : s # Null
    /\ Needs \in [Events -> Events \cup {Null}]
    /\ Catalogue \in Seq(Events) /\ ToSet(Catalogue) = Events
    /\ Ring \in Nat \ {0} /\ PageLimit \in Nat \ {0} /\ MaxDeferred \in Nat
    /\ MaxSeq \in Nat /\ MaxFaults \in Nat

VARIABLES
    proc,      \* the book: "down", "up", "append" (orders file written), "failed"
    mem,       \* events in the store's memory
    file,      \* events in the orders file
    pending,   \* pendingFederationEvents
    dirty,     \* memory has moved past the orders file
    waiting,   \* events whose requests await flush()
    told,      \* events whose requests were answered with success
    feed,      \* FederationFeed: [id, next, ring, digest, lines]
    log,       \* the feed log as it is on disk
    ids,       \* feed identities drawn so far
    cache,     \* cachedResetPage
    expired,   \* events whose order is past its retention
    served,    \* <<id, seq, event>> handed out in pages
    cursor, have, deferred, page,   \* the mirror
    faults

\* A retained event, the digest of a set of events, the feed in memory and its
\* log, a cursor, a page on its way and a cached reset page.
Entry == [seq : Int, ev : Events]
Digests == SUBSET Events
Feeds == [id : Int, next : Int, ring : Seq(Entry), digest : Digests \cup {Null},
          lines : Int \cup {Null}]
Logs == [id : Int, header : Int, ring : Seq(Entry), digest : Digests \cup {Null}, lines : Int]
Cursors == [id : Int, seq : Int]
Pages == [cur : Cursors, todo : Seq(Events)]
ResetPages == [cur : Cursors, snap : SUBSET Events]

ASSUME NullAssumption ==
    Null \notin Int \cup Feeds \cup Logs \cup Cursors \cup Pages \cup ResetPages

book == <<proc, mem, file, pending, dirty, waiting, told, feed, log, ids, cache>>
mirror == <<cursor, have, deferred, page>>
vars == <<book, expired, served, mirror, faults>>

Init ==
    /\ proc = "down"
    /\ mem = {} /\ file = {} /\ pending = <<>> /\ dirty = FALSE
    /\ waiting = {} /\ told = {}
    /\ feed = Null /\ log = Null /\ ids = 0 /\ cache = Null
    /\ expired = {} /\ served = {}
    /\ cursor = Null /\ have = {} /\ deferred = {} /\ page = Null
    /\ faults = 0

Fault == faults < MaxFaults /\ faults' = faults + 1

-----------------------------------------------------------------------------
(* The feed and its log.                                                   *)

Known(f, e) == \E i \in DOMAIN f.ring : f.ring[i].ev = e

\* The ring keeps the newest maxEvents entries.
Trimmed(ring) == SubSeq(ring, IF Len(ring) > Ring THEN Len(ring) - Ring + 1 ELSE 1, Len(ring))

\* stageAppend(): an event the ring holds is not appended again; either way
\* the digest is unknown from here on.
stageAppend(f, e) ==
    IF Known(f, e) THEN [f EXCEPT !.digest = Null]
    ELSE [f EXCEPT !.next = @ + 1,
                   !.ring = Trimmed(Append(@, [seq |-> f.next, ev |-> e])),
                   !.digest = Null]

Staged(f, events) ==
    LET after[k \in 0..Len(events)] ==
            IF k = 0 THEN f ELSE stageAppend(after[k - 1], events[k])
    IN  after[Len(events)]

\* Log lines that a batch costs: one per new event and one for the digest.
Owed(f, g) == (g.next - f.next) + (IF f.digest # g.digest THEN 1 ELSE 0)

\* The log right after compact().
Compacted(f) ==
    [id |-> f.id, header |-> f.next, ring |-> f.ring, digest |-> f.digest,
     lines |-> Len(f.ring)]

\* The log after g's new lines were appended to the one that held f.
Extended(f, g) ==
    [log EXCEPT !.ring = g.ring, !.digest = g.digest, !.lines = @ + Owed(f, g)]

MaxLines == Ring + ((Ring + 3) \div 4)

Overflows(f, g) == f.lines + Owed(f, g) > MaxLines

\* appendLines(): what memory and the log become.  A log that was never
\* written, or that an earlier failure left in doubt, is written afresh.
Appended(f, g) ==
    IF f.lines = Null \/ Overflows(f, g)
    THEN [feed |-> [g EXCEPT !.lines = Len(g.ring)], log |-> Compacted(g)]
    ELSE [feed |-> [g EXCEPT !.lines = @ + Owed(f, g)], log |-> Extended(f, g)]

\* What a crash or a failed rollback in the middle of the append leaves: a
\* prefix of the batch, perhaps without the digest line of its first event.
Torn ==
    IF feed.lines = Null THEN {log, Compacted(Staged(feed, pending))}
    ELSE {Extended(feed, Staged(feed, SubSeq(pending, 1, k))) : k \in 0..Len(pending)}
         \cup {[Extended(feed, Staged(feed, SubSeq(pending, 1, 1)))
                   EXCEPT !.digest = feed.digest]}

\* Mutated form, used to check that the properties can fail: the next
\* sequence number is the one in the log's header.
Load_HeaderOnly(l) == [id |-> l.id, next |-> l.header, ring |-> l.ring,
                       digest |-> l.digest, lines |-> l.lines]

\* parseLog()
Load(l) ==
    [id |-> l.id,
     next |-> IF l.ring # <<>> /\ Last(l.ring).seq >= l.header
              THEN Last(l.ring).seq + 1 ELSE l.header,
     ring |-> l.ring, digest |-> l.digest, lines |-> l.lines]

FreshFeed == [id |-> ids + 1, next |-> 1, ring |-> <<>>, digest |-> Null, lines |-> Null]

Oldest(f) == IF f.ring = <<>> THEN f.next ELSE Head(f.ring).seq

\* The feed answers a cursor only if it can name everything that follows it.
requiresReset(f, c) ==
    ~ /\ c # Null
      /\ c.id = f.id
      /\ c.seq \in (Oldest(f) - 1)..(f.next - 1)

\* A cached reset page survives only new events that follow its cursor.
CacheAfter(f, g) ==
    IF \/ cache = Null
       \/ g.next = f.next
       \/ f.digest # Null
       \/ requiresReset(g, cache.cur)
    THEN Null ELSE cache

-----------------------------------------------------------------------------
(* The book.                                                               *)

Swept == mem \ expired

\* Mutated form, used to check that the properties can fail: a request
\* is answered before its commit.
Answer_AtOnce(e) == told' = told \cup {e} /\ UNCHANGED waiting

\* flush(): a caller waits for the commit that covers what it saw, and is
\* answered at once when there is none.
Answer(e) ==
    IF dirty' THEN waiting' = waiting \cup {e} /\ UNCHANGED told
    ELSE told' = told \cup {e} /\ UNCHANGED waiting

\* Every request sweeps first.  An event that is there already changes
\* nothing.
Accept(e) ==
    /\ proc = "up"
    /\ Needs[e] = Null \/ Needs[e] \in Swept
    /\ e \notin expired
    /\ LET new == e \notin Swept IN
       /\ new => feed.next + Len(pending) < MaxSeq
       /\ mem' = Swept \cup {e}
       /\ pending' = IF new THEN Append(pending, e) ELSE pending
       /\ dirty' = (dirty \/ new \/ Swept # mem)
    /\ Answer(e)
    /\ UNCHANGED <<proc, file, feed, log, ids, cache, expired, served, mirror, faults>>

\* A plain read sweeps too.
ReadSweeps ==
    /\ proc = "up" /\ Swept # mem
    /\ mem' = Swept /\ dirty' = TRUE
    /\ UNCHANGED <<proc, file, pending, waiting, told, feed, log, ids, cache,
                   expired, served, mirror, faults>>

\* runCommits(), first half: the orders file.
WriteSnapshot ==
    /\ proc = "up" /\ dirty
    /\ file' = mem /\ dirty' = FALSE /\ proc' = "append"
    /\ UNCHANGED <<mem, pending, waiting, told, feed, log, ids, cache,
                   expired, served, mirror, faults>>

\* runCommits() after its writes: the callers are answered.
Settled ==
    /\ told' = told \cup waiting /\ waiting' = {} /\ pending' = <<>>
    /\ proc' = "up"
    /\ UNCHANGED <<mem, file, dirty, ids, expired, served, mirror>>

\* runCommits(), second half: the feed, then the callers.
AppendBatch ==
    /\ proc = "append"
    /\ LET g == Staged(feed, pending) IN
       IF Owed(feed, g) = 0
       THEN UNCHANGED <<feed, log>> /\ cache' = IF pending = <<>> THEN cache ELSE Null
       ELSE /\ feed' = Appended(feed, g).feed
            /\ log' = Appended(feed, g).log
            /\ cache' = CacheAfter(feed, g)
    /\ Settled
    /\ UNCHANGED faults

\* The append is durable and the compaction that should follow it fails: the
\* next write of the feed retries it.
CompactionFails ==
    /\ Fault
    /\ proc = "append" /\ pending # <<>> /\ feed.lines # Null
    /\ LET g == Staged(feed, pending) IN
       /\ Overflows(feed, g)
       /\ feed' = [g EXCEPT !.lines = Null]
       /\ log' = Extended(feed, g)
       /\ cache' = CacheAfter(feed, g)
    /\ Settled

\* Either write fails: the ring is rolled back, every caller is refused and
\* the process stops.
CommitFails ==
    /\ Fault
    /\ \/ /\ proc = "up" /\ dirty
          /\ file' \in {file, mem}
          /\ UNCHANGED <<feed, log, cache>>
       \/ /\ proc = "append" /\ pending # <<>>
          /\ log' \in Torn
          /\ feed' = [feed EXCEPT !.lines = Null] /\ cache' = Null
          /\ UNCHANGED file
    /\ proc' = "failed" /\ waiting' = {} /\ pending' = <<>>
    /\ UNCHANGED <<mem, dirty, told, ids, expired, served, mirror>>

Gone ==
    /\ proc' = "down" /\ mem' = {} /\ pending' = <<>> /\ dirty' = FALSE
    /\ waiting' = {} /\ feed' = Null /\ cache' = Null

Crash ==
    /\ Fault /\ proc # "down" /\ Gone
    /\ log' \in (IF proc = "append" /\ pending # <<>> THEN Torn ELSE {log})
    /\ UNCHANGED <<file, told, ids, expired, served, mirror>>

\* Mutated form, used to check that the properties can fail: every exit
\* records the digest of what is in memory.
CanCheckpoint_AnyExit == TRUE

\* shouldRecordFederationCheckpoint() and hasUncommittedState()
CanCheckpoint == proc = "up" /\ ~dirty

\* A clean stop has drained its commits, and a failed commit stops the
\* process; the exit handler records the digest of what a sweep leaves.
Stop ==
    /\ \/ proc = "up" /\ ~dirty /\ Fault
       \/ proc = "failed" /\ UNCHANGED faults
    /\ Gone
    /\ LET f == [feed EXCEPT !.digest = Swept] IN
       log' = IF CanCheckpoint /\ feed.digest # Swept THEN Appended(feed, f).log ELSE log
    /\ UNCHANGED <<file, told, ids, expired, served, mirror>>

\* The log is unreadable at the next start and is moved aside.
LogLost ==
    /\ Fault /\ proc = "down" /\ log # Null
    /\ log' = Null
    /\ UNCHANGED <<proc, mem, file, pending, dirty, waiting, told, feed, ids, cache,
                   expired, served, mirror>>

\* reconcileSnapshot(): the identity is kept only if the recorded digest
\* describes the store that was loaded.
Reconciles(f, snapshot) == f.digest = snapshot

Start ==
    /\ proc = "down"
    /\ LET loaded == IF log = Null THEN FreshFeed ELSE Load(log)
           snapshot == file \ expired
           rotated == [loaded EXCEPT !.id = ids + 2, !.digest = snapshot,
                                     !.lines = Len(loaded.ring)]
       IN /\ mem' = snapshot
          /\ dirty' = (snapshot # file)
          /\ IF Reconciles(loaded, snapshot)
             THEN feed' = loaded /\ UNCHANGED <<log, ids>>
             ELSE feed' = rotated /\ log' = Compacted(rotated) /\ ids' = ids + 2
    /\ proc' = "up"
    /\ UNCHANGED <<file, pending, waiting, told, cache, expired, served, mirror, faults>>

\* An order passes its retention, and what refers to it goes with it.
Expire(e) ==
    /\ e \notin expired
    /\ Needs[e] = Null
    /\ expired' = expired \cup {e} \cup {d \in Events : Needs[d] = e}
    /\ UNCHANGED <<book, served, mirror, faults>>

-----------------------------------------------------------------------------
(* The mirror.                                                             *)

\* SelectSeq by position, as a function that the proofs can follow.
Kept(s, positions) ==
    LET upTo[k \in 0..Len(s)] ==
            IF k = 0 THEN <<>>
            ELSE IF k \in positions THEN Append(upTo[k - 1], s[k]) ELSE upTo[k - 1]
    IN  upTo[Len(s)]

\* The snapshot's events in the order of federationSnapshot().
Listed(snap) == Kept(Catalogue, {i \in DOMAIN Catalogue : Catalogue[i] \in snap})

ServeReset ==
    /\ proc = "up" /\ ~dirty
    /\ page = Null
    /\ requiresReset(feed, cursor)
    /\ LET built == [cur |-> [id |-> feed.id, seq |-> feed.next - 1], snap |-> mem]
       IN \E answer \in {built} \cup
                        (IF cache # Null /\ ~requiresReset(feed, cache.cur)
                         THEN {cache} ELSE {}) :
            /\ cache' = answer
            /\ page' = [cur |-> answer.cur,
                        todo |-> Listed(answer.snap)]
    /\ UNCHANGED <<proc, mem, file, pending, dirty, waiting, told, feed, log, ids,
                   expired, served, cursor, have, deferred, faults>>

\* page(): the retained events that follow the cursor, up to the page's limit.
Selected(f, c) ==
    LET available == Kept(f.ring, {i \in DOMAIN f.ring : f.ring[i].seq > c.seq})
    IN  SubSeq(available, 1, IF Len(available) < PageLimit THEN Len(available) ELSE PageLimit)

ServePage ==
    /\ proc \in {"up", "failed"}
    /\ page = Null
    /\ ~requiresReset(feed, cursor)
    /\ LET selected == Selected(feed, cursor)
       IN /\ selected # <<>>
          /\ page' = [cur |-> [id |-> feed.id, seq |-> Last(selected).seq],
                      todo |-> [i \in DOMAIN selected |-> selected[i].ev]]
          /\ served' = served \cup
                 {<<feed.id, selected[i].seq, selected[i].ev>> : i \in DOMAIN selected}
    /\ UNCHANGED <<book, expired, cursor, have, deferred, faults>>

Resolved(e) == Needs[e] = Null \/ Needs[e] \in have

Consumed == page' = [page EXCEPT !.todo = Tail(@)]

\* applyRecord(): the record is on the mirror's disk before the next one.
TakeRecord ==
    /\ page # Null /\ page.todo # <<>>
    /\ LET e == Head(page.todo) IN
       /\ e \notin deferred /\ Resolved(e)
       /\ have' = have \cup {e}
    /\ Consumed
    /\ UNCHANGED <<book, expired, served, cursor, deferred, faults>>

\* deferRecord(): its order is missing, or the mirror is full for now.  A
\* full queue resets the peer.
DeferRecord ==
    /\ page # Null /\ page.todo # <<>>
    /\ LET e == Head(page.todo) IN
       /\ IF e \in deferred \/ ~Resolved(e) THEN UNCHANGED faults ELSE Fault
       /\ IF e \notin deferred /\ Cardinality(deferred) >= MaxDeferred
          THEN deferred' = {} /\ cursor' = Null /\ page' = Null
          ELSE deferred' = deferred \cup {e} /\ Consumed /\ UNCHANGED cursor
    /\ UNCHANGED <<book, expired, served, have>>

FinishPage ==
    /\ page # Null /\ page.todo = <<>>
    /\ cursor' = page.cur /\ page' = Null
    /\ UNCHANGED <<book, expired, served, have, deferred, faults>>

\* retryDeferred()
RetryDeferred ==
    /\ page = Null
    /\ \E e \in deferred :
        /\ Resolved(e)
        /\ have' = have \cup {e} /\ deferred' = deferred \ {e}
    /\ UNCHANGED <<book, expired, served, cursor, page, faults>>

\* Mutated form, used to check that the properties can fail: the drop
\* of a deferred event leaves the cursor where it is.
DeferredExpires_KeepsCursor ==
    /\ page = Null
    /\ \E e \in deferred : deferred' = deferred \ {e}
    /\ UNCHANGED <<book, expired, served, cursor, have, page, faults>>

\* A deferred event that stays unresolved too long is dropped, and the feed
\* it came from is read again from the start.
DeferredExpires ==
    /\ page = Null
    /\ \E e \in deferred : deferred' = deferred \ {e}
    /\ cursor' = Null
    /\ UNCHANGED <<book, expired, served, have, page, faults>>

\* The deadline passes or the transfer breaks in the middle of a page.
SyncFails ==
    /\ Fault /\ page # Null /\ page' = Null
    /\ UNCHANGED <<book, expired, served, cursor, have, deferred>>

\* Cursors and deferred events live in memory.
MirrorRestarts ==
    /\ Fault
    /\ cursor' = Null /\ deferred' = {} /\ page' = Null
    /\ UNCHANGED <<book, expired, served, have>>

-----------------------------------------------------------------------------

Serve == ServeReset \/ ServePage
Commit == WriteSnapshot \/ AppendBatch

Next ==
    \/ \E e \in Events : Accept(e) \/ Expire(e)
    \/ ReadSweeps \/ Commit \/ CompactionFails \/ CommitFails \/ Crash \/ Stop \/ LogLost \/ Start
    \/ Serve \/ TakeRecord \/ DeferRecord \/ FinishPage
    \/ RetryDeferred \/ DeferredExpires \/ SyncFails \/ MirrorRestarts

Spec == Init /\ [][Next]_vars

\* The book is supervised, its event loop turns, and the mirror syncs on a
\* timer.
FairSpec ==
    /\ Spec
    /\ WF_vars(Start) /\ WF_vars(Commit) /\ WF_vars(proc = "failed" /\ Stop)
    /\ WF_vars(Serve) /\ WF_vars(TakeRecord \/ DeferRecord) /\ WF_vars(FinishPage)
    /\ WF_vars(RetryDeferred)

-----------------------------------------------------------------------------
(* Properties.                                                             *)

\* No accepted mutation is permanently invisible to an existing peer
\* (server.ts, reconcileSnapshot at start): whatever crash, failed commit or
\* lost log came before, a mirror whose cursor the book would honour either
\* has every live event, holds it deferred, or will find it after its cursor.
NothingInvisible ==
    proc = "up" /\ ~requiresReset(feed, cursor) =>
        mem \ expired \subseteq
            have \cup deferred \cup Range(pending)
                 \cup {feed.ring[i].ev : i \in {j \in DOMAIN feed.ring :
                                                   feed.ring[j].seq > cursor.seq}}

\* A sequence number of a feed identity never names two events (parseLog, the
\* resumed sequence), across crashes, torn tails and clean restarts.
SeqNamesOneEvent ==
    \A x, y \in served : x[1] = y[1] /\ x[2] = y[2] => x[3] = y[3]

\* An event whose request was answered with success is in the orders file
\* until its order is past retention (flush() and runCommits()).
ToldSurvives == told \ expired \subseteq file

\* Every event a client holds a receipt for reaches a mirror that keeps
\* syncing, unless its order passes retention first.
Relayed == \A e \in Events : e \in told ~> e \in have \cup expired
=============================================================================
