----------------------------- MODULE MirrorBook -----------------------------
(***************************************************************************)
(* The order list of the browser (frontend/src/lib/mirrorBook.ts and       *)
(* orderbookClient.ts): full snapshots of several order books, the primary *)
(* one streamed (the book stream of server/src/server.ts and stream.ts),   *)
(* the others polled, combined into one list, with the ids of orders that  *)
(* were signed twice kept in quarantine.                                   *)
(*                                                                         *)
(* A row is [id, v]: variant v of an order whose maker signed it, or v one *)
(* of "unsigned" and "bad" (a forged or private row).  The payloads of the *)
(* primary book are numbered; Catalogue says which rows each one lists.    *)
(* All proofs are issued at the start.                                     *)
(***************************************************************************)
EXTENDS Integers, Sequences, FiniteSets

CONSTANTS
    Nil,
    Failed,       \* the answer of a request that failed
    Primary,
    Peers,
    Ids,
    Catalogue,    \* the primary's rows, per payload
    PeerBooks,    \* what a peer may list
    Life,         \* how long an order's signature lives
    Retention,    \* QUARANTINE_RETENTION_MS
    MaxWait,      \* MIRROR_RETRY_MAX_MS, in polls
    Sites         \* what the browser meets:
                  \*   streams  whether it has an EventSource
                  \*   crowd    whether others stream the primary's book
                  \*   tabs     whether another tab is open
                  \*   outages  whether mirrors go down, or else peers change what they list
                  \*   changes  bound on the changes of the primary's book
                  \*   hours    bound on the clock
                  \*   faults   bound on outages, reloads and whatever goes wrong

Mirrors == {Primary} \cup Peers

\* verifyOrderV1Auth() refuses a longer life than 48 hours.
ASSUME MirrorAssumption ==
    /\ Life \in Nat /\ Retention \in Nat /\ Life < Retention
    /\ MaxWait \in Nat \ {0}
    /\ Primary \notin Peers
    /\ Nil \notin Nat /\ 1 \in DOMAIN Catalogue
    /\ \A p \in DOMAIN Catalogue : \A row \in Catalogue[p] : row.id \in Ids
    /\ \A rows \in PeerBooks : \A row \in rows : row.id \in Ids

VARIABLES
    site,       \* the site, which never changes
    age,        \* hours since the orders were signed
    up,         \* mirrors that answer
    ver,        \* the primary's current payload
    changes,    \* how often it has changed
    returned,   \* whether it came back to what was broadcast last, unpushed
    listed,     \* what each peer lists
    last,       \* lastBookPayload
    queued,     \* pushQueued
    wire,       \* Nil, or the frames on their way to this tab's EventSource
    blocked,    \* BoundedSseWriter.blocked
    on,         \* the order book panel is mounted
    source,     \* the EventSource: "none", "connecting", "open", "dead"
    stream,     \* the primary's MirrorStatus.stream
    avail,      \* MirrorStatus.availability
    snap,       \* snapshots
    retry,      \* MirrorRetryState: [failures, wait]
    req,        \* inFlightRefreshes: Nil or [fresh, answer]
    retained,   \* retainedQuarantines: the hour an id was observed, or Nil
    storage,    \* the same in localStorage
    conflicted, \* ids whose conflict some tab has seen
    faults

serverVars == <<site, up, ver, changes, returned, listed, last, queued>>
streamVars == <<wire, blocked, source>>
tabVars == <<stream, avail, snap, retry, req>>
quarantineVars == <<retained, storage, conflicted>>
listVars == <<age, serverVars, streamVars, on, tabVars, quarantineVars, faults>>

NoRetry == [failures |-> 0, wait |-> 0]
Nothing == [i \in Ids |-> Nil]

ListInit ==
    /\ age = 0 /\ site \in Sites
    /\ up = Mirrors /\ ver = 1 /\ changes = 0 /\ returned = FALSE /\ listed \in [Peers -> PeerBooks]
    /\ last = Nil /\ queued = FALSE
    /\ wire = Nil /\ blocked = FALSE
    /\ on = FALSE /\ source = "none" /\ stream = "closed"
    /\ avail = [m \in Mirrors |-> "checking"]
    /\ snap = [m \in Mirrors |-> Nil]
    /\ retry = [m \in Mirrors |-> NoRetry]
    /\ req = [m \in Mirrors |-> Nil]
    /\ retained = Nothing /\ storage = Nothing
    /\ conflicted = {}
    /\ faults = 0

Fault == faults < site.faults /\ faults' = faults + 1

-----------------------------------------------------------------------------
(* Quarantines.                                                            *)

\* Mutated form, used to check that the properties can fail: a quarantine is
\* kept no longer than half the life of an order.
pruneQuarantines_Half(q) == [i \in Ids |-> IF q[i] # Nil /\ age - q[i] < Life \div 2 THEN q[i] ELSE Nil]

pruneQuarantines(q) == [i \in Ids |-> IF q[i] # Nil /\ age - q[i] < Retention THEN q[i] ELSE Nil]

Later(x, y) == IF x = Nil THEN y ELSE IF y = Nil \/ x > y THEN x ELSE y

\* mergeRetainedQuarantines(), and the merge of saveQuarantines().
merged(q, r) == pruneQuarantines([i \in Ids |-> Later(q[i], r[i])])

\* saveQuarantines(): what is stored is read again first.
saveQuarantines(q) == merged(storage, q)

-----------------------------------------------------------------------------
(* The combined list.                                                      *)

Signed(row) == row.v \notin {"unsigned", "bad"}

\* isLapsedSignedOrder()
Lapsed(row) == Signed(row) /\ age >= Life

Book(m, payload) == IF m = Primary THEN Catalogue[payload] ELSE payload

\* acceptsSnapshot(): one bad row refuses them all; unsigned rows come from
\* the primary only.
acceptsSnapshot(m, rows) ==
    \A row \in rows : row.v # "bad" /\ (row.v = "unsigned" => m = Primary)

Rows(sn, av) == UNION {Book(m, sn[m]) : m \in {n \in Mirrors : av[n] = "available" /\ sn[n] # Nil}}

LiveSigned(rows) == {row \in rows : Signed(row) /\ ~Lapsed(row)}

\* aggregateMirrorOrders(): ids with two live variants.
Conflicts(rows) == {row.id : row \in {x \in LiveSigned(rows) :
                                 \E y \in LiveSigned(rows) : y.id = x.id /\ y.v # x.v}}

\* ... and the rows that remain.
Combined(rows) ==
    LET live == LiveSigned(rows) IN
    {row \in live : row.id \notin Conflicts(rows)}
        \cup {row \in rows : row.v = "unsigned" /\ \A x \in live : x.id # row.id}

\* current(): what would be shown or routed right now.
Shown ==
    LET q == merged(retained, storage)
    IN  {row \in Combined(Rows(snap, avail)) : q[row.id] = Nil}

\* What current() keeps of the conflicts it sees, with every emit().
Emit ==
    LET seen == Conflicts(Rows(snap', avail'))
        q == merged(retained, storage)
        new == {i \in seen : q[i] = Nil}
        kept == [i \in Ids |-> IF i \in new THEN age ELSE q[i]]
    IN  /\ storage' = IF new = {} THEN storage ELSE saveQuarantines(kept)
        /\ retained' = IF new = {} THEN q ELSE merged(kept, storage')
        /\ conflicted' = conflicted \cup seen

-----------------------------------------------------------------------------
(* Availability of one mirror.                                             *)

\* The delay doubles with every failure up to MIRROR_RETRY_MAX_MS; failures
\* beyond those that reach it are not told apart.
markUnavailable(r) ==
    LET delay == 2 ^ r.failures
    IN  IF delay < MaxWait THEN [failures |-> r.failures + 1, wait |-> delay]
        ELSE [failures |-> r.failures, wait |-> MaxWait]

\* nextGeneration(): the answer of a request in flight will be ignored, so
\* what it is no longer matters.
Outdated(r) == IF r = Nil THEN Nil ELSE [fresh |-> FALSE, answer |-> Failed]

Take(m, payload) ==
    IF acceptsSnapshot(m, Book(m, payload))
    THEN /\ snap' = [snap EXCEPT ![m] = payload]
         /\ avail' = [avail EXCEPT ![m] = "available"]
         /\ retry' = [retry EXCEPT ![m] = NoRetry]
    ELSE /\ snap' = [snap EXCEPT ![m] = Nil]
         /\ avail' = [avail EXCEPT ![m] = "unavailable"]
         /\ retry' = [retry EXCEPT ![m] = markUnavailable(@)]

Lose(m) ==
    /\ snap' = [snap EXCEPT ![m] = Nil]
    /\ avail' = [avail EXCEPT ![m] = "unavailable"]
    /\ retry' = [retry EXCEPT ![m] = markUnavailable(@)]

\* refreshClients(): one request per mirror at a time.
Requested(ms) ==
    [m \in Mirrors |-> IF m \in ms /\ req[m] = Nil THEN [fresh |-> TRUE, answer |-> Nil]
                       ELSE req[m]]

-----------------------------------------------------------------------------
(* The panel: subscribe(), refresh(), the poll and close().                *)

Open ==
    /\ ~on
    /\ on' = TRUE
    /\ IF site.streams
       THEN /\ source' = "connecting" /\ stream' = "connecting"
            /\ avail' = [avail EXCEPT ![Primary] = IF @ = "unavailable" THEN "checking" ELSE @]
            /\ UNCHANGED <<snap, retry>>
       ELSE UNCHANGED <<source, stream>> /\ Lose(Primary)
    /\ req' = Requested(Mirrors)
    /\ Emit
    /\ UNCHANGED <<age, serverVars, wire, blocked, faults>>

\* refreshDisconnected(): which mirrors are due.
refreshDisconnected ==
    {m \in Mirrors : /\ ~(avail[m] = "unavailable" /\ retry[m].wait > 1)
                     /\ \/ m # Primary \/ stream # "open"
                        \/ avail[m] # "available"}

Poll ==
    /\ on
    /\ req' = Requested(refreshDisconnected)
    /\ retry' = [m \in Mirrors |-> [retry[m] EXCEPT !.wait = IF @ > 0 THEN @ - 1 ELSE 0]]
    /\ UNCHANGED <<stream, avail, snap>> /\ Emit
    /\ UNCHANGED <<age, serverVars, streamVars, on, faults>>

\* close(): the requests in flight are forgotten, and since a generation of
\* theirs is over their answers change nothing.
Close ==
    /\ on /\ Fault
    /\ on' = FALSE
    /\ source' = "none" /\ wire' = Nil /\ blocked' = FALSE /\ stream' = "closed"
    /\ avail' = [m \in Mirrors |-> "unavailable"]
    /\ snap' = [m \in Mirrors |-> Nil]
    /\ retry' = [m \in Mirrors |-> markUnavailable(retry[m])]
    /\ req' = [m \in Mirrors |-> Nil]
    /\ UNCHANGED <<age, serverVars, quarantineVars>>

\* The page is loaded anew: everything but localStorage is gone.
PageLoads ==
    /\ Fault
    /\ on' = FALSE
    /\ source' = "none" /\ wire' = Nil /\ blocked' = FALSE /\ stream' = "closed"
    /\ avail' = [m \in Mirrors |-> "checking"]
    /\ snap' = [m \in Mirrors |-> Nil]
    /\ retry' = [m \in Mirrors |-> NoRetry]
    /\ req' = [m \in Mirrors |-> Nil]
    /\ storage' = pruneQuarantines(storage) /\ retained' = storage'
    /\ UNCHANGED <<age, serverVars, conflicted>>

\* The request reaches its mirror, or fails.
Answer(m) ==
    /\ req[m] # Nil /\ req[m].answer = Nil
    /\ req' = [req EXCEPT ![m].answer = IF m \notin up THEN Failed
                                        ELSE IF m = Primary THEN ver ELSE listed[m]]
    /\ UNCHANGED <<age, serverVars, streamVars, on, stream, avail, snap, retry, quarantineVars,
                   faults>>

\* The then, catch and finally of the request.
Deliver(m) ==
    /\ req[m] # Nil /\ req[m].answer # Nil
    /\ IF ~req[m].fresh THEN UNCHANGED <<snap, avail, retry>>
       ELSE IF req[m].answer = Failed THEN Lose(m)
       ELSE Take(m, req[m].answer)
    /\ req' = [req EXCEPT ![m] = Nil]
    /\ UNCHANGED stream /\ Emit
    /\ UNCHANGED <<age, serverVars, streamVars, on, faults>>

-----------------------------------------------------------------------------
(* The book stream.                                                        *)

\* BoundedSseWriter.write(): a frame for a reader that is still blocked ends
\* the connection; a reader that does not keep up blocks.
Written(w) ==
    IF wire = Nil THEN UNCHANGED <<wire, blocked, faults>>
    ELSE IF blocked THEN wire' = Nil /\ blocked' = FALSE /\ UNCHANGED faults
    ELSE /\ wire' = wire \o w
         /\ \/ UNCHANGED <<blocked, faults>>
            \/ wire' # <<>> /\ blocked' = TRUE /\ Fault

\* openStream(): the current payload is written at once.  At its limit of
\* connections the server answers 503, after which an EventSource is dead.
Connect ==
    /\ source = "connecting" /\ wire = Nil /\ Primary \in up
    /\ \/ /\ wire' = <<ver>>
          /\ source' = "open" /\ stream' = "open"
          /\ UNCHANGED <<avail, snap, retry, req, faults>>
       \/ /\ Fault
          /\ source' = "dead" /\ wire' = Nil /\ stream' = "closed"
          /\ IF stream # "closed"
             THEN Lose(Primary) /\ req' = [req EXCEPT ![Primary] = Outdated(@)]
             ELSE UNCHANGED <<avail, snap, retry, req>>
    /\ Emit
    /\ UNCHANGED <<age, serverVars, blocked, on>>

\* Mutated form, used to check that the properties can fail: a frame leaves
\* a list request in flight valid.
Superseded_Not(r) == r

\* nextGeneration() of a book event.
Superseded(r) == Outdated(r)

\* The "book" event.
Frame ==
    /\ source = "open" /\ wire # Nil /\ wire # <<>>
    /\ Take(Primary, Head(wire))
    /\ stream' = IF acceptsSnapshot(Primary, Catalogue[Head(wire)]) THEN "open" ELSE "closed"
    /\ req' = [req EXCEPT ![Primary] = Superseded(@)]
    /\ wire' = Tail(wire)
    /\ blocked' = (blocked /\ Tail(wire) # <<>>)
    /\ Emit
    /\ UNCHANGED <<age, serverVars, on, source, faults>>

\* The "error" event: the connection is gone and the browser tries again.
Disconnected ==
    /\ source = "open" /\ wire = Nil
    /\ source' = "connecting" /\ stream' = "closed"
    /\ Lose(Primary)
    /\ req' = [req EXCEPT ![Primary] = Outdated(@)]
    /\ Emit
    /\ UNCHANGED <<age, serverVars, wire, blocked, on, faults>>

\* pushBook(): what was broadcast last is not broadcast again.
pushBook ==
    IF wire = Nil /\ ~site.crowd THEN last' = Nil /\ UNCHANGED <<wire, blocked, faults>>
    ELSE IF last = ver THEN UNCHANGED <<last, wire, blocked, faults>>
    ELSE last' = ver /\ Written(<<ver>>)

\* The book changes: by a group commit, whose notify() queues a push, or by a
\* maker whose presence lapses, which only the tick notices.
Change ==
    /\ Primary \in up /\ changes < site.changes /\ changes' = changes + 1
    /\ ver' \in DOMAIN Catalogue \ {ver}
    /\ returned' = (returned \/ ver' = last)
    /\ \E commits \in BOOLEAN : queued' = (queued \/ commits)
    /\ UNCHANGED <<age, up, listed, last, site, streamVars, on, tabVars, quarantineVars, faults>>

Push ==
    /\ queued /\ queued' = FALSE
    /\ pushBook
    /\ UNCHANGED <<age, up, ver, changes, returned, listed, site, source, on, tabVars, quarantineVars>>

\* The 15 s tick: a push, or else a ping, which also meets a blocked reader.
StreamTick ==
    /\ Primary \in up
    /\ IF (wire # Nil \/ site.crowd) /\ last = ver
       THEN Written(<<>>) /\ UNCHANGED last
       ELSE pushBook
    /\ UNCHANGED <<age, up, ver, changes, returned, listed, queued, site, source, on, tabVars, quarantineVars>>

\* A mirror goes down, its streams with it, and comes back.
Down(m) ==
    /\ site.outages /\ m \in up /\ Fault
    /\ up' = up \ {m}
    /\ IF m = Primary
       THEN wire' = Nil /\ blocked' = FALSE /\ last' = Nil /\ queued' = FALSE
       ELSE UNCHANGED <<wire, blocked, last, queued>>
    /\ UNCHANGED <<age, ver, changes, returned, listed, site, source, on, tabVars, quarantineVars>>

Up(m) ==
    /\ m \notin up
    /\ up' = up \cup {m}
    /\ UNCHANGED <<age, ver, changes, returned, listed, last, queued, site, streamVars, on, tabVars, quarantineVars, faults>>

PeerLists(m) ==
    /\ ~site.outages /\ Fault
    /\ \E rows \in PeerBooks \ {listed[m]} : listed' = [listed EXCEPT ![m] = rows]
    /\ UNCHANGED <<age, up, ver, changes, returned, last, queued, site, streamVars, on, tabVars, quarantineVars>>

-----------------------------------------------------------------------------
(* The other tab and the clock.                                            *)

\* Another tab sees a conflict and saves it, merged with what is stored.
OtherSees(i) ==
    /\ site.tabs /\ age < Life /\ Fault
    /\ storage' = saveQuarantines([Nothing EXCEPT ![i] = age])
    /\ conflicted' = conflicted \cup {i}
    /\ UNCHANGED <<age, serverVars, streamVars, on, tabVars, retained>>

\* The storage event of what the other tab has saved.
StorageEvent ==
    /\ retained # merged(retained, storage)
    /\ retained' = merged(retained, storage)
    /\ UNCHANGED <<age, serverVars, streamVars, on, tabVars, storage, conflicted, faults>>

Hour ==
    /\ age < site.hours
    /\ age' = age + 1
    /\ UNCHANGED <<serverVars, streamVars, on, tabVars, quarantineVars, faults>>

ListNext ==
    \/ Open \/ Poll \/ Close \/ PageLoads
    \/ Connect \/ Frame \/ Disconnected
    \/ Change \/ Push \/ StreamTick
    \/ \E m \in Mirrors : Answer(m) \/ Deliver(m) \/ Down(m) \/ Up(m)
    \/ \E m \in Peers : PeerLists(m)
    \/ \E i \in Ids : OtherSees(i)
    \/ StorageEvent \/ Hour

\* The browser's and the server's timers fire, requests end, events are
\* delivered.  A mirror need not come back, the panel need not be opened.
Fairness ==
    /\ WF_listVars(Poll) /\ WF_listVars(Push) /\ WF_listVars(StreamTick)
    /\ WF_listVars(Frame) /\ WF_listVars(Disconnected)
    /\ WF_listVars(Connect /\ source' = "open")
    /\ \A m \in Mirrors : WF_listVars(Answer(m)) /\ WF_listVars(Deliver(m))

ListSpec == ListInit /\ [][ListNext]_listVars /\ Fairness

-----------------------------------------------------------------------------
(* Properties.                                                             *)

\* An order that a tab of this browser has seen signed in two variants is
\* neither shown nor routed again while its signatures live: whatever one
\* mirror hides later, over reloads, and although tabs write the same record
\* (current(), saveQuarantines()).
QuarantineHolds ==
    age < Life => \A row \in Shown : row.id \notin conflicted

\* While the panel stays open and every mirror stays up, the list ends on
\* what the mirrors list now: no late answer, dropped frame, suppressed push
\* or backoff leaves an old snapshot, or none, in place.  The exception is a
\* book that came back to the payload broadcast last before the difference
\* was pushed: pushBook() takes it for known, and a tab that connected in
\* between was sent the difference by openStream().
Fresh ==
    <>[](on /\ up = Mirrors /\ ~returned)
        => <>[](\A m \in Mirrors :
                   LET payload == IF m = Primary THEN ver ELSE listed[m]
                   IN  IF acceptsSnapshot(m, Book(m, payload))
                       THEN avail[m] = "available" /\ snap[m] = payload
                       ELSE snap[m] = Nil)
=============================================================================
