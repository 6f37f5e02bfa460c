---------------------------- MODULE MCBookServer ----------------------------
(* Instances of BookServer for TLC.                                        *)
EXTENDS BookServer, TLC

CONSTANTS p1, p2, p3

Req(id, lane, src) == [id |-> id, lane |-> lane, src |-> src]

OneOfEach == {Req(1, "taker", "a"), Req(2, "peer", "b")}
Rush == {Req(1, "taker", "a"), Req(3, "signed-create", "a"),
         Req(4, "maker", "a"), Req(5, "maker", "b")}

AllRequests == OneOfEach \cup Rush

SameFiles == [p \in Procs |-> <<2, 1>>]
Overlapping == (p1 :> <<1, 2>>) @@ (p2 :> <<2, 3>>) @@ (p3 :> <<3, 1>>)

\* One process with requests of every lane.
Rushed ==
    [procs |-> <<p1>>, ns |-> [p \in Procs |-> "host"], config |-> SameFiles,
     stalls |-> FALSE, faults |-> 0, until |-> 0, reqs |-> Rush]

Containers == (p1 :> "c1") @@ (p2 :> "c2") @@ (p3 :> "unknown")
OneHost == [p \in Procs |-> "host"]

Successors(ns, stalls, bound, reqs) ==
    [procs |-> <<p1, p2>>, ns |-> ns, config |-> SameFiles, stalls |-> stalls,
     faults |-> bound, until |-> TTL, reqs |-> reqs]

\* Two processes that succeed each other, in two containers or on one host:
\* a fault in processes that keep time, and stalls of any length.
Succession ==
    {Successors(Containers, FALSE, 1, {Req(1, "taker", "a")}),
     Successors(OneHost, FALSE, 1, {Req(2, "peer", "b")}),
     Successors(Containers, TRUE, 0, OneOfEach)}

\* Three starters whose sets of files overlap.
Racing ==
    [procs |-> <<p1, p2, p3>>, ns |-> [p \in Procs |-> "host"], config |-> Overlapping,
     stalls |-> FALSE, faults |-> 0, until |-> 0, reqs |-> {}]

MCSites == {Rushed, Racing} \cup Succession
MCMutations == [total |-> 2, reserved |-> 1]
MCBodyReads == [total |-> 3, reserved |-> 2]
=============================================================================
