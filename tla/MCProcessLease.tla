--------------------------- MODULE MCProcessLease ---------------------------
(* Small instances of ProcessLease for TLC: which processes share a PID    *)
(* namespace.                                                              *)
EXTENDS ProcessLease

CONSTANTS p1, p2, p3

ThreeProcs == {p1, p2, p3}

GuardWritten == InGuard \ {"guardWrite"}

OneHost == [p \in Procs |-> "host"]
TwoContainers == [p \in Procs |-> IF p = p1 THEN "a" ELSE "b"]

Site(ns, stalls, guardKills, until) ==
    [ns |-> ns, stalls |-> stalls, guardKills |-> guardKills, until |-> until]

\* Prompt processes in two containers; and, on one host, stalls and kills
\* anywhere but while the guard is half written.
OrderlyAndFaulty == {Site(TwoContainers, "no", {}, 4), Site(OneHost, "yes", GuardWritten, 1)}
=============================================================================
