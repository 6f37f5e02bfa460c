---------------------------- MODULE MCMirrorBook ----------------------------
(* Instances of MirrorBook for TLC.                                        *)
EXTENDS MirrorBook

Row(id, v) == [id |-> id, v |-> v]

\* The primary lists one variant of an order, then an unsigned row instead.
MCCatalogue == <<{Row(1, "v1")}, {Row(1, "unsigned")}>>

\* A peer lists the other variant, or a forged row, which hides what it lists.
MCPeerBooks == {{Row(1, "v2")}, {Row(1, "bad")}}

Site(streams, crowd, tabs, outages, changes_, hours, bound) ==
    [streams |-> streams, crowd |-> crowd, tabs |-> tabs, outages |-> outages,
     changes |-> changes_, hours |-> hours, faults |-> bound]

\* A browser that streams, alone or with others, and one without an
\* EventSource that is used for days.
MCSites == {Site(TRUE, TRUE, FALSE, TRUE, 2, 0, 1), Site(TRUE, FALSE, FALSE, FALSE, 1, 0, 1),
            Site(FALSE, FALSE, TRUE, FALSE, 1, Life, 2)}
=============================================================================
