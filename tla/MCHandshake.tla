---------------------------- MODULE MCHandshake ----------------------------
(* Small instances of Handshake for TLC: who takes part.                   *)
EXTENDS Handshake

Cast(maker, taker, listing, bookIs, rival, faults_, retained) ==
    [maker |-> maker, taker |-> taker, listing |-> listing, book |-> bookIs, rival |-> rival,
     faults |-> faults_, retained |-> retained]

\* Both programs on each side, the three kinds of listing, a hostile maker
\* behind a hostile book, and an honest maker behind one.
Everyone ==
    {Cast("headless", "headless", "public", "honest", {0, 1}, 1, 2),
     Cast("headless", "browser", "public", "hostile", {}, 1, 2),
     Cast("browser", "headless", "prelocked", "hostile", {}, 0, 2),
     Cast("browser", "browser", "private", "honest", {}, 1, 2),
     Cast("hostile", "headless", "public", "hostile", {}, 0, 1),
     Cast("hostile", "browser", "prelocked", "hostile", {}, 0, 2)}

=============================================================================
