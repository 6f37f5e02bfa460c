---------------------------- MODULE MCOrderBook ----------------------------
(* Small instances of OrderBook for TLC.                                   *)
EXTENDS OrderBook, TLC

CONSTANTS m1, m2, v1, v2, i1, t1

TwoMirrors == {m1, m2}
OneIntent == {i1}
TwoVariants == {v1, v2}
OneTaker == {t1}

\* The second variant is a prelocked listing that expires earlier.
Expiries == [v \in Variants |-> IF v = v1 THEN 3 ELSE 2]
Prelocks == [v \in Variants |-> IF v = v1 THEN Null ELSE 2]

MirrorsAlike == Permutations(Mirrors)
=============================================================================
