------------------------------ MODULE MCHTLCv3 ------------------------------
(* A small instance of HTLCv3 for TLC.                                     *)
EXTENDS HTLCv3, FiniteSetsExt

CONSTANTS a1, a2, h1, h2, p1, p2

MCSha256 == (p1 :> h1) @@ (p2 :> h2)

MCTotal(f) == MapThenSumSet(LAMBDA x : f[x], DOMAIN f)

Symmetry == Permutations(Accounts)

=============================================================================
