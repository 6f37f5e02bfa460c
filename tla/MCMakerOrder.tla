---------------------------- MODULE MCMakerOrder ----------------------------
(* Small instances of MakerOrder for TLC.                                  *)
EXTENDS MakerOrder, TLC

CONSTANTS i1, i2

OneTaker == {i1}
TwoTakers == {i1, i2}
TakersAlike == Permutations(Intents)
=============================================================================
