----------------------------- MODULE MCBookFeed -----------------------------
(***************************************************************************)
(* An order a and its fill b, on a feed that retains one event, so that    *)
(* each append evicts the one before, and hands events out one at a time   *)
(* to a mirror that can defer one.                                         *)
(***************************************************************************)
EXTENDS BookFeed

CONSTANTS a, b

MCEvents == {a, b}
MCNeeds == (a :> Null) @@ (b :> a)
MCCatalogue == <<a, b>>
=============================================================================
