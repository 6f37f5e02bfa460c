------------------------------ MODULE MCBrowser -----------------------------
(* A small instance of Browser for TLC: either role, of a classic and of a  *)
(* pre-funded order.                                                        *)
EXTENDS Browser

EverySide == [role : {"maker", "taker"}, prelocked : BOOLEAN]
=============================================================================
