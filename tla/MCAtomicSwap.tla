---------------------------- MODULE MCAtomicSwap ----------------------------
(* Small instances of AtomicSwap for TLC: who is honest, and what each     *)
(* hostile party may put on a leg.                                         *)
EXTENDS AtomicSwap

Lock(by, leg, to, token, amount, timeout) ==
    [by |-> by, leg |-> leg, to |-> to, token |-> token, amount |-> amount,
     timeout |-> timeout]

\* The hashlock taken first with a dust escrow.
Squats(t1, t2) == {Lock("third", "i", "taker", "agreed", "other", t1),
                   Lock("third", "r", "maker", "agreed", "other", t2)}

\* The agreed lock, one with a near timeout, and one wrong in each field.
TakerLockChoices(t2) == {Lock("taker", "r", "maker", "agreed", "agreed", t2),
                         Lock("taker", "r", "maker", "agreed", "agreed", t2 - 1),
                         Lock("taker", "r", "maker", "other", "agreed", t2),
                         Lock("taker", "r", "maker", "agreed", "other", t2),
                         Lock("taker", "r", Nobody, "agreed", "agreed", t2)}

MakerLockChoices(t1, t2) == {Lock("maker", "i", "taker", "agreed", "agreed", t1),
                             Lock("maker", "i", "taker", "agreed", "agreed", t2 + 1),
                             Lock("maker", "i", "taker", "other", "agreed", t1),
                             Lock("maker", "i", "taker", "agreed", "other", t1),
                             Lock("maker", "i", Nobody, "agreed", "agreed", t1)}

Cast(honest, t1, t2, locks) == [honest |-> honest, t1 |-> t1, t2 |-> t2, locks |-> locks]

\* The taker never reads who funded the maker's leg.
OneHostile == {Cast({"maker"}, 6, 3, Squats(6, 3) \cup TakerLockChoices(3)),
               Cast({"taker"}, 7, 2, MakerLockChoices(7, 2)
                                      \cup {s \in Squats(7, 2) : s.leg = "r"})}

NoneHostile == {Cast({"maker", "taker"}, 6, 2, Squats(6, 2))}
=============================================================================
