---------------------------- MODULE AtomicEscrow ----------------------------
(***************************************************************************)
(* What the escrow contract promises its users, with no calls, frames,     *)
(* tokens that misbehave, or credits in it.                                *)
(*                                                                         *)
(* A swap record is created once, its recipient is fixed at most once, and *)
(* it is settled at most once, in one indivisible step that also gives the *)
(* amount to exactly one account.  Whether an account already holds what   *)
(* it was given or still has it as a credit is not visible here.           *)
(***************************************************************************)
EXTENDS Integers

CONSTANTS Accounts, Hashlocks, Preimages, Sha256, Assets, Zero, NoPreimage,
          AmountCap, Addresses, Times, EmptySwap

VARIABLES
    record,   \* the swap under each hashlock
    given,    \* what each account has been given so far, paid or credited
    clock     \* block time

absVars == <<record, given, clock>>

AbsInit ==
    /\ record = [h \in Hashlocks |-> EmptySwap]
    /\ given = [t \in Assets |-> [a \in Addresses |-> 0]]
    /\ clock = 0

Create(h) ==
    /\ record[h].status = "None"
    /\ \E i \in Accounts, r \in Accounts \cup {Zero}, t \in Assets,
          n \in 1 .. AmountCap, timeout \in Times :
        /\ timeout > clock
        /\ record' = [record EXCEPT ![h] =
              [initiator |-> i, recipient |-> r, token |-> t, amount |-> n,
               timeout |-> timeout, status |-> "Open", preimage |-> NoPreimage]]
    /\ UNCHANGED <<given, clock>>

FixRecipient(h) ==
    /\ record[h].status = "Open"
    /\ record[h].recipient = Zero
    /\ clock < record[h].timeout
    /\ \E r \in Accounts : record' = [record EXCEPT ![h].recipient = r]
    /\ UNCHANGED <<given, clock>>

\* The amount changes hands in the step that makes the record terminal.
Give(t, a, n) == given' = [given EXCEPT ![t][a] = @ + n]

ClaimSwap(h) ==
    /\ record[h].status = "Open"
    /\ record[h].recipient # Zero
    /\ clock < record[h].timeout
    /\ \E p \in Preimages :
        /\ Sha256[p] = h
        /\ record' = [record EXCEPT ![h].status = "Claimed", ![h].preimage = p]
    /\ Give(record[h].token, record[h].recipient, record[h].amount)
    /\ UNCHANGED clock

\* Back to the initiator: at the timeout, or at any time before a
\* recipient is fixed.
ReturnSwap(h) ==
    /\ record[h].status = "Open"
    /\ clock >= record[h].timeout \/ record[h].recipient = Zero
    /\ record' = [record EXCEPT ![h].status = "Refunded"]
    /\ Give(record[h].token, record[h].initiator, record[h].amount)
    /\ UNCHANGED clock

Advance ==
    /\ clock' = clock + 1
    /\ UNCHANGED <<record, given>>

AbsNext ==
    \/ \E h \in Hashlocks :
        Create(h) \/ FixRecipient(h) \/ ClaimSwap(h) \/ ReturnSwap(h)
    \/ Advance

AbsSpec == AbsInit /\ [][AbsNext]_absVars

=============================================================================
