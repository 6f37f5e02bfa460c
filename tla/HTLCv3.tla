------------------------------- MODULE HTLCv3 -------------------------------
(***************************************************************************)
(* The hash-timelock escrow contract (contracts/hyperion/HTLCv3.hyp).      *)
(*                                                                         *)
(* One action per external function.  A function that hands control to a   *)
(* token or to a payee is split at that call: the first action runs up to  *)
(* the call and pushes a frame on `calls`, and a *Returns action (or       *)
(* Reverts) runs the rest.  In between, the callee may call any function   *)
(* of the contract; what keeps it out is the `entered` flag alone.         *)
(*                                                                         *)
(* The token and the payee are external: a call to them may fail, move     *)
(* nothing, move a part, or move the amount.  Only what the contract       *)
(* itself holds (`balance`, its own balanceOf / native balance) is kept.   *)
(***************************************************************************)
EXTENDS Integers, Sequences, FiniteSets, TLC

CONSTANTS
    Accounts,     \* addresses other than zero and the contract's own
    Hashlocks,    \* non-zero hashlocks
    Preimages,    \* candidate preimages
    Sha256,       \* the hash function, Preimages -> Hashlocks
    Tokens,       \* ERC-20 token addresses
    Native,       \* the native coin (token == address(0))
    Zero,         \* address(0)
    This,         \* address(this)
    NoPreimage,   \* bytes32(0)
    AmountCap,    \* type(uint128).max
    WordMax,      \* type(uint256).max
    Total(_),     \* the sum of the values of a function with a finite domain
    MaxTime       \* bound on block.timestamp and on timeouts

ASSUME BoundsAssumption ==
    /\ AmountCap \in Nat \ {0}
    /\ WordMax \in Nat
    /\ MaxTime \in Nat

ASSUME NamesAssumption ==
    /\ Native \notin Tokens
    /\ Zero \notin Accounts
    /\ This \notin Accounts
    /\ Zero # This
    /\ NoPreimage \notin Preimages
    /\ Sha256 \in [Preimages -> Hashlocks]

Assets == Tokens \cup {Native}
Addresses == Accounts \cup {Zero, This}

(* What the proofs use of a sum: it is a natural number, it is zero when   *)
(* every value is zero, and changing one value changes it by the           *)
(* difference.                                                             *)
ASSUME TotalOverSwaps ==
    /\ Total([h \in Hashlocks |-> 0]) = 0
    /\ \A f \in [Hashlocks -> 0 .. AmountCap] : Total(f) \in Nat
    /\ \A f \in [Hashlocks -> 0 .. AmountCap], h \in Hashlocks, n \in 0 .. AmountCap :
        Total([f EXCEPT ![h] = n]) = Total(f) + n - f[h]

ASSUME TotalOverCredits ==
    /\ Total([a \in Addresses |-> 0]) = 0
    /\ \A f \in [Addresses -> 0 .. WordMax] : Total(f) \in Nat
    /\ \A f \in [Addresses -> 0 .. WordMax], a \in Addresses, n \in 0 .. WordMax :
        Total([f EXCEPT ![a] = n]) = Total(f) + n - f[a]

(* "it takes 2^128 settlements" of the largest amount before a credit      *)
(* could overflow (HTLCv3.hyp, _lock): not as many hashlocks are used.     *)
ASSUME SwapsFit == \A f \in [Hashlocks -> 0 .. AmountCap] : Total(f) <= WordMax

Times == 0 .. MaxTime

\* Amounts a caller may pass: zero and one past the cap included.
Amounts == 0 .. AmountCap + 1

Statuses == {"None", "Open", "Claimed", "Refunded"}
Terminal == {"Claimed", "Refunded"}

VARIABLES
    swaps,        \* _swaps
    credits,      \* _credits[token][account]
    outstanding,  \* _outstanding[token]
    entered,      \* _entered: 1 idle, 2 inside a function
    balance,      \* what the contract holds of each asset
    now,          \* block.timestamp
    calls,        \* frames waiting for an external call, innermost first
    paidFor       \* history: what left the contract on an account's behalf

contractVars == <<swaps, credits, outstanding, entered, balance, paidFor>>
vars == <<swaps, credits, outstanding, entered, balance, now, calls, paidFor>>

Swap == [initiator : Addresses, recipient : Addresses, token : Assets,
         amount : Nat, timeout : Times, status : Statuses,
         preimage : Preimages \cup {NoPreimage}]

EmptySwap == [initiator |-> Zero, recipient |-> Zero, token |-> Native,
              amount |-> 0, timeout |-> 0, status |-> "None",
              preimage |-> NoPreimage]

\* Everything a revert puts back.
Snapshot == [swaps |-> swaps, credits |-> credits, outstanding |-> outstanding,
             entered |-> entered, balance |-> balance, paidFor |-> paidFor]

Restore(s) ==
    /\ swaps' = s.swaps
    /\ credits' = s.credits
    /\ outstanding' = s.outstanding
    /\ entered' = s.entered
    /\ balance' = s.balance
    /\ paidFor' = s.paidFor

Init ==
    /\ swaps = [h \in Hashlocks |-> EmptySwap]
    /\ credits = [t \in Assets |-> [a \in Addresses |-> 0]]
    /\ outstanding = [t \in Assets |-> 0]
    /\ entered = 1
    /\ balance = [t \in Assets |-> 0]
    /\ now = 0
    /\ calls = <<>>
    /\ paidFor = [t \in Assets |-> [a \in Addresses |-> 0]]

-----------------------------------------------------------------------------
(* Bookkeeping helpers.                                                    *)

Bump(f, t, n) == [f EXCEPT ![t] = @ + n]
Bump2(f, t, a, n) == [f EXCEPT ![t][a] = @ + n]

\* The frame an external call leaves behind.  `saved` undoes the whole
\* function, `child` undoes only the call (the selfDeliver frame).
Frame(kind, t, party, n, child) ==
    [kind |-> kind, token |-> t, party |-> party, amount |-> n,
     before |-> balance[t], saved |-> Snapshot, child |-> child]

Push(f) == calls' = <<f>> \o calls
Pop == calls' = Tail(calls)
Top == Head(calls)

-----------------------------------------------------------------------------
(* Mutated forms of the definitions below, used to check that the          *)
(* properties can fail.                                                    *)

NotEntered_NoGuard == TRUE
AmountOk_NoCap(amount) == amount # 0
RecipientOk_AnyTarget(recipient, open) == open => recipient = Zero
Unused_AfterSettlement(s) == s.status # "Open"
CanWithdraw_NoCreditCheck(caller, t, to, amount) ==
    to \notin {Zero, This} /\ amount # 0 /\ amount <= outstanding[t] + 1
LeftExactly_TrustsReturn(f, after) == after <= f.before
-----------------------------------------------------------------------------
(* The guards of the functions.                                            *)

NotEntered == entered = 1

AmountOk(amount) == amount # 0 /\ amount <= AmountCap

RecipientOk(recipient, open) ==
    IF open THEN recipient = Zero ELSE recipient \notin {Zero, This}

Unused(s) == s.status = "None"
IsOpen(s) == s.status = "Open"
Unassigned(s) == s.recipient = Zero

\* Where a settlement pays: a claim pays the recipient, everything else
\* returns the funds to the initiator.
Payee(s, status) == IF status = "Claimed" THEN s.recipient ELSE s.initiator

CanWithdraw(caller, t, to, amount) ==
    /\ to \notin {Zero, This}
    /\ amount # 0
    /\ amount <= credits[t][caller]

\* The exact-escrow check of _lockToken and the exact-payout check of
\* _strictPayout, on the token's balance after the call.
PulledExactly(f, after) == after - f.before = f.amount
LeftExactly(f, after) == f.before - after = f.amount

-----------------------------------------------------------------------------
(* Locking.                                                                *)

LockOk(h, recipient, amount, timeout, open) ==
    /\ NotEntered
    /\ Unused(swaps[h])
    /\ AmountOk(amount)
    /\ RecipientOk(recipient, open)
    /\ timeout > now

Locked(caller, h, recipient, t, amount, timeout) ==
    [swaps EXCEPT ![h] =
        [initiator |-> caller, recipient |-> recipient, token |-> t,
         amount |-> amount, timeout |-> timeout, status |-> "Open",
         preimage |-> NoPreimage]]

\* lockNative and lockNativeOpen: msg.value is already in the balance.
LockNative(caller, h, recipient, value, timeout, open) ==
    /\ LockOk(h, recipient, value, timeout, open)
    /\ swaps' = Locked(caller, h, recipient, Native, value, timeout)
    /\ balance' = Bump(balance, Native, value)
    /\ UNCHANGED <<credits, outstanding, entered, now, calls, paidFor>>

\* lockToken and lockTokenOpen up to token.transferFrom.
LockToken(caller, h, recipient, t, amount, timeout, open) ==
    /\ t \in Tokens
    /\ LockOk(h, recipient, amount, timeout, open)
    /\ swaps' = Locked(caller, h, recipient, t, amount, timeout)
    /\ entered' = 2
    /\ Push(Frame("pull", t, caller, amount, Snapshot))
    /\ UNCHANGED <<credits, outstanding, balance, now, paidFor>>

\* transferFrom returned and the balance grew by exactly the amount.
PullReturns(after) ==
    /\ calls # <<>>
    /\ Top.kind = "pull"
    /\ PulledExactly(Top, after)
    /\ balance' = [balance EXCEPT ![Top.token] = after]
    /\ entered' = 1
    /\ Pop
    /\ UNCHANGED <<swaps, credits, outstanding, now, paidFor>>

Assign(caller, h, recipient) ==
    /\ NotEntered
    /\ IsOpen(swaps[h])
    /\ caller = swaps[h].initiator
    /\ Unassigned(swaps[h])
    /\ recipient \notin {Zero, This}
    /\ now < swaps[h].timeout
    /\ swaps' = [swaps EXCEPT ![h].recipient = recipient]
    /\ UNCHANGED <<credits, outstanding, entered, balance, now, calls, paidFor>>

-----------------------------------------------------------------------------
(* Settlement: the terminal status is written first, then selfDeliver is   *)
(* tried in a frame of its own.                                            *)

Settle(h, status, preimage) ==
    LET s == swaps[h]
        settled == [swaps EXCEPT ![h].status = status, ![h].preimage = preimage]
    IN  /\ swaps' = settled
        /\ entered' = 2
        /\ Push(Frame("deliver", s.token, Payee(s, status), s.amount,
                      [Snapshot EXCEPT !.swaps = settled, !.entered = 2]))
        /\ UNCHANGED <<credits, outstanding, balance, now, paidFor>>

Release(caller, h) ==
    /\ NotEntered
    /\ IsOpen(swaps[h])
    /\ caller = swaps[h].initiator
    /\ Unassigned(swaps[h])
    /\ Settle(h, "Refunded", swaps[h].preimage)

Claim(h, p) ==
    /\ NotEntered
    /\ IsOpen(swaps[h])
    /\ ~Unassigned(swaps[h])
    /\ now < swaps[h].timeout
    /\ Sha256[p] = h
    /\ Settle(h, "Claimed", p)

Refund(h) ==
    /\ NotEntered
    /\ IsOpen(swaps[h])
    /\ now >= swaps[h].timeout
    /\ Settle(h, "Refunded", swaps[h].preimage)

\* The payout went through: native value moves by exactly the amount, a
\* token only counts when the balance fell by exactly the amount.
Paid(f, after) ==
    /\ IF f.token = Native THEN after = balance[Native] - f.amount
                           ELSE LeftExactly(f, after)
    /\ balance' = [balance EXCEPT ![f.token] = after]
    /\ paidFor' = Bump2(paidFor, f.token, f.party,
                        IF f.token = Native THEN f.amount ELSE f.before - after)
    /\ entered' = 1
    /\ Pop
    /\ UNCHANGED <<swaps, credits, outstanding, now>>

DeliverReturns(after) ==
    /\ calls # <<>>
    /\ Top.kind = "deliver"
    /\ Paid(Top, after)

\* The attempt reverted, ran out of gas, or moved a wrong amount: its frame
\* is undone and the payee is credited.
DeliverFails ==
    LET f == Top IN
    /\ calls # <<>>
    /\ f.kind = "deliver"
    /\ f.child.credits[f.token][f.party] + f.amount <= WordMax
    /\ f.child.outstanding[f.token] + f.amount <= WordMax
    /\ swaps' = f.child.swaps
    /\ credits' = Bump2(f.child.credits, f.token, f.party, f.amount)
    /\ outstanding' = Bump(f.child.outstanding, f.token, f.amount)
    /\ balance' = f.child.balance
    /\ paidFor' = f.child.paidFor
    /\ entered' = 1
    /\ Pop
    /\ UNCHANGED now

-----------------------------------------------------------------------------
(* Withdrawing a credit.                                                   *)

\* Strip the credit, then make the strict payout.
TakeCredit(account, t, amount) ==
    /\ credits' = Bump2(credits, t, account, 0 - amount)
    /\ outstanding' = Bump(outstanding, t, 0 - amount)
    /\ entered' = 2
    /\ Push(Frame("strict", t, account, amount, Snapshot))
    /\ UNCHANGED <<swaps, balance, now, paidFor>>

\* withdraw; withdrawAll is the case amount = the caller's whole credit.
Withdraw(caller, t, to, amount) ==
    /\ NotEntered
    /\ CanWithdraw(caller, t, to, amount)
    /\ TakeCredit(caller, t, amount)

PushCredit(t, account) ==
    /\ NotEntered
    /\ credits[t][account] # 0
    /\ TakeCredit(account, t, credits[t][account])

StrictReturns(after) ==
    /\ calls # <<>>
    /\ Top.kind = "strict"
    /\ Paid(Top, after)

-----------------------------------------------------------------------------
(* The environment.                                                        *)

\* The function waiting on an external call reverts: a failed or inexact
\* transfer on a strict path, or a transaction given too little gas to
\* record the credit.
Reverts ==
    /\ calls # <<>>
    /\ Restore(Top.saved)
    /\ Pop
    /\ UNCHANGED now

\* Value the contract did not ask for: a plain token transfer to it, or
\* native value forced on it.  A callee may do this in the middle of a call.
Donate(t) ==
    /\ balance[t] < WordMax
    /\ balance' = Bump(balance, t, 1)
    /\ UNCHANGED <<swaps, credits, outstanding, entered, now, calls, paidFor>>

\* A later block.  Every call of a transaction sees one timestamp.
Tick ==
    /\ calls = <<>>
    /\ now < MaxTime
    /\ now' = now + 1
    /\ UNCHANGED <<contractVars, calls>>

\* Balances an external call can leave behind.
Afters == IF calls = <<>> THEN {} ELSE 0 .. balance[Top.token] + AmountCap

\* lockNative, lockToken, lockNativeOpen and lockTokenOpen.
Lock ==
    \E h \in {g \in Hashlocks : Unused(swaps[g])} :
    \E caller \in Accounts, n \in Amounts, timeout \in Times :
        \/ \E r \in Addresses : LockNative(caller, h, r, n, timeout, FALSE)
        \/ \E r \in Addresses, t \in Tokens : LockToken(caller, h, r, t, n, timeout, FALSE)
        \/ LockNative(caller, h, Zero, n, timeout, TRUE)
        \/ \E t \in Tokens : LockToken(caller, h, Zero, t, n, timeout, TRUE)

SettleSwap ==
    \E h \in Hashlocks :
        \/ Refund(h)
        \/ \E p \in Preimages : Claim(h, p)
        \/ \E caller \in Accounts : Release(caller, h)

MoveCredit ==
    \E t \in Assets :
        \/ \E a \in Addresses : PushCredit(t, a)
        \/ \E a \in Accounts, to \in Addresses, n \in 0 .. WordMax :
            Withdraw(a, t, to, n)

CallEnds ==
    \/ \E after \in Afters :
        PullReturns(after) \/ DeliverReturns(after) \/ StrictReturns(after)
    \/ DeliverFails
    \/ Reverts

Next ==
    \/ Lock
    \/ \E h \in Hashlocks, caller \in Accounts, r \in Addresses : Assign(caller, h, r)
    \/ SettleSwap
    \/ MoveCredit
    \/ CallEnds
    \/ \E t \in Assets : Donate(t)
    \/ Tick

Spec == Init /\ [][Next]_vars

-----------------------------------------------------------------------------
(* Properties.                                                             *)

SnapshotType ==
    [swaps : [Hashlocks -> Swap],
     credits : [Assets -> [Addresses -> 0 .. WordMax]],
     outstanding : [Assets -> Int],
     entered : {1, 2},
     balance : [Assets -> Int],
     paidFor : [Assets -> [Addresses -> Int]]]

FrameType ==
    [kind : {"pull", "deliver", "strict"}, token : Assets, party : Addresses,
     amount : Nat, before : Int, saved : SnapshotType, child : SnapshotType]

\* The state has the shape of the contract's storage and call stack.
TypeOK ==
    /\ swaps \in [Hashlocks -> Swap]
    /\ credits \in [Assets -> [Addresses -> 0 .. WordMax]]
    /\ outstanding \in [Assets -> Int]
    /\ entered \in {1, 2}
    /\ balance \in [Assets -> Int]
    /\ paidFor \in [Assets -> [Addresses -> Int]]
    /\ now \in Times
    /\ calls \in Seq(FrameType)

\* What Open swaps of an asset hold, per hashlock.
OpenAmount(S, t) ==
    [h \in Hashlocks |-> IF S[h].status = "Open" /\ S[h].token = t
                         THEN S[h].amount ELSE 0]

\* HTLCv3.hyp promises that the escrow "accounts for the contract's whole
\* balance" together with the credits: between transactions the balance of
\* every asset covers all Open swaps and all credits, whatever tokens and
\* payees did during calls, and _outstanding is the sum of the credits.
Solvency ==
    calls = <<>> =>
        \A t \in Assets :
            /\ outstanding[t] = Total(credits[t])
            /\ balance[t] >= Total(OpenAmount(swaps, t)) + outstanding[t]

\* What an account was given by the swaps that are settled in S.
GivenBy(S, t, a) ==
    [h \in Hashlocks |->
        IF /\ S[h].status \in Terminal
           /\ S[h].token = t
           /\ Payee(S[h], S[h].status) = a
        THEN S[h].amount ELSE 0]

\* _settle pays or credits, never both and never neither, and withdraw and
\* pushCredit move only the caller's own or the account's own credit:
\* between transactions what left the contract for an account plus its
\* credit is exactly what the settled swaps gave that account.
Entitlement ==
    calls = <<>> =>
        \A t \in Assets, a \in Addresses :
            paidFor[t][a] + credits[t][a] = Total(GivenBy(swaps, t, a))

\* The deferred-payout design rests on the credit always fitting: the
\* uint128 cap of _lock keeps the checked additions of _settle from
\* reverting after a preimage was published.
CreditAlwaysFits ==
    calls = <<>> =>
        \A h \in Hashlocks :
            IsOpen(swaps[h]) =>
                outstanding[swaps[h].token] + swaps[h].amount <= WordMax

\* Nobody is credited who could not withdraw: the zero address and the
\* contract itself never come to own a credit.
CreditsReachable ==
    \A t \in Assets : credits[t][Zero] = 0 /\ credits[t][This] = 0

-----------------------------------------------------------------------------
(* Refinement.  Storage between transactions is what the outermost frame   *)
(* saved; seen there, every function is one atomic step of AtomicEscrow.   *)

Committed == IF calls = <<>> THEN Snapshot ELSE calls[Len(calls)].saved

CommittedGiven ==
    [t \in Assets |-> [a \in Addresses |->
        Committed.credits[t][a] + Committed.paidFor[t][a]]]

Escrow == INSTANCE AtomicEscrow
            WITH record <- Committed.swaps, given <- CommittedGiven, clock <- now

\* The contract implements AtomicEscrow: a record is written once, its
\* recipient is fixed once, it is settled once by one party's rule, and the
\* payee is given the amount in that same step (HTLCv3.hyp, claim: "it can
\* never undo this state").
EscrowSpec == Escrow!AbsSpec

=============================================================================
