---------------------------- MODULE SwapMachine -----------------------------
(***************************************************************************)
(* The browser's decision table (frontend/src/lib/swapMachine.ts): which   *)
(* of a swap's steps a page offers, from the stored swap, what it last read *)
(* of the two legs at the chain head (`li`, `lr`), what it last read at     *)
(* confirmation depth (`ci`, `cr`), and the time.  Null is a leg that has   *)
(* not been read.                                                           *)
(*                                                                          *)
(* A leg is [status, initiator, recipient, agreed, timeout]: `agreed` says  *)
(* that token and amount are the ones the parties signed, and the preimage  *)
(* is on the chain exactly when the status is Claimed.  A swap is           *)
(* [role, prelocked, t1, t2], the timeouts being the signed ones.           *)
(***************************************************************************)
EXTENDS Integers

CONSTANTS
    Null,
    CLAIM_MARGIN,   \* CLAIM_MARGIN_S
    Nobody          \* the zero address

claimCutoffBlocked(timeout, now) == now >= timeout - CLAIM_MARGIN

NoLeg == [status |-> "None", initiator |-> Nobody, recipient |-> Nobody,
          agreed |-> FALSE, timeout |-> 0]

Is(leg, status) == leg # Null /\ leg.status = status
unassigned(leg) == leg.recipient = Nobody

\* The leg each role funds and the address each leg is to pay.
OwnLeg(role) == IF role = "maker" THEN "i" ELSE "r"
PlanRecipient(leg) == IF leg = "i" THEN "taker" ELSE "maker"

awaitingAssign(swap, ci) == swap.prelocked /\ Is(ci, "Open") /\ unassigned(ci)

initiatorLockIssue(swap, ci) ==
    /\ Is(ci, "Open") /\ ~awaitingAssign(swap, ci)
    /\ \/ ~ci.agreed
       \/ ci.recipient # PlanRecipient("i")
       \/ ci.timeout < swap.t2 + CLAIM_MARGIN

responderLockIssue(swap, cr, now) ==
    /\ Is(cr, "Open")
    /\ \/ ~cr.agreed
       \/ cr.recipient # PlanRecipient("r")
       \/ cr.timeout < now + CLAIM_MARGIN

revealedPreimage(lr) == Is(lr, "Claimed")

\* The four steps.
CanLockInitiator(swap, li) == ~swap.prelocked /\ Is(li, "None")

CanAssign(swap, li, lr, now) ==
    /\ swap.prelocked /\ Is(li, "Open") /\ unassigned(li)
    /\ Is(lr, "None")
    /\ now < swap.t2

CanLockResponder(swap, ci, lr, now) ==
    /\ Is(ci, "Open") /\ ~initiatorLockIssue(swap, ci) /\ ~awaitingAssign(swap, ci)
    /\ Is(lr, "None")
    /\ now < swap.t2

CanClaimResponder(swap, li, cr, now) ==
    /\ swap.role = "maker"
    /\ Is(li, "Open") /\ (swap.prelocked => ~unassigned(li))
    /\ Is(cr, "Open") /\ ~responderLockIssue(swap, cr, now)
    /\ now < swap.t2

CanClaimInitiator(swap, li, lr, now) ==
    /\ revealedPreimage(lr)
    /\ Is(li, "Open") /\ (swap.prelocked => ~unassigned(li))
    /\ ~claimCutoffBlocked(li.timeout, now)

complete(li, lr) == Is(li, "Claimed") /\ Is(lr, "Claimed")

\* The exits, from the head's reading of the leg this role funds.
OwnLocked(own) == Is(own, "Open")
Refundable(own, now) == OwnLocked(own) /\ now >= own.timeout
Releasable(swap, own) == swap.prelocked /\ OwnLocked(own) /\ unassigned(own)
=============================================================================
