---------------------------- MODULE MakerPolicy -----------------------------
(***************************************************************************)
(* The maker's decision core (marketmaker/src/policy.ts): given the book's *)
(* view of an order, what was read of both legs and what was already sent, *)
(* the single next action.  Nothing here has state.                        *)
(*                                                                         *)
(* A leg state is a record [status, initiator, recipient, token, amount,   *)
(* timeout, revealed]; `revealed` says that getSwap returns the preimage.  *)
(* Null stands for JavaScript's null: a read that failed, a marker never   *)
(* set.                                                                    *)
(***************************************************************************)
EXTENDS Integers

CONSTANTS
    Null,
    ResendAfter,        \* cfg.resendAfterS
    ClaimSafety,        \* cfg.claimSafetyS
    LockGrace,          \* cfg.lockGraceS
    SponsorClaims,      \* cfg.sponsorClaims
    SponsorMargin,      \* ceil(txTimeoutMs / 1000) + 60
    MaxCreditAttempts,  \* MAX_CREDIT_ATTEMPTS
    CreditParkAfter,    \* CREDIT_PARK_AFTER_S
    CreditRetryCap      \* CREDIT_RETRY_CAP_S

-----------------------------------------------------------------------------
(* Mutated forms of the definitions below, used to check that the          *)
(* properties can fail.                                                    *)

exposureExcluded_NoMarker(x) ==
    x.managed.hashlock = Null \/ (x.iState # Null /\ x.iState.status = "None")

RefundDue_OneShot(x) ==
    /\ x.iState.status = "Open"
    /\ x.nowS >= x.managed.initiatorTimeout
    /\ x.managed.refundSentAt = Null

-----------------------------------------------------------------------------

retryOk(sentAt, nowS, after) == sentAt = Null \/ nowS - sentAt > after

terminal(s) == s # Null /\ s.status \in {"Claimed", "Refunded"}

chainExposed(s) == s # Null /\ s.status # "None"

\* A book outage is ignored once there is durable or on-chain evidence that
\* the order needs settlement.
canContinueWithoutBook(managed, iState) ==
    managed.fillAcknowledged \/ managed.lockSentAt # Null \/ chainExposed(iState)

\* After n rejections the spacing is resendAfter * 2^n, capped.
DoubledSpacing[n \in Nat] ==
    IF n = 0 THEN ResendAfter ELSE 2 * DoubledSpacing[n - 1]

creditRetryAfter(rejections) ==
    IF DoubledSpacing[rejections] < CreditRetryCap THEN DoubledSpacing[rejections]
                                                   ELSE CreditRetryCap

parked(rejections, firstRejectedAt, nowS) ==
    /\ rejections >= MaxCreditAttempts
    /\ firstRejectedAt # Null
    /\ nowS - firstRejectedAt >= CreditParkAfter

withdrawParked(managed, nowS) ==
    parked(managed.withdrawAttempts, managed.withdrawFirstRejectedAt, nowS)

pushParked(managed, nowS) ==
    parked(managed.pushAttempts, managed.pushFirstRejectedAt, nowS)

-----------------------------------------------------------------------------
(* The conditions of decide(), one operator each.                          *)

released(x) == x.released \/ x.managed.releaseObserved

exposureExcluded(x) ==
    /\ x.managed.lockSentAt = Null
    /\ \/ x.managed.hashlock = Null
       \/ x.iState # Null /\ x.iState.status = "None"

HasTerms(managed) ==
    /\ managed.preimage # Null
    /\ managed.hashlock # Null
    /\ managed.initiatorTimeout # Null
    /\ managed.responderTimeout # Null

\* The taker's lock at confirmation depth is exactly the agreed one.
ResponderLockOk(x) ==
    /\ x.rState # Null
    /\ x.rState.status = "Open"
    /\ x.rConfirmed # Null
    /\ x.rConfirmed.status = "Open"
    /\ x.rConfirmed.token = x.expectedToken
    /\ x.rConfirmed.recipient = x.expectedRecipient
    /\ x.rConfirmed.amount = x.expectedAmount

\* Gated on the lock's own timeout as well as on the announced one.
ClaimWindowOpen(x) ==
    /\ x.nowS < x.rConfirmed.timeout - ClaimSafety
    /\ x.nowS < x.managed.responderTimeout - ClaimSafety

ClaimDue(x) ==
    /\ x.iState.status = "Open"
    /\ ResponderLockOk(x)
    /\ ClaimWindowOpen(x)
    /\ retryOk(x.managed.claimSentAt, x.nowS, ResendAfter)

\* The initiator lock is the one this maker funded for this taker.
OurLockForTaker(x) ==
    /\ x.iState.initiator = x.ourInitiator
    /\ x.takerOnInitiatorLeg # Null
    /\ x.iState.recipient = x.takerOnInitiatorLeg

SponsorDue(x) ==
    /\ SponsorClaims
    /\ x.iState.status = "Open"
    /\ OurLockForTaker(x)
    /\ x.rConfirmed # Null
    /\ x.rConfirmed.status = "Claimed"
    /\ x.nowS < x.iState.timeout - SponsorMargin
    /\ retryOk(x.managed.sponsorSentAt, x.nowS, ResendAfter)

LockDue(x) ==
    /\ x.iState.status = "None"
    /\ x.bookStatus = "locking"
    /\ ~released(x)
    /\ x.managed.fillAcknowledged
    /\ x.nowS - x.managed.announcedAt >= LockGrace
    /\ x.nowS < x.managed.responderTimeout - ClaimSafety
    /\ retryOk(x.managed.lockSentAt, x.nowS, ResendAfter)

RefundDue(x) ==
    /\ x.iState.status = "Open"
    /\ x.nowS >= x.managed.initiatorTimeout
    /\ retryOk(x.managed.refundSentAt, x.nowS, ResendAfter)

positive(credit) == credit # Null /\ credit > 0

WithdrawDue(x) ==
    /\ positive(x.ourResponderCredit) \/ positive(x.ourInitiatorCredit)
    /\ ~withdrawParked(x.managed, x.nowS)
    /\ retryOk(x.managed.withdrawSentAt, x.nowS,
               creditRetryAfter(x.managed.withdrawAttempts))

pushableTakerCredit(x) ==
    SponsorClaims /\ x.iState.status = "Claimed" /\ OurLockForTaker(x)

PushDue(x) ==
    /\ pushableTakerCredit(x)
    /\ positive(x.takerCredit)
    /\ ~pushParked(x.managed, x.nowS)
    /\ retryOk(x.managed.pushSentAt, x.nowS,
               creditRetryAfter(x.managed.pushAttempts))

rSettled(x) ==
    \/ terminal(x.rState)
    \/ /\ x.rState # Null
       /\ x.rState.status = "None"
       /\ x.nowS >= x.managed.responderTimeout

\* A failed read is not a zero balance; a parked credit no longer counts.
creditsSettled(x) ==
    /\ \/ withdrawParked(x.managed, x.nowS)
       \/ x.ourResponderCredit = 0 /\ x.ourInitiatorCredit = 0
    /\ \/ ~pushableTakerCredit(x)
       \/ pushParked(x.managed, x.nowS)
       \/ x.takerCredit = 0

NeverLocked(x) ==
    /\ x.iState.status = "None"
    /\ x.nowS >= x.managed.responderTimeout
    /\ x.managed.lockSentAt = Null

Decisions == {"wait", "announce", "lock", "claim", "sponsor", "refund",
              "withdraw", "push", "finish", "abort"}

\* The order of the branches is the order of the code.
decide(x) ==
    IF x.bookStatus \in {"gone", "cancelled"} /\ exposureExcluded(x) THEN "abort"
    ELSE IF released(x) /\ exposureExcluded(x) THEN "abort"
    ELSE IF x.bookStatus = "open" THEN "wait"
    ELSE IF x.bookStatus = "accepted" THEN "announce"
    ELSE IF ~HasTerms(x.managed) \/ x.iState = Null THEN "wait"
    ELSE IF ClaimDue(x) THEN "claim"
    ELSE IF SponsorDue(x) THEN "sponsor"
    ELSE IF LockDue(x) THEN "lock"
    ELSE IF RefundDue(x) THEN "refund"
    ELSE IF WithdrawDue(x) THEN "withdraw"
    ELSE IF PushDue(x) THEN "push"
    ELSE IF terminal(x.iState) /\ rSettled(x) /\ creditsSettled(x) THEN "finish"
    ELSE IF NeverLocked(x) THEN "abort"
    ELSE "wait"

=============================================================================
