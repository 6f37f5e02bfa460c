---------------------------- MODULE TakerPolicy -----------------------------
(***************************************************************************)
(* The scripted taker's decision core (marketmaker/src/taker-policy.ts):   *)
(* the verification of the maker's escrow, the classification of the       *)
(* escrow on the taker's own leg, and decideTaker().  Nothing here has     *)
(* state; leg states and Null are as in MakerPolicy.                       *)
(***************************************************************************)
EXTENDS Integers

CONSTANTS
    Null,
    Nobody,        \* the zero address: a recipient not assigned yet
    ResendAfter,   \* cfg.resendAfterS
    ClaimSafety,   \* cfg.claimSafetyS
    LockRunway,    \* cfg.lockRunwayS
    SubmitMargin   \* claimSubmitMarginS(cfg)

-----------------------------------------------------------------------------
(* Mutated forms of the definitions below, used to check that the          *)
(* properties can fail.                                                    *)

ClaimWindowAfterOurs_Announced(confirmed, responderTimeout) ==
    confirmed.timeout >= responderTimeout

-----------------------------------------------------------------------------

retryOk(sentAt, nowS, after) == sentAt = Null \/ nowS - sentAt > after

terminal(s) == s # Null /\ s.status \in {"Claimed", "Refunded"}

\* Read from the escrow's own on-chain timeout, never the announced one.
ClaimWindowAfterOurs(confirmed, responderTimeout) ==
    confirmed.timeout >= responderTimeout + ClaimSafety

\* The maker's escrow at confirmation depth, against the plan of that leg.
checkMakerLock(confirmed, plan, responderTimeout, prelocked) ==
    IF confirmed = Null \/ confirmed.status = "None" THEN "absent"
    ELSE IF confirmed.status # "Open" THEN "settled"
    ELSE IF confirmed.recipient = Nobody
         THEN IF prelocked THEN "awaiting-assign" ELSE "mismatch"
    ELSE IF /\ confirmed.token = plan.token
            /\ confirmed.recipient = plan.recipient
            /\ confirmed.amount = plan.amount
            /\ ClaimWindowAfterOurs(confirmed, responderTimeout)
         THEN "ok"
    ELSE "mismatch"

\* The escrow on the taker's own leg: the hashlock is public, so a third
\* party may have used it first.
checkOwnLock(state, plan, ourAddress) ==
    IF state = Null \/ state.status = "None" THEN "absent"
    ELSE IF state.initiator # ourAddress THEN "foreign"
    ELSE IF state.status # "Open" THEN "settled"
    ELSE IF /\ state.token = plan.token
            /\ state.recipient = plan.recipient
            /\ state.amount = plan.amount
         THEN "ours"
    ELSE "ours-mismatched"

-----------------------------------------------------------------------------
(* The conditions of decideTaker(), one operator each; `own` and `maker`   *)
(* are the two classifications above.                                      *)

exposed(x, own) ==
    \/ x.record.lockSentAt # Null
    \/ own \in {"ours", "ours-mismatched", "settled"}

\* The branches that end a take before anything of ours is on chain.
Unfunded(x) ==
    IF x.abandonRequested
    THEN IF x.record.releaseSentAt = Null /\ x.record.intentSubmittedAt # Null
         THEN "release" ELSE "abort"
    ELSE IF \/ x.cancelled
            \/ x.bookStatus \in {"cancelled", "gone"}
            \/ x.released
         THEN "abort"
    ELSE "continue"

Unfilled(x, own) ==
    IF exposed(x, own) THEN "wait"
    ELSE IF x.bookStatus = "locking" THEN "abort"
    ELSE IF x.intentPending # Null /\ x.intentPending > x.nowS THEN "wait"
    ELSE "propose"

revealed(x) == x.rState # Null /\ x.rState.revealed

MakerEscrowOpen(x) == x.iState # Null /\ x.iState.status = "Open"

ClaimDue(x) ==
    /\ revealed(x)
    /\ MakerEscrowOpen(x)
    /\ x.nowS < x.iState.timeout - SubmitMargin
    /\ retryOk(x.record.claimSentAt, x.nowS, ResendAfter)

ClaimWindowClosed(x) ==
    revealed(x) /\ MakerEscrowOpen(x) /\ x.nowS >= x.iState.timeout - SubmitMargin

positive(credit) == credit # Null /\ credit > 0

WithdrawDue(x) ==
    /\ positive(x.initiatorCredit) \/ positive(x.responderCredit)
    /\ retryOk(x.record.withdrawSentAt, x.nowS, ResendAfter)

creditsSettled(x) == x.initiatorCredit = 0 /\ x.responderCredit = 0

MakerEscrowExpired(x) ==
    terminal(x.rState) /\ MakerEscrowOpen(x) /\ x.nowS >= x.iState.timeout

OwnEscrowExpired(x, own) ==
    /\ own \in {"ours", "ours-mismatched"}
    /\ x.nowS >= x.rState.timeout
    /\ retryOk(x.record.refundSentAt, x.nowS, ResendAfter)

\* No escrow of ours yet: whether to fund one.
Funding(x, own, maker) ==
    LET giveUp == IF exposed(x, own) THEN "wait" ELSE "abort" IN
    IF terminal(x.iState) THEN giveUp
    ELSE IF ~x.record.fillAcknowledged \/ x.released \/ x.cancelled THEN "wait"
    ELSE IF x.nowS + LockRunway >= x.fill.responderTimeout THEN giveUp
    ELSE IF maker \in {"absent", "awaiting-assign"} THEN "wait"
    ELSE IF maker \in {"settled", "mismatch"} THEN giveUp
    ELSE IF retryOk(x.record.lockSentAt, x.nowS, ResendAfter) THEN "lock"
    ELSE "wait"

Decisions == {"wait", "propose", "lock", "claim", "refund", "withdraw",
              "release", "finish", "abort"}

\* The order of the branches is the order of the code.
decideTaker(x) ==
    LET maker == checkMakerLock(x.iConfirmed, x.plans.initiator,
                                x.fill.responderTimeout, x.prelocked)
        own == checkOwnLock(x.rState, x.plans.responder, x.ourResponderAddress)
    IN  IF ~exposed(x, own) /\ Unfunded(x) # "continue" THEN Unfunded(x)
        ELSE IF x.fill = Null THEN Unfilled(x, own)
        ELSE IF x.rState = Null THEN "wait"
        ELSE IF ClaimDue(x) THEN "claim"
        ELSE IF ClaimWindowClosed(x) THEN "wait"
        ELSE IF WithdrawDue(x) THEN "withdraw"
        ELSE IF \/ terminal(x.iState) /\ terminal(x.rState)
                \/ MakerEscrowExpired(x)
             THEN IF creditsSettled(x) THEN "finish" ELSE "wait"
        ELSE IF OwnEscrowExpired(x, own) THEN "refund"
        ELSE IF own = "foreign" THEN "abort"
        ELSE IF own = "absent" THEN Funding(x, own, maker)
        ELSE "wait"

=============================================================================
