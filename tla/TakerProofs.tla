---------------------------- MODULE TakerProofs ----------------------------
(* What the scripted taker makes of an untrusted row of the book           *)
(* (marketmaker/src/taker-proofs.ts).  A row holds the order's terms, its  *)
(* projected state and the proofs; a field the row does not have is Null.  *)
EXTENDS MakerSigning

\* The parsers throw on a text that is not canonical: FALSE here.
CanonicalOrNull(t) == t = Null \/ Canonical(t)
UintOrNull(n) == n = Null \/ n >= 0

parseProtocolAuth(auth) == Canonical(auth.nonce) /\ auth.issuedAt >= 0 /\ auth.expiresAt >= 0
parseMakerOrderAuth(auth) ==
    parseProtocolAuth(auth) /\ Canonical(auth.makerTokenCommitment)
                            /\ Canonical(auth.shareTokenCommitment)
parseFillIntentBody(intent) == Canonical(intent.taker) /\ Canonical(intent.releaseCommitment)
parseSelectedIntent(selected) ==
    /\ parseProtocolAuth(selected.auth)
    /\ selected.auth.expiresAt > selected.auth.issuedAt
    /\ selected.auth.expiresAt - selected.auth.issuedAt <= INTENT_LIFETIME
    /\ parseFillIntentBody(selected.intent)
parseFillBody(fill) ==
    /\ Canonical(fill.taker) /\ Canonical(fill.releaseCommitment) /\ Canonical(fill.hashlock)
    /\ fill.initiatorTimeout >= 0 /\ fill.responderTimeout >= 0
parseCancelBody(cancel) == cancel.reasonCode \in 0 .. 255

parseBookOrderRow(row) ==
    /\ Canonical(row.maker) /\ CanonicalOrNull(row.allowedTaker)
    /\ row.status \in {"open", "accepted", "locking", "cancelled"}
    /\ row.visibility \in {"public", "private"}
    /\ CanonicalOrNull(row.taker) /\ CanonicalOrNull(row.hashlock)
    /\ UintOrNull(row.initiatorTimeout) /\ UintOrNull(row.responderTimeout)
    /\ row.makerAuth # Null => parseMakerOrderAuth(row.makerAuth)
    /\ row.fill # Null => parseFillBody(row.fill)
    /\ row.fillAuth # Null => parseProtocolAuth(row.fillAuth)
    /\ row.selectedIntent # Null => parseSelectedIntent(row.selectedIntent)
    /\ row.cancelProof # Null => parseCancelBody(row.cancelProof)
    /\ row.cancelAuth # Null => parseProtocolAuth(row.cancelAuth)

PrelockOf(row) ==
    IF row.prelocked /\ row.hashlock # Null /\ row.initiatorTimeout # Null
    THEN [hashlock |-> row.hashlock, t1 |-> row.initiatorTimeout] ELSE Null

orderBodyFromRow(row) ==
    [terms |-> row.terms, maker |-> row.maker, visibility |-> row.visibility,
     allowedTaker |-> row.allowedTaker, prelock |-> PrelockOf(row)]

\* The order a taker may act on: [signed, orderDigest], or Null.
verifyMakerOrder(row, now, allowExpired) ==
    LET auth == row.makerAuth
        order == orderBodyFromRow(row)
        digest == computeOrderDigest(order, auth)
    IN  IF /\ auth # Null
           /\ auth.expiresAt > auth.issuedAt
           /\ auth.expiresAt - auth.issuedAt <= ORDER_LIFETIME
           /\ auth.issuedAt <= now + CLOCK_SKEW
           /\ allowExpired \/ auth.expiresAt > now
           /\ auth.makerTokenCommitment # Zero
           /\ ~row.equivocated
           /\ row.visibility = "public" /\ auth.shareTokenCommitment = Zero
           /\ row.allowedTaker = Null
           /\ row.id = deriveOrderV1Id(row.maker, auth.nonce)
           /\ row.prelocked =>
                 /\ row.hashlock # Null /\ row.initiatorTimeout # Null
                 /\ row.initiatorTimeout - auth.issuedAt \in MIN_LISTING .. MAX_LISTING
                 /\ auth.expiresAt <= row.initiatorTimeout
           /\ row.orderDigest \in {Null, digest}
           /\ verifyOfficialV1Proof(row.maker, auth, digest)
           /\ row.terms # "nothing"
        THEN [signed |-> [order |-> order, auth |-> auth], orderDigest |-> digest]
        ELSE Null

verifyOwnIntent(signed, orderDigest, orderAuth, now, allowExpired) ==
    LET auth == signed.auth IN
    /\ signed.intent.orderDigest = orderDigest
    /\ auth.expiresAt > auth.issuedAt
    /\ auth.expiresAt - auth.issuedAt <= INTENT_LIFETIME
    /\ auth.issuedAt <= now + CLOCK_SKEW
    /\ allowExpired \/ auth.expiresAt > now
    /\ auth.issuedAt >= orderAuth.issuedAt /\ auth.expiresAt <= orderAuth.expiresAt
    /\ verifyOfficialV1Proof(signed.intent.taker, auth,
                             buildFillIntentV1Payload(signed.intent, auth))

sameSignedIntent(left, right) == left.intent = right.intent /\ left.auth = right.auth

\* Mutated form, used to check that the properties can fail: the runway after
\* the response deadline is not looked at.
fillBindingIsValid_NoRunway(fill, auth, orderAuth, recovery, prelock) ==
    LET initiatorWindow == fill.initiatorTimeout - auth.issuedAt
        responderWindow == fill.responderTimeout - auth.issuedAt
    IN /\ fill.orderDigest = recovery.orderDigest
       /\ fill.intentDigest = recovery.intentDigest
       /\ fill.taker = recovery.intent.intent.taker
       /\ responderWindow > 0 /\ responderWindow <= RESPONDER_WINDOW
       /\ responderWindow <= initiatorWindow \div 2
       /\ prelock # Null =>
             fill.hashlock = prelock.hashlock /\ fill.initiatorTimeout = prelock.t1

fillBindingIsValid(fill, auth, orderAuth, recovery, prelock) ==
    LET initiatorWindow == fill.initiatorTimeout - auth.issuedAt
        responderWindow == fill.responderTimeout - auth.issuedAt
    IN /\ fill.hashlock # Zero
       /\ fill.orderDigest = recovery.orderDigest
       /\ fill.intentDigest = recovery.intentDigest
       /\ fill.taker = recovery.intent.intent.taker
       /\ fill.releaseCommitment = recovery.intent.intent.releaseCommitment
       /\ auth.expiresAt - auth.issuedAt \in MIN_RESPONSE .. MAX_RESPONSE
       /\ auth.expiresAt <= orderAuth.expiresAt
       /\ auth.issuedAt >= recovery.intent.auth.issuedAt
       /\ auth.issuedAt < recovery.intent.auth.expiresAt
       /\ responderWindow > 0 /\ responderWindow <= RESPONDER_WINDOW
       /\ fill.responderTimeout - auth.expiresAt > RESPONDER_RUNWAY
       /\ initiatorWindow >= responderWindow
       /\ responderWindow <= initiatorWindow \div 2
       /\ prelock = Null => initiatorWindow <= INITIATOR_WINDOW
       /\ prelock # Null =>
             /\ fill.hashlock = prelock.hashlock /\ fill.initiatorTimeout = prelock.t1
             /\ initiatorWindow >= PRELOCK_RUNWAY

fillTermsAreValid(row, recovery, now) ==
    LET prelock == PrelockOf(row) IN
    /\ row.prelocked => prelock # Null
    /\ row.fillAuth.issuedAt <= now + CLOCK_SKEW
    /\ prelock # Null => row.fill.initiatorTimeout - now >= PRELOCK_RUNWAY
    /\ fillBindingIsValid(row.fill, row.fillAuth, row.makerAuth, recovery, prelock)

\* A row that ends the take, whatever else it says.
FundingBlocked(row) ==
    row.released \/ row.equivocated \/ row.cancelProof # Null \/ row.cancelAuth # Null

FillComplete(row) ==
    /\ row.status = "locking"
    /\ row.fill # Null /\ row.fillAuth # Null /\ row.selectedIntent # Null /\ row.makerAuth # Null

FillAuthentic(row, recovery, now) ==
    LET verified == verifyMakerOrder(row, now, TRUE) IN
    /\ verified # Null
    /\ verified.orderDigest = recovery.orderDigest
    /\ now < row.fillAuth.expiresAt
    /\ sameSignedIntent(row.selectedIntent, recovery.intent)
    /\ recovery.intentDigest =
          computeFillIntentDigest(recovery.intent.intent, recovery.intent.auth)
    /\ verifyOwnIntent(recovery.intent, recovery.orderDigest, row.makerAuth, now, TRUE)
    /\ fillTermsAreValid(row, recovery, now)
    /\ verifyOfficialV1Proof(row.maker, row.fillAuth,
                             buildFillV1Payload(row.fill, row.makerAuth, row.fillAuth))
    /\ row.taker = row.fill.taker /\ row.hashlock = row.fill.hashlock
    /\ row.initiatorTimeout = row.fill.initiatorTimeout
    /\ row.responderTimeout = row.fill.responderTimeout

\* verifyMakerFill(): the fill, or "none" while there is none, or "blocked"
\* for the FundingBlockedError.
verifyMakerFill(row, recovery, now) ==
    CASE FundingBlocked(row) -> "blocked"
      [] ~FundingBlocked(row) /\ row.fill = Null /\ row.fillAuth = Null -> "none"
      [] OTHER -> IF FillComplete(row) /\ FillAuthentic(row, recovery, now)
                  THEN "fund" ELSE "blocked"

verifyMakerCancel(row, orderDigest, now) ==
    /\ row.cancelAuth # Null /\ row.cancelProof # Null /\ row.makerAuth # Null
    /\ row.cancelProof.orderDigest = orderDigest
    /\ row.cancelAuth.issuedAt >= row.makerAuth.issuedAt
    /\ row.cancelAuth.issuedAt <= row.makerAuth.expiresAt
    /\ row.cancelAuth.expiresAt = row.makerAuth.expiresAt
    /\ row.cancelAuth.issuedAt <= now + CLOCK_SKEW
    /\ verifyOfficialV1Proof(row.maker, row.cancelAuth,
                             buildCancelV1Payload(row.cancelProof, row.makerAuth, row.cancelAuth))
=============================================================================
