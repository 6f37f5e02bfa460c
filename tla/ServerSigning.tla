---------------------------- MODULE ServerSigning ----------------------------
(* What the book verifies before it stores a document (server/src/order-    *)
(* signing.ts).  Each verifier throws on the first failed check: FALSE here. *)
EXTENDS ProtocolWire

canonicalOrderBody(order) ==
    /\ Canonical(order.maker)
    /\ order.visibility \in {"public", "private"}
    /\ order.allowedTaker # Null => order.visibility = "private" /\ Canonical(order.allowedTaker)
    /\ order.prelock # Null => Canonical(order.prelock.hashlock) /\ order.prelock.t1 >= 0

\* parseAuth() and parseMakerOrderAuth().
parseAuth(auth) == Canonical(auth.nonce) /\ auth.issuedAt >= 0 /\ auth.expiresAt >= 0
parseMakerOrderAuth(auth) ==
    parseAuth(auth) /\ Canonical(auth.makerTokenCommitment) /\ Canonical(auth.shareTokenCommitment)

SignedOrderTerms(order, auth) ==
    [terms |-> order.terms, maker |-> order.maker, visibility |-> order.visibility,
     allowedTaker |-> IF order.allowedTaker = Null THEN Absent ELSE order.allowedTaker,
     prelocked |-> order.prelock # Null,
     hashlock |-> IF order.prelock = Null THEN Zero ELSE order.prelock.hashlock,
     initiatorTimeout |-> IF order.prelock = Null THEN 0 ELSE order.prelock.t1,
     issuedAt |-> auth.issuedAt, expiresAt |-> auth.expiresAt, nonce |-> auth.nonce,
     makerTokenCommitment |-> auth.makerTokenCommitment,
     shareTokenCommitment |-> auth.shareTokenCommitment]

buildOrderV1Payload(order, auth) == protocolMessageBytes("OrderV2", SignedOrderTerms(order, auth))
orderDigest(order, auth) == buildOrderV1Payload(order, auth)

verifyProof(signer, auth, payload) == verifyMessageForSigner(signer, auth.signature, payload)

PrelockWindow(order, auth) ==
    order.prelock # Null =>
        /\ auth.expiresAt <= order.prelock.t1
        /\ order.prelock.t1 - auth.issuedAt \in MIN_LISTING .. MAX_LISTING

verifyOrderV1(order, auth, now, allowExpired) ==
    /\ canonicalOrderBody(order) /\ parseMakerOrderAuth(auth)
    /\ auth.expiresAt > auth.issuedAt
    /\ auth.expiresAt - auth.issuedAt <= ORDER_LIFETIME
    /\ auth.issuedAt <= now + CLOCK_SKEW
    /\ allowExpired \/ auth.expiresAt >= now + MIN_LIFETIME
    /\ PrelockWindow(order, auth)
    /\ auth.makerTokenCommitment # Zero
    /\ (order.visibility = "public") = (auth.shareTokenCommitment = Zero)
    /\ verifyProof(order.maker, auth, buildOrderV1Payload(order, auth))

canonicalFillIntentBody(intent) == Canonical(intent.taker) /\ Canonical(intent.releaseCommitment)
canonicalFillBody(fill) ==
    /\ Canonical(fill.taker) /\ Canonical(fill.releaseCommitment) /\ Canonical(fill.hashlock)
    /\ fill.hashlock # Zero
    /\ fill.initiatorTimeout >= 0 /\ fill.responderTimeout >= 0
canonicalCancelBody(cancel) == cancel.reasonCode \in 0 .. 255

assertInitialAcceptance(auth, now, allowExpired) ==
    auth.issuedAt <= now + CLOCK_SKEW /\ (allowExpired \/ auth.expiresAt > now)

assertOrderValidity(orderAuth, issuedAt, now, allowExpired) ==
    /\ allowExpired \/ now < orderAuth.expiresAt
    /\ issuedAt >= orderAuth.issuedAt /\ issuedAt < orderAuth.expiresAt

assertAllowedTaker(order, taker) == order.allowedTaker \in {Null, taker}

FillIntentTerms(intent, auth) ==
    [orderDigest |-> intent.orderDigest, requestNonce |-> auth.nonce, taker |-> intent.taker,
     releaseCommitment |-> intent.releaseCommitment, issuedAt |-> auth.issuedAt,
     expiresAt |-> auth.expiresAt]
intentDigest(intent, auth) == protocolMessageBytes("FillIntentV2", FillIntentTerms(intent, auth))

\* `signed` is a verified [order, auth].
verifyFillIntentV1(intent, auth, signed, now, allowExpired) ==
    /\ canonicalFillIntentBody(intent) /\ parseAuth(auth)
    /\ intent.orderDigest = orderDigest(signed.order, signed.auth)
    /\ assertOrderValidity(signed.auth, auth.issuedAt, now, allowExpired)
    /\ auth.expiresAt > auth.issuedAt
    /\ auth.expiresAt - auth.issuedAt <= INTENT_LIFETIME
    /\ auth.expiresAt <= signed.auth.expiresAt
    /\ assertInitialAcceptance(auth, now, allowExpired)
    /\ assertAllowedTaker(signed.order, intent.taker)
    /\ verifyProof(intent.taker, auth, intentDigest(intent, auth))

FillTerms(fill, orderAuth, auth) ==
    [orderDigest |-> fill.orderDigest, orderNonce |-> orderAuth.nonce,
     intentDigest |-> fill.intentDigest, fillNonce |-> auth.nonce, taker |-> fill.taker,
     releaseCommitment |-> fill.releaseCommitment, hashlock |-> fill.hashlock,
     initiatorTimeout |-> fill.initiatorTimeout, responderTimeout |-> fill.responderTimeout,
     issuedAt |-> auth.issuedAt, respondBy |-> auth.expiresAt]
fillDigest(fill, orderAuth, auth) == protocolMessageBytes("FillV2", FillTerms(fill, orderAuth, auth))

FillBinds(fill, auth, signed, intent) ==
    /\ fill.intentDigest = intentDigest(intent.intent, intent.auth)
    /\ intent.intent.orderDigest = fill.orderDigest
    /\ fill.taker = intent.intent.taker
    /\ fill.releaseCommitment = intent.intent.releaseCommitment
    /\ auth.issuedAt >= intent.auth.issuedAt /\ auth.issuedAt < intent.auth.expiresAt

FillWindows(fill, auth, order) ==
    LET initiatorWindow == fill.initiatorTimeout - auth.issuedAt
        responderWindow == fill.responderTimeout - auth.issuedAt
    IN /\ fill.responderTimeout - auth.expiresAt > RESPONDER_RUNWAY
       /\ responderWindow > 0 /\ initiatorWindow >= responderWindow
       /\ responderWindow <= RESPONDER_WINDOW
       /\ order.prelock = Null => initiatorWindow <= INITIATOR_WINDOW
       /\ responderWindow <= initiatorWindow \div 2

FillMatchesPrelock(fill, auth, order, now, allowExpired) ==
    order.prelock # Null =>
        /\ fill.hashlock = order.prelock.hashlock /\ fill.initiatorTimeout = order.prelock.t1
        /\ fill.initiatorTimeout - auth.issuedAt >= PRELOCK_RUNWAY
        /\ allowExpired \/ fill.initiatorTimeout - now >= PRELOCK_RUNWAY

verifyFillV1(fill, auth, signed, intent, now, allowExpired) ==
    /\ canonicalFillBody(fill) /\ parseAuth(auth)
    /\ fill.orderDigest = orderDigest(signed.order, signed.auth)
    /\ assertOrderValidity(signed.auth, auth.issuedAt, now, allowExpired)
    /\ FillBinds(fill, auth, signed, intent)
    /\ auth.expiresAt - auth.issuedAt \in MIN_RESPONSE .. MAX_RESPONSE
    /\ auth.expiresAt <= signed.auth.expiresAt
    /\ assertInitialAcceptance(auth, now, allowExpired)
    /\ FillWindows(fill, auth, signed.order)
    /\ FillMatchesPrelock(fill, auth, signed.order, now, allowExpired)
    /\ verifyProof(signed.order.maker, auth, fillDigest(fill, signed.auth, auth))

CancelTerms(cancel, orderAuth, auth) ==
    [orderDigest |-> cancel.orderDigest, orderNonce |-> orderAuth.nonce,
     cancelNonce |-> auth.nonce, issuedAt |-> auth.issuedAt, reasonCode |-> cancel.reasonCode]
cancelDigest(cancel, orderAuth, auth) ==
    protocolMessageBytes("CancelV2", CancelTerms(cancel, orderAuth, auth))

verifyCancelV1(cancel, auth, signed, now, allowExpired) ==
    /\ canonicalCancelBody(cancel) /\ parseAuth(auth)
    /\ cancel.orderDigest = orderDigest(signed.order, signed.auth)
    /\ assertOrderValidity(signed.auth, auth.issuedAt, now, allowExpired)
    /\ auth.expiresAt = signed.auth.expiresAt
    /\ assertInitialAcceptance(auth, now, allowExpired)
    /\ verifyProof(signed.order.maker, auth, cancelDigest(cancel, signed.auth, auth))
=============================================================================
