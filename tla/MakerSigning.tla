---------------------------- MODULE MakerSigning ----------------------------
(* How the headless market maker and the scripted taker sign, and what the *)
(* maker verifies (marketmaker/src/protocol-signing.ts).  A signer returns *)
(* the signed document, or Null where the code throws.                     *)
EXTENDS ProtocolWire

Least(a, b) == IF a <= b THEN a ELSE b
Windowed(t) == t >= 0                                   \* safeUint()

normalizeOrderBody(body) ==
    [body EXCEPT !.maker = Lower(@),
                 !.allowedTaker = IF @ = Null THEN Null ELSE Lower(@),
                 !.prelock = IF @ = Null THEN Null ELSE [hashlock |-> Lower(@.hashlock), t1 |-> @.t1]]

\* Where normalizeOrderBody() does not throw.
OrderBodyOk(body) ==
    /\ body.visibility \in {"public", "private"}
    /\ body.visibility = "public" => body.allowedTaker = Null
    /\ body.prelock # Null => Windowed(body.prelock.t1)

orderMessage(order, auth) ==
    [terms |-> order.terms, maker |-> order.maker, visibility |-> order.visibility,
     allowedTaker |-> IF order.allowedTaker = Null THEN Absent ELSE order.allowedTaker,
     prelocked |-> order.prelock # Null,
     hashlock |-> IF order.prelock = Null THEN Zero ELSE order.prelock.hashlock,
     initiatorTimeout |-> IF order.prelock = Null THEN 0 ELSE order.prelock.t1,
     issuedAt |-> auth.issuedAt, expiresAt |-> auth.expiresAt, nonce |-> Lower(auth.nonce),
     makerTokenCommitment |-> Lower(auth.makerTokenCommitment),
     shareTokenCommitment |-> Lower(auth.shareTokenCommitment)]

buildOrderV1Payload(body, auth) ==
    protocolMessageBytes("OrderV2", orderMessage(normalizeOrderBody(body), auth))
computeOrderDigest(body, auth) == buildOrderV1Payload(body, auth)

buildFillIntentV1Payload(body, auth) ==
    IF auth.expiresAt <= auth.issuedAt THEN Null
    ELSE protocolMessageBytes("FillIntentV2",
            [orderDigest |-> body.orderDigest, requestNonce |-> Lower(auth.nonce),
             taker |-> Lower(body.taker), releaseCommitment |-> Lower(body.releaseCommitment),
             issuedAt |-> auth.issuedAt, expiresAt |-> auth.expiresAt])
computeFillIntentDigest(body, auth) == buildFillIntentV1Payload(body, auth)

normalizeFillBody(body) ==
    [body EXCEPT !.taker = Lower(@), !.releaseCommitment = Lower(@), !.hashlock = Lower(@)]

buildFillV1Payload(body, orderAuth, auth) ==
    LET fill == normalizeFillBody(body)
    IN  IF auth.expiresAt <= auth.issuedAt THEN Null
        ELSE protocolMessageBytes("FillV2",
                [orderDigest |-> fill.orderDigest, orderNonce |-> Lower(orderAuth.nonce),
                 intentDigest |-> fill.intentDigest, fillNonce |-> Lower(auth.nonce),
                 taker |-> fill.taker, releaseCommitment |-> fill.releaseCommitment,
                 hashlock |-> fill.hashlock, initiatorTimeout |-> fill.initiatorTimeout,
                 responderTimeout |-> fill.responderTimeout,
                 issuedAt |-> auth.issuedAt, respondBy |-> auth.expiresAt])
computeFillDigest(body, orderAuth, auth) == buildFillV1Payload(body, orderAuth, auth)

\* A reason that is no byte throws.
normalizeCancelBody(body) == IF body.reasonCode \in 0 .. 255 THEN body ELSE Null
buildCancelV1Payload(body, orderAuth, auth) ==
    IF normalizeCancelBody(body) = Null THEN Null
    ELSE protocolMessageBytes("CancelV2",
        [orderDigest |-> body.orderDigest, orderNonce |-> Lower(orderAuth.nonce),
         cancelNonce |-> Lower(auth.nonce), issuedAt |-> auth.issuedAt,
         reasonCode |-> body.reasonCode])
computeCancelDigest(body, orderAuth, auth) == buildCancelV1Payload(body, orderAuth, auth)

verifyOfficialV1Proof(signer, auth, payload) ==
    verifyMessageForSigner(signer, auth.signature, payload)

-----------------------------------------------------------------------------
(* Verification.                                                           *)

fillIntentBodyIsCanonical(body) == Canonical(body.taker) /\ Canonical(body.releaseCommitment)

protocolAuthIsCanonical(auth, now) ==
    /\ Windowed(auth.issuedAt) /\ auth.expiresAt > auth.issuedAt
    /\ auth.expiresAt - auth.issuedAt <= INTENT_LIFETIME
    /\ auth.issuedAt <= now + CLOCK_SKEW /\ auth.expiresAt > now
    /\ Canonical(auth.nonce)

verifyFillIntentV1(body, auth, expectedOrderDigest, now, orderAuth) ==
    /\ Windowed(now)
    /\ fillIntentBodyIsCanonical(body) /\ protocolAuthIsCanonical(auth, now)
    /\ body.orderDigest = expectedOrderDigest
    /\ auth.issuedAt >= orderAuth.issuedAt /\ auth.expiresAt <= orderAuth.expiresAt
    /\ orderAuth.expiresAt > orderAuth.issuedAt
    /\ verifyOfficialV1Proof(body.taker, auth, buildFillIntentV1Payload(body, auth))

-----------------------------------------------------------------------------
(* ProtocolSigner.                                                         *)

Signed(unsigned, signer, payload) ==
    [f \in DOMAIN unsigned \cup {"signature"} |->
        IF f = "signature" THEN Signature(signer, payload) ELSE unsigned[f]]

OrderLifetimeOk(order, issuedAt, expiresAt) ==
    /\ expiresAt - issuedAt \in MIN_LIFETIME .. ORDER_LIFETIME
    /\ order.prelock # Null =>
          /\ expiresAt <= order.prelock.t1
          /\ order.prelock.t1 - issuedAt \in MIN_LISTING .. MAX_LISTING

\* The expiry is the caller's, or the longest the order may have.
signOrderV1(address, body, makerToken, nonce, issuedAt, wantedExpiry) ==
    LET order == normalizeOrderBody(body)
        longest == IF order.prelock = Null THEN issuedAt + ORDER_LIFETIME
                   ELSE Least(issuedAt + ORDER_LIFETIME, order.prelock.t1)
        expiresAt == IF wantedExpiry = Null THEN longest ELSE wantedExpiry
        unsigned == [issuedAt |-> issuedAt, expiresAt |-> expiresAt, nonce |-> Lower(nonce),
                     makerTokenCommitment |-> capabilityCommitment("Maker", makerToken),
                     shareTokenCommitment |-> Zero]
    IN  IF /\ OrderBodyOk(body) /\ order.visibility = "public"
           /\ order.maker = address
           /\ OrderLifetimeOk(order, issuedAt, expiresAt)
           /\ buildOrderV1Payload(order, unsigned) # Null
        THEN [order |-> order,
              auth |-> Signed(unsigned, address, buildOrderV1Payload(order, unsigned))]
        ELSE Null

\* The order's proof is verified again, and the expiry is clamped to the
\* order's own.
signFillIntentV1(address, signed, releaseSecret, requestNonce, issuedAt) ==
    LET order == normalizeOrderBody(signed.order)
        digest == computeOrderDigest(order, signed.auth)
        expiresAt == Least(issuedAt + INTENT_LIFETIME, signed.auth.expiresAt)
        nonce == Lower(requestNonce)
        intent == [orderDigest |-> digest, taker |-> address,
                   releaseCommitment |-> computeReleaseCommitment(digest, nonce, releaseSecret)]
        unsigned == [issuedAt |-> issuedAt, expiresAt |-> expiresAt, nonce |-> nonce]
    IN  IF /\ OrderBodyOk(signed.order) /\ order.visibility = "public"
           /\ verifyOfficialV1Proof(order.maker, signed.auth, digest)
           /\ issuedAt >= signed.auth.issuedAt
           /\ expiresAt > issuedAt /\ expiresAt - issuedAt <= INTENT_LIFETIME
           /\ buildFillIntentV1Payload(intent, unsigned) # Null
        THEN [intent |-> intent,
              auth |-> Signed(unsigned, address, buildFillIntentV1Payload(intent, unsigned))]
        ELSE Null

FillWindowsOk(fill, order, issuedAt, respondBy) ==
    LET initiatorWindow == fill.initiatorTimeout - issuedAt
        responderWindow == fill.responderTimeout - issuedAt
    IN /\ responderWindow > 0 /\ initiatorWindow >= responderWindow
       /\ responderWindow <= initiatorWindow \div 2
       /\ responderWindow <= RESPONDER_WINDOW
       /\ order.prelock = Null => initiatorWindow <= INITIATOR_WINDOW
       /\ order.prelock # Null =>
             fill.hashlock = order.prelock.hashlock /\ fill.initiatorTimeout = order.prelock.t1
       /\ fill.responderTimeout - respondBy > RESPONDER_RUNWAY

FillAuthenticatesIntent(fill, digest, selected, issuedAt, orderAuth) ==
    /\ fill.orderDigest = digest
    /\ fill.intentDigest = computeFillIntentDigest(selected.intent, selected.auth)
    /\ fill.taker = selected.intent.taker
    /\ fill.releaseCommitment = selected.intent.releaseCommitment
    /\ verifyFillIntentV1(selected.intent, selected.auth, digest, issuedAt, orderAuth)

signFillV1(address, body, signed, selected, respondBy, fillNonce, issuedAt) ==
    LET fill == normalizeFillBody(body)
        order == normalizeOrderBody(signed.order)
        digest == computeOrderDigest(order, signed.auth)
        unsigned == [issuedAt |-> issuedAt, expiresAt |-> respondBy, nonce |-> Lower(fillNonce)]
    IN  IF /\ respondBy - issuedAt \in MIN_RESPONSE .. MAX_RESPONSE
           /\ OrderBodyOk(signed.order) /\ order.visibility = "public"
           /\ order.maker = address
           /\ verifyOfficialV1Proof(order.maker, signed.auth, digest)
           /\ FillAuthenticatesIntent(fill, digest, selected, issuedAt, signed.auth)
           /\ issuedAt < selected.auth.expiresAt /\ respondBy <= signed.auth.expiresAt
           /\ fill.hashlock # Zero
           /\ FillWindowsOk(fill, order, issuedAt, respondBy)
           /\ buildFillV1Payload(fill, signed.auth, unsigned) # Null
        THEN [fill |-> fill,
              auth |-> Signed(unsigned, address, buildFillV1Payload(fill, signed.auth, unsigned))]
        ELSE Null

signCancelV1(address, body, orderNonce, expiresAt, cancelNonce, issuedAt) ==
    LET unsigned == [issuedAt |-> issuedAt, expiresAt |-> expiresAt, nonce |-> Lower(cancelNonce)]
    IN  IF /\ expiresAt > issuedAt /\ body.reasonCode \in 0 .. 255
           /\ buildCancelV1Payload(body, [nonce |-> orderNonce], unsigned) # Null
        THEN [cancel |-> body,
              auth |-> Signed(unsigned, address,
                              buildCancelV1Payload(body, [nonce |-> orderNonce], unsigned))]
        ELSE Null
=============================================================================
