--------------------------- MODULE BrowserSigning ---------------------------
(* How the browser signs and verifies (frontend/src/lib/orderSigning.ts)   *)
(* and what it makes of a signed order on either side of a match           *)
(* (components/signedOrderFlow.ts).  The wallet that holds the key signs   *)
(* the bytes it is shown; a signer returns Null where the code throws, in  *)
(* protocolMessageBytes() too.                                             *)
EXTENDS ProtocolWire

Earliest(a, b) == IF a <= b THEN a ELSE b

normalizeOrderBody(body) ==
    [body EXCEPT !.maker = Lower(@),
                 !.allowedTaker = IF @ = Null THEN Null ELSE Lower(@),
                 !.prelock = IF @ = Null THEN Null ELSE [hashlock |-> Lower(@.hashlock), t1 |-> @.t1]]

OrderBodyOk(body) ==
    /\ body.visibility \in {"public", "private"}
    /\ body.visibility = "public" => body.allowedTaker = Null
    /\ body.prelock # Null => body.prelock.t1 >= 0

verifyOrderCapabilities(order, auth, makerToken, shareToken) ==
    /\ capabilityCommitment("Maker", makerToken) = auth.makerTokenCommitment
    /\ IF order.visibility = "public"
       THEN shareToken = Null /\ auth.shareTokenCommitment = Zero
       ELSE shareToken # Null
            /\ capabilityCommitment("Share", shareToken) = auth.shareTokenCommitment

signedOrderTerms(order, auth) ==
    [terms |-> order.terms, maker |-> order.maker, visibility |-> order.visibility,
     allowedTaker |-> IF order.allowedTaker = Null THEN Absent ELSE order.allowedTaker,
     prelocked |-> order.prelock # Null,
     hashlock |-> IF order.prelock = Null THEN Zero ELSE order.prelock.hashlock,
     initiatorTimeout |-> IF order.prelock = Null THEN 0 ELSE order.prelock.t1,
     issuedAt |-> auth.issuedAt, expiresAt |-> auth.expiresAt, nonce |-> auth.nonce,
     makerTokenCommitment |-> auth.makerTokenCommitment,
     shareTokenCommitment |-> auth.shareTokenCommitment]

fillIntentTerms(intent, auth) ==
    [orderDigest |-> intent.orderDigest, requestNonce |-> auth.nonce, taker |-> intent.taker,
     releaseCommitment |-> intent.releaseCommitment, issuedAt |-> auth.issuedAt,
     expiresAt |-> auth.expiresAt]

fillTerms(fill, orderAuth, auth) ==
    [orderDigest |-> fill.orderDigest, orderNonce |-> orderAuth.nonce,
     intentDigest |-> fill.intentDigest, fillNonce |-> auth.nonce, taker |-> fill.taker,
     releaseCommitment |-> fill.releaseCommitment, hashlock |-> fill.hashlock,
     initiatorTimeout |-> fill.initiatorTimeout, responderTimeout |-> fill.responderTimeout,
     issuedAt |-> auth.issuedAt, respondBy |-> auth.expiresAt]

cancelTerms(cancel, orderAuth, auth) ==
    [orderDigest |-> cancel.orderDigest, orderNonce |-> orderAuth.nonce,
     cancelNonce |-> auth.nonce, issuedAt |-> auth.issuedAt, reasonCode |-> cancel.reasonCode]

orderDigest(order, auth) == protocolMessageBytes("OrderV2", signedOrderTerms(order, auth))
intentDigest(intent, auth) == protocolMessageBytes("FillIntentV2", fillIntentTerms(intent, auth))
fillDigest(fill, orderAuth, auth) ==
    protocolMessageBytes("FillV2", fillTerms(fill, orderAuth, auth))
cancelDigest(cancel, orderAuth, auth) ==
    protocolMessageBytes("CancelV2", cancelTerms(cancel, orderAuth, auth))

\* requestMessageProof(): the wallet's answer must verify for the signer.
requestMessageProof(signer, payload) ==
    IF verifyMessageForSigner(Lower(signer), Signature(Lower(signer), payload), payload)
    THEN Signature(Lower(signer), payload) ELSE Null

signProtocolAuth(signer, unsigned, payload) ==
    [f \in DOMAIN unsigned \cup {"signature"} |->
        IF f = "signature" THEN requestMessageProof(signer, payload) ELSE unsigned[f]]

signOrderV1(body, makerToken, shareToken, nonce, now) ==
    LET order == normalizeOrderBody(body)
        expiresAt == IF order.prelock = Null THEN now + ORDER_LIFETIME
                     ELSE Earliest(now + ORDER_LIFETIME, order.prelock.t1)
        unsigned == [issuedAt |-> now, expiresAt |-> expiresAt, nonce |-> nonce,
                     makerTokenCommitment |-> capabilityCommitment("Maker", makerToken),
                     shareTokenCommitment |->
                        IF order.visibility = "private"
                        THEN capabilityCommitment("Share", shareToken) ELSE Zero]
    IN  IF /\ OrderBodyOk(body) /\ now >= 0
           /\ order.prelock # Null => order.prelock.t1 - now \in MIN_LISTING .. MAX_LISTING
           /\ expiresAt - now >= MIN_LIFETIME
           /\ orderDigest(order, unsigned) # Null
        THEN [order |-> order,
              auth |-> signProtocolAuth(body.maker, unsigned, orderDigest(order, unsigned))]
        ELSE Null

-----------------------------------------------------------------------------
(* Verification of a row the book returned.                                *)

protocolProofIsValid(signer, auth, payload) ==
    verifyMessageForSigner(signer, auth.signature, payload)

orderBodyFromView(view) ==
    [terms |-> view.terms, maker |-> view.maker, visibility |-> view.visibility,
     allowedTaker |-> view.allowedTaker,
     prelock |-> IF view.prelocked
                 THEN [hashlock |-> view.hashlock, t1 |-> view.initiatorTimeout] ELSE Null]

OrderAuthShape(view, now, allowExpired) ==
    LET auth == view.makerAuth IN
    /\ auth.issuedAt >= 0 /\ auth.expiresAt > auth.issuedAt
    /\ auth.expiresAt - auth.issuedAt <= ORDER_LIFETIME
    /\ auth.issuedAt <= now + CLOCK_SKEW
    /\ allowExpired \/ auth.expiresAt > now
    /\ Canonical(auth.nonce) /\ Canonical(auth.makerTokenCommitment)
    /\ auth.makerTokenCommitment # Zero /\ Canonical(auth.shareTokenCommitment)
    /\ view.id = deriveOrderV1Id(view.maker, auth.nonce)
    /\ Canonical(view.maker) /\ view.visibility \in {"public", "private"}

verifyOrderV1Auth(view, now, allowExpired) ==
    LET auth == view.makerAuth IN
    /\ auth # Null
    /\ OrderAuthShape(view, now, allowExpired)
    /\ (view.visibility = "private") = (auth.shareTokenCommitment # Zero)
    /\ view.allowedTaker # Null => Canonical(view.allowedTaker) /\ view.visibility # "public"
    /\ view.prelocked =>
          /\ view.hashlock # Null /\ Canonical(view.hashlock) /\ view.initiatorTimeout # Null
          /\ view.initiatorTimeout - auth.issuedAt \in MIN_LISTING .. MAX_LISTING
          /\ auth.expiresAt <= view.initiatorTimeout
    /\ protocolProofIsValid(view.maker, auth, orderDigest(orderBodyFromView(view), auth))

authShapeIsValid(auth, now, minLifetime, maxLifetime, allowExpired) ==
    /\ auth.issuedAt >= 0
    /\ auth.expiresAt - auth.issuedAt \in minLifetime .. maxLifetime
    /\ auth.issuedAt <= now + CLOCK_SKEW
    /\ allowExpired \/ auth.expiresAt > now
    /\ Canonical(auth.nonce)

verifiedOrderDigest(view, now, allowExpired) ==
    IF verifyOrderV1Auth(view, now, allowExpired)
    THEN orderDigest(orderBodyFromView(view), view.makerAuth) ELSE Null

fillIntentBodyIsCanonical(intent) == Canonical(intent.taker) /\ Canonical(intent.releaseCommitment)
fillBodyIsCanonical(fill) ==
    /\ Canonical(fill.taker) /\ Canonical(fill.releaseCommitment) /\ Canonical(fill.hashlock)
    /\ fill.hashlock # Zero /\ fill.initiatorTimeout >= 0 /\ fill.responderTimeout >= 0

privateTakerMatches(view, intent) == view.allowedTaker \in {Null, intent.taker}

verifyFillIntentV1(intent, auth, view, now, allowExpired) ==
    LET digest == verifiedOrderDigest(view, now, allowExpired) IN
    /\ digest # Null
    /\ fillIntentBodyIsCanonical(intent)
    /\ authShapeIsValid(auth, now, 1, INTENT_LIFETIME, allowExpired)
    /\ intent.orderDigest = digest
    /\ auth.issuedAt >= view.makerAuth.issuedAt /\ auth.expiresAt <= view.makerAuth.expiresAt
    /\ privateTakerMatches(view, intent)
    /\ protocolProofIsValid(intent.taker, auth, intentDigest(intent, auth))

FillTimeoutsOk(fill, auth, view, now, allowExpired) ==
    LET initiatorWindow == fill.initiatorTimeout - auth.issuedAt
        responderWindow == fill.responderTimeout - auth.issuedAt
    IN /\ fill.responderTimeout - auth.expiresAt > RESPONDER_RUNWAY
       /\ responderWindow > 0 /\ responderWindow <= RESPONDER_WINDOW
       /\ initiatorWindow >= responderWindow
       /\ ~view.prelocked => initiatorWindow <= INITIATOR_WINDOW
       /\ responderWindow <= initiatorWindow \div 2
       /\ view.prelocked =>
             /\ fill.hashlock = view.hashlock /\ fill.initiatorTimeout = view.initiatorTimeout
             /\ initiatorWindow >= PRELOCK_RUNWAY
             /\ allowExpired \/ fill.initiatorTimeout - now >= PRELOCK_RUNWAY

verifyFillV1(fill, auth, view, signedIntent, now, allowExpired) ==
    /\ verifyFillIntentV1(signedIntent.intent, signedIntent.auth, view, now, allowExpired)
    /\ fillBodyIsCanonical(fill)
    /\ authShapeIsValid(auth, now, MIN_RESPONSE, MAX_RESPONSE, allowExpired)
    /\ fill.orderDigest = verifiedOrderDigest(view, now, allowExpired)
    /\ fill.intentDigest = intentDigest(signedIntent.intent, signedIntent.auth)
    /\ fill.taker = signedIntent.intent.taker
    /\ fill.releaseCommitment = signedIntent.intent.releaseCommitment
    /\ auth.expiresAt <= view.makerAuth.expiresAt
    /\ auth.issuedAt >= signedIntent.auth.issuedAt /\ auth.issuedAt < signedIntent.auth.expiresAt
    /\ FillTimeoutsOk(fill, auth, view, now, allowExpired)
    /\ protocolProofIsValid(view.maker, auth, fillDigest(fill, view.makerAuth, auth))

verifyCancelV1(cancel, auth, view, now, allowExpired) ==
    LET digest == verifiedOrderDigest(view, now, allowExpired) IN
    /\ digest # Null /\ cancel.reasonCode \in 0 .. 255
    /\ authShapeIsValid(auth, now, 1, ORDER_LIFETIME, allowExpired)
    /\ cancel.orderDigest = digest
    /\ auth.issuedAt >= view.makerAuth.issuedAt /\ auth.issuedAt <= view.makerAuth.expiresAt
    /\ auth.expiresAt = view.makerAuth.expiresAt
    /\ protocolProofIsValid(view.maker, auth, cancelDigest(cancel, view.makerAuth, auth))

-----------------------------------------------------------------------------
(* Signing against a row.                                                  *)

signFillIntentV1(taker, view, releaseSecret, requestNonce, now) ==
    LET digest == verifiedOrderDigest(view, now, FALSE)
        expiresAt == Earliest(now + INTENT_LIFETIME, view.makerAuth.expiresAt)
        intent == [orderDigest |-> digest, taker |-> Lower(taker),
                   releaseCommitment |-> computeReleaseCommitment(digest, requestNonce,
                                                                  releaseSecret)]
        unsigned == [issuedAt |-> now, expiresAt |-> expiresAt, nonce |-> requestNonce]
    IN  IF view.makerAuth # Null /\ now >= view.makerAuth.issuedAt /\ digest # Null
           /\ expiresAt > now /\ intentDigest(intent, unsigned) # Null
        THEN [intent |-> intent,
              auth |-> signProtocolAuth(intent.taker, unsigned, intentDigest(intent, unsigned))]
        ELSE Null

signFillV1(body, view, respondBy, fillNonce, now) ==
    LET fill == [body EXCEPT !.taker = Lower(@), !.releaseCommitment = Lower(@),
                             !.hashlock = Lower(@)]
        unsigned == [issuedAt |-> now, expiresAt |-> respondBy, nonce |-> fillNonce]
    IN  IF /\ view.makerAuth # Null
           /\ respondBy - now \in MIN_RESPONSE .. MAX_RESPONSE
           /\ respondBy <= view.makerAuth.expiresAt
           /\ fill.hashlock # Zero /\ fill.initiatorTimeout >= 0 /\ fill.responderTimeout >= 0
           /\ fill.responderTimeout - now <= RESPONDER_WINDOW
           /\ ~view.prelocked => fill.initiatorTimeout - now <= INITIATOR_WINDOW
           /\ fillDigest(fill, view.makerAuth, unsigned) # Null
        THEN [fill |-> fill,
              auth |-> signProtocolAuth(view.maker, unsigned,
                                        fillDigest(fill, view.makerAuth, unsigned))]
        ELSE Null

signCancelV1(body, view, cancelNonce, now) ==
    LET unsigned == [issuedAt |-> now, expiresAt |-> view.makerAuth.expiresAt,
                     nonce |-> cancelNonce]
    IN  IF view.makerAuth # Null /\ now < view.makerAuth.expiresAt
           /\ body.reasonCode \in 0 .. 255
           /\ cancelDigest(body, view.makerAuth, unsigned) # Null
        THEN [cancel |-> body,
              auth |-> signProtocolAuth(view.maker, unsigned,
                                        cancelDigest(body, view.makerAuth, unsigned))]
        ELSE Null

-----------------------------------------------------------------------------
(* signedOrderFlow.ts                                                      *)

\* The record a taker saves once the wallet has signed, or Null.
buildSignedTakerSwap(view, taker, signedIntent, now) ==
    IF /\ view.status = "open" /\ view.makerAuth # Null /\ view.orderDigest # Null
       /\ verifyOrderV1Auth(view, now, FALSE)
       /\ view.terms # "nothing"
       /\ signedIntent.intent.orderDigest = view.orderDigest
       /\ signedIntent.intent.taker = Lower(taker)
       /\ view.prelocked => view.hashlock # Null /\ view.initiatorTimeout # Null
    THEN [orderDigest |-> view.orderDigest, intent |-> signedIntent,
          intentDigest |-> intentDigest(signedIntent.intent, signedIntent.auth),
          acceptedPrelock |-> orderBodyFromView(view).prelock]
    ELSE Null

sameSignedIntent(left, right) == left.intent = right.intent /\ left.auth = right.auth

\* A proposal is dated when it was issued or when it arrived, whichever is
\* later.
intentPriority(candidate) ==
    IF candidate.auth.issuedAt >= candidate.receivedAt
    THEN candidate.auth.issuedAt ELSE candidate.receivedAt

\* The proposals that may be chosen; equal dates are told apart by digest.
selectEarliestFillIntent(view, candidates, now) ==
    LET valid == {c \in candidates : /\ c.auth.issuedAt <= now
                                     /\ verifyFillIntentV1(c.intent, c.auth, view, now, FALSE)}
    IN  {c \in valid : \A d \in valid :
            \/ intentPriority(c) < intentPriority(d)
            \/ intentPriority(c) = intentPriority(d) /\ c.auth.issuedAt <= d.auth.issuedAt}

verifyTakerFill(view, recovery, now) ==
    CASE view.released \/ view.equivocated \/ view.cancelProof # Null -> "blocked"
      [] /\ ~(view.released \/ view.equivocated \/ view.cancelProof # Null)
         /\ view.fill = Null /\ view.fillAuth = Null -> "none"
      [] OTHER ->
           IF /\ view.status = "locking" /\ view.makerAuth # Null
              /\ view.fill # Null /\ view.fillAuth # Null /\ view.selectedIntent # Null
              /\ now < view.fillAuth.expiresAt
              /\ view.orderDigest = recovery.orderDigest
              /\ recovery.intentDigest = intentDigest(recovery.intent.intent, recovery.intent.auth)
              /\ sameSignedIntent(view.selectedIntent, recovery.intent)
              /\ verifyFillV1(view.fill, view.fillAuth, view, recovery.intent, now, TRUE)
           THEN "fund" ELSE "blocked"
=============================================================================
