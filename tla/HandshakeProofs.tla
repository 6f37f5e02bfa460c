-------------------------- MODULE HandshakeProofs --------------------------
(***************************************************************************)
(* What the verifiers of the two takers are worth, for any limits and      *)
(* windows, any times, a hostile maker and a hostile book.                 *)
(***************************************************************************)
EXTENDS Handshake, WellFoundedInduction, TLAPS

-----------------------------------------------------------------------------
(* The three copies of the wire format agree.                              *)

LEMMA WireAgrees ==
    /\ \A p, m : S!protocolMessageBytes(p, m) = protocolMessageBytes(p, m)
    /\ \A p, m : B!protocolMessageBytes(p, m) = protocolMessageBytes(p, m)
    /\ \A p, m : T!protocolMessageBytes(p, m) = protocolMessageBytes(p, m)
    /\ \A s, g, b : S!verifyMessageForSigner(s, g, b) = verifyMessageForSigner(s, g, b)
    /\ \A s, g, b : B!verifyMessageForSigner(s, g, b) = verifyMessageForSigner(s, g, b)
    /\ \A s, g, b : T!verifyMessageForSigner(s, g, b) = verifyMessageForSigner(s, g, b)
<1>1. \A p, m : S!protocolMessageBytes(p, m) = protocolMessageBytes(p, m)
  BY DEF S!protocolMessageBytes, protocolMessageBytes, S!PROTOCOL_V2_FIELDS, PROTOCOL_V2_FIELDS,
     S!Bytes32Fields, Bytes32Fields, S!Canonical, Canonical, S!ORDER_V2_DOMAIN, ORDER_V2_DOMAIN
<1>2. \A p, m : B!protocolMessageBytes(p, m) = protocolMessageBytes(p, m)
  BY DEF B!protocolMessageBytes, protocolMessageBytes, B!PROTOCOL_V2_FIELDS, PROTOCOL_V2_FIELDS,
     B!Bytes32Fields, Bytes32Fields, B!Canonical, Canonical, B!ORDER_V2_DOMAIN, ORDER_V2_DOMAIN
<1>3. \A p, m : T!protocolMessageBytes(p, m) = protocolMessageBytes(p, m)
  BY DEF T!protocolMessageBytes, protocolMessageBytes, T!PROTOCOL_V2_FIELDS, PROTOCOL_V2_FIELDS,
     T!Bytes32Fields, Bytes32Fields, T!Canonical, Canonical, T!ORDER_V2_DOMAIN, ORDER_V2_DOMAIN
<1>4. \A s, g, b : S!verifyMessageForSigner(s, g, b) = verifyMessageForSigner(s, g, b)
  BY DEF S!verifyMessageForSigner, verifyMessageForSigner, S!Signature, Signature
<1>5. \A s, g, b : B!verifyMessageForSigner(s, g, b) = verifyMessageForSigner(s, g, b)
  BY DEF B!verifyMessageForSigner, verifyMessageForSigner, B!Signature, Signature
<1>6. \A s, g, b : T!verifyMessageForSigner(s, g, b) = verifyMessageForSigner(s, g, b)
  BY DEF T!verifyMessageForSigner, verifyMessageForSigner, T!Signature, Signature
<1>. QED  BY <1>1, <1>2, <1>3, <1>4, <1>5, <1>6

\* Bytes that are the same say the same.
LEMMA BytesName ==
    ASSUME NEW p, NEW m, NEW q, NEW n,
           protocolMessageBytes(p, m) # Null,
           protocolMessageBytes(p, m) = protocolMessageBytes(q, n)
    PROVE  m = n
<1>. DEFINE One == [type |-> p, domain |-> ORDER_V2_DOMAIN, message |-> m]
            Two == [type |-> q, domain |-> ORDER_V2_DOMAIN, message |-> n]
<1>1. protocolMessageBytes(p, m) \in {One, Null}
  BY DEF protocolMessageBytes
<1>2. protocolMessageBytes(q, n) \in {Two, Null}
  BY DEF protocolMessageBytes
<1>3. One = Two
  BY <1>1, <1>2
<1>4. One.message = m /\ Two.message = n
  OBVIOUS
<1>. QED  BY <1>3, <1>4

LEMMA SignatureNames ==
    ASSUME NEW s, NEW b, NEW t, NEW c, Signature(s, b) = Signature(t, c)
    PROVE  s = t /\ b = c
<1>1. Signature(s, b).by = s /\ Signature(s, b).bytes = b
  BY DEF Signature
<1>2. Signature(t, c).by = t /\ Signature(t, c).bytes = c
  BY DEF Signature
<1>. QED  BY <1>1, <1>2

\* The book and the browser hash the same terms.
LEMMA TermsAgree ==
    /\ \A o, a : B!orderDigest(o, a) = S!orderDigest(o, a)
    /\ \A i, a : B!intentDigest(i, a) = S!intentDigest(i, a)
    /\ \A f, o, a : B!fillDigest(f, o, a) = S!fillDigest(f, o, a)
<1>1. \A o, a : B!signedOrderTerms(o, a) = S!SignedOrderTerms(o, a)
  BY DEF B!signedOrderTerms, S!SignedOrderTerms, B!Absent, S!Absent, B!Zero, S!Zero,
         B!Text, S!Text
<1>2. \A i, a : B!fillIntentTerms(i, a) = S!FillIntentTerms(i, a)
  BY DEF B!fillIntentTerms, S!FillIntentTerms
<1>3. \A f, o, a : B!fillTerms(f, o, a) = S!FillTerms(f, o, a)
  BY DEF B!fillTerms, S!FillTerms
<1>. QED  BY <1>1, <1>2, <1>3, WireAgrees
          DEF B!orderDigest, S!orderDigest, S!buildOrderV1Payload, B!intentDigest,
              S!intentDigest, B!fillDigest, S!fillDigest

-----------------------------------------------------------------------------
(* The order, the documents and the rows.                                  *)

IsText(t) == t = Text(t.value, t.case)

\* The maker's order is signed.
OrderSigned ==
    /\ order.digest = S!orderDigest(order.order, order.auth) /\ order.digest # Null
    /\ order.auth.signature = Signature(order.order.maker, order.digest)
    /\ order.auth.issuedAt \in Int /\ order.auth.expiresAt \in Int
    /\ IsText(order.auth.nonce) /\ Canonical(order.auth.nonce)
    /\ order.order.maker = Address(Maker)
    /\ order.order.prelock # Null =>
          order.order.prelock.t1 \in Int /\ IsText(order.order.prelock.hashlock)

\* What every row says of the order.
OfOrder(row) ==
    /\ row.makerAuth = order.auth /\ row.orderDigest = order.digest
    /\ row.maker = order.order.maker /\ row.prelocked = (prelock # Null)

FillFields == {"orderDigest", "intentDigest", "taker", "releaseCommitment", "hashlock",
               "initiatorTimeout", "responderTimeout"}

\* What every fill looks like, whoever made it up.
FillTyped(fill, auth) ==
    /\ fill = [f \in FillFields |-> fill[f]]
    /\ IsText(fill.taker) /\ IsText(fill.releaseCommitment) /\ IsText(fill.hashlock)
    /\ fill.initiatorTimeout \in Int /\ fill.responderTimeout \in Int
    /\ auth.issuedAt \in Int /\ auth.expiresAt \in Int
    /\ IsText(auth.nonce)

IntentTyped(doc) ==
    /\ IsText(doc.intent.taker) /\ IsText(doc.intent.releaseCommitment)
    /\ IsText(doc.auth.nonce)
    /\ doc.auth.issuedAt \in Int /\ doc.auth.expiresAt \in Int

\* The verdict of either taker, in the terms of the book.
Sound(fill, auth, doc) ==
    /\ fill.responderTimeout - auth.expiresAt > RESPONDER_RUNWAY
    /\ fill.initiatorTimeout - auth.issuedAt >= 2 * (fill.responderTimeout - auth.issuedAt)
    /\ prelock # Null => fill.initiatorTimeout = prelock.t1
    /\ S!verifyFillV1(fill, auth, order, doc, auth.issuedAt, TRUE)

Limits == {ORDER_LIFETIME, MIN_LIFETIME, INTENT_LIFETIME, MIN_RESPONSE, MAX_RESPONSE,
           RESPONDER_RUNWAY, RESPONDER_WINDOW, INITIATOR_WINDOW, PRELOCK_RUNWAY,
           MIN_LISTING, MAX_LISTING, CLOCK_SKEW}

LEMMA LimitsNat ==
    /\ MIN_RESPONSE \in Nat /\ MAX_RESPONSE \in Nat /\ RESPONDER_RUNWAY \in Nat
    /\ RESPONDER_WINDOW \in Nat /\ INITIATOR_WINDOW \in Nat /\ PRELOCK_RUNWAY \in Nat
    /\ CLOCK_SKEW \in Nat /\ INTENT_LIFETIME \in Nat /\ ORDER_LIFETIME \in Nat
    /\ MIN_LISTING \in Nat /\ MAX_LISTING \in Nat /\ MIN_LIFETIME \in Nat
BY WireAssumption

\* Half of a window.
LEMMA Half ==
    ASSUME NEW a \in Int, NEW b \in Int, a <= b \div 2
    PROVE  b >= 2 * a
OBVIOUS

-----------------------------------------------------------------------------
(* The browser's verdict.                                                  *)

\* A row whose order verifies is about the order its maker signed.
LEMMA BrowserOrder ==
    ASSUME OrderSigned, NEW row, NEW n, NEW a \in BOOLEAN, OfOrder(row),
           B!verifyOrderV1Auth(row, n, a)
    PROVE  /\ B!verifiedOrderDigest(row, n, a) = order.digest
           /\ prelock # Null => prelock.t1 = row.initiatorTimeout /\ prelock.hashlock = row.hashlock
<1>. DEFINE body == B!orderBodyFromView(row)
            bytes == B!orderDigest(body, row.makerAuth)
<1>1. verifyMessageForSigner(row.maker, row.makerAuth.signature, bytes)
  BY WireAgrees DEF B!verifyOrderV1Auth, B!protocolProofIsValid
<1>2. bytes # Null /\ row.makerAuth.signature = Signature(row.maker, bytes)
  BY <1>1 DEF verifyMessageForSigner
<1>3. Signature(row.maker, bytes) = Signature(order.order.maker, order.digest)
  BY <1>2 DEF OrderSigned, OfOrder
<1>4. bytes = order.digest
  BY <1>3, SignatureNames
<1>5. B!verifiedOrderDigest(row, n, a) = bytes
  BY DEF B!verifiedOrderDigest
<1>6. /\ bytes = protocolMessageBytes("OrderV2", S!SignedOrderTerms(body, row.makerAuth))
      /\ order.digest = protocolMessageBytes("OrderV2", S!SignedOrderTerms(order.order, order.auth))
  BY WireAgrees, TermsAgree DEF OrderSigned, S!orderDigest, S!buildOrderV1Payload
<1>7. S!SignedOrderTerms(body, row.makerAuth) = S!SignedOrderTerms(order.order, order.auth)
  BY <1>2, <1>4, <1>6, BytesName
<1>8. /\ (body.prelock # Null) = (order.order.prelock # Null)
      /\ (IF body.prelock = Null THEN 0 ELSE body.prelock.t1)
           = (IF order.order.prelock = Null THEN 0 ELSE order.order.prelock.t1)
      /\ (IF body.prelock = Null THEN S!Zero ELSE body.prelock.hashlock)
           = (IF order.order.prelock = Null THEN S!Zero ELSE order.order.prelock.hashlock)
  <2>. HIDE DEF body
  <2>1. S!SignedOrderTerms(body, row.makerAuth).prelocked = (body.prelock # Null)
    BY DEF S!SignedOrderTerms
  <2>2. S!SignedOrderTerms(order.order, order.auth).prelocked = (order.order.prelock # Null)
    BY DEF S!SignedOrderTerms
  <2>3. S!SignedOrderTerms(body, row.makerAuth).initiatorTimeout
            = (IF body.prelock = Null THEN 0 ELSE body.prelock.t1)
    BY DEF S!SignedOrderTerms
  <2>4. S!SignedOrderTerms(order.order, order.auth).initiatorTimeout
            = (IF order.order.prelock = Null THEN 0 ELSE order.order.prelock.t1)
    BY DEF S!SignedOrderTerms
  <2>5. S!SignedOrderTerms(body, row.makerAuth).hashlock
            = (IF body.prelock = Null THEN S!Zero ELSE body.prelock.hashlock)
    BY DEF S!SignedOrderTerms
  <2>6. S!SignedOrderTerms(order.order, order.auth).hashlock
            = (IF order.order.prelock = Null THEN S!Zero ELSE order.order.prelock.hashlock)
    BY DEF S!SignedOrderTerms
  <2>. QED  BY <1>7, <2>1, <2>2, <2>3, <2>4, <2>5, <2>6
<1>9. ASSUME prelock # Null
      PROVE  prelock.t1 = row.initiatorTimeout /\ prelock.hashlock = row.hashlock
  <2>1. row.prelocked
    BY <1>9 DEF OfOrder
  <2>2. body.prelock = [hashlock |-> row.hashlock, t1 |-> row.initiatorTimeout]
    BY <2>1 DEF B!orderBodyFromView
  <2>3. body.prelock # Null /\ order.order.prelock # Null
    BY <1>8, <1>9 DEF prelock
  <2>. HIDE DEF body
  <2>4. body.prelock.t1 = order.order.prelock.t1 /\ body.prelock.hashlock = order.order.prelock.hashlock
    BY <1>8, <2>3
  <2>. QED  BY <2>2, <2>4 DEF prelock
<1>. QED  BY <1>4, <1>5, <1>9

BrowserRecovery(doc) ==
    [orderDigest |-> orderDigest, intent |-> doc, intentDigest |-> B!intentDigest(doc.intent, doc.auth)]

\* verifyTakerFill() funds what the book would have taken, and no other
\* proposal's fill.
LEMMA BrowserFunds ==
    ASSUME OrderSigned, NEW row, NEW doc, NEW n, OfOrder(row),
           row.fill # Null => FillTyped(row.fill, row.fillAuth), IntentTyped(doc),
           B!verifyTakerFill(row, BrowserRecovery(doc), n) = "fund"
    PROVE  /\ Sound(row.fill, row.fillAuth, doc)
           /\ row.fill # Null /\ row.fillAuth # Null
           /\ row.selectedIntent.intent = doc.intent
<1>1. /\ row.fill # Null /\ row.fillAuth # Null
      /\ B!sameSignedIntent(row.selectedIntent, doc)
      /\ B!verifyFillV1(row.fill, row.fillAuth, row, doc, n, TRUE)
  BY DEF B!verifyTakerFill, BrowserRecovery
<1>. DEFINE fill == row.fill
            auth == row.fillAuth
<1>2. /\ B!verifyFillIntentV1(doc.intent, doc.auth, row, n, TRUE)
      /\ B!fillBodyIsCanonical(fill)
      /\ B!authShapeIsValid(auth, n, MIN_RESPONSE, MAX_RESPONSE, TRUE)
      /\ fill.orderDigest = B!verifiedOrderDigest(row, n, TRUE)
      /\ fill.intentDigest = B!intentDigest(doc.intent, doc.auth)
      /\ fill.taker = doc.intent.taker
      /\ fill.releaseCommitment = doc.intent.releaseCommitment
      /\ auth.expiresAt <= row.makerAuth.expiresAt
      /\ auth.issuedAt >= doc.auth.issuedAt /\ auth.issuedAt < doc.auth.expiresAt
      /\ B!FillTimeoutsOk(fill, auth, row, n, TRUE)
      /\ B!protocolProofIsValid(row.maker, auth, B!fillDigest(fill, row.makerAuth, auth))
  BY <1>1 DEF B!verifyFillV1
<1>3. /\ B!verifiedOrderDigest(row, n, TRUE) # Null
      /\ doc.intent.orderDigest = B!verifiedOrderDigest(row, n, TRUE)
      /\ doc.auth.issuedAt >= row.makerAuth.issuedAt
      /\ doc.auth.expiresAt <= row.makerAuth.expiresAt
  BY <1>2 DEF B!verifyFillIntentV1
<1>4. B!verifyOrderV1Auth(row, n, TRUE)
  BY <1>3 DEF B!verifiedOrderDigest
<1>5. /\ B!verifiedOrderDigest(row, n, TRUE) = order.digest
      /\ prelock # Null => prelock.t1 = row.initiatorTimeout /\ prelock.hashlock = row.hashlock
  BY <1>4, BrowserOrder
<1>6. /\ fill.initiatorTimeout \in Int /\ fill.responderTimeout \in Int
      /\ auth.issuedAt \in Int /\ auth.expiresAt \in Int
      /\ doc.auth.issuedAt \in Int /\ doc.auth.expiresAt \in Int
      /\ order.auth.issuedAt \in Int /\ order.auth.expiresAt \in Int
      /\ row.makerAuth = order.auth /\ row.maker = order.order.maker
      /\ row.prelocked = (prelock # Null)
  BY <1>1 DEF FillTyped, IntentTyped, OrderSigned, OfOrder
<1>7. /\ fill.responderTimeout - auth.expiresAt > RESPONDER_RUNWAY
      /\ fill.responderTimeout - auth.issuedAt > 0
      /\ fill.responderTimeout - auth.issuedAt <= RESPONDER_WINDOW
      /\ fill.initiatorTimeout - auth.issuedAt >= fill.responderTimeout - auth.issuedAt
      /\ prelock = Null => fill.initiatorTimeout - auth.issuedAt <= INITIATOR_WINDOW
      /\ fill.responderTimeout - auth.issuedAt <= (fill.initiatorTimeout - auth.issuedAt) \div 2
      /\ prelock # Null => /\ fill.hashlock = row.hashlock
                           /\ fill.initiatorTimeout = row.initiatorTimeout
                           /\ fill.initiatorTimeout - auth.issuedAt >= PRELOCK_RUNWAY
  BY <1>2, <1>6 DEF B!FillTimeoutsOk
<1>8. /\ auth.issuedAt >= 0
      /\ auth.expiresAt - auth.issuedAt \in MIN_RESPONSE .. MAX_RESPONSE
      /\ Canonical(auth.nonce)
  BY <1>2 DEF B!authShapeIsValid, B!Canonical, Canonical
<1>9. /\ Canonical(fill.taker) /\ Canonical(fill.releaseCommitment) /\ Canonical(fill.hashlock)
      /\ fill.hashlock # Zero /\ fill.initiatorTimeout >= 0 /\ fill.responderTimeout >= 0
  BY <1>2 DEF B!fillBodyIsCanonical, B!Canonical, Canonical, B!Zero, Zero, B!Text, Text
<1>10. prelock # Null => fill.initiatorTimeout = prelock.t1 /\ fill.hashlock = prelock.hashlock
  BY <1>5, <1>7
<1>11. fill.initiatorTimeout - auth.issuedAt >= 2 * (fill.responderTimeout - auth.issuedAt)
  BY <1>6, <1>7, Half
<1>. HIDE DEF fill, auth
<1>12. S!verifyFillV1(fill, auth, order, doc, auth.issuedAt, TRUE)
  <2>1. S!canonicalFillBody(fill)
    BY <1>9 DEF S!canonicalFillBody, S!Canonical, Canonical, S!Zero, Zero, S!Text, Text
  <2>2. S!parseAuth(auth)
    <3>1. auth.expiresAt >= 0
      BY <1>6, <1>8, LimitsNat
    <3>. QED  BY <3>1, <1>8 DEF S!parseAuth, S!Canonical, Canonical
  <2>3. fill.orderDigest = S!orderDigest(order.order, order.auth)
    BY <1>2, <1>5 DEF OrderSigned, fill
  <2>4. S!assertOrderValidity(order.auth, auth.issuedAt, auth.issuedAt, TRUE)
    <3>1. auth.issuedAt >= order.auth.issuedAt
      BY <1>2, <1>3, <1>6 DEF auth
    <3>2. auth.issuedAt < order.auth.expiresAt
      BY <1>2, <1>3, <1>6 DEF auth
    <3>. QED  BY <3>1, <3>2 DEF S!assertOrderValidity
  <2>5. S!FillBinds(fill, auth, order, doc)
    BY <1>2, <1>3, TermsAgree DEF S!FillBinds, fill, auth
  <2>6. auth.expiresAt <= order.auth.expiresAt
    BY <1>2, <1>6 DEF auth
  <2>7. S!assertInitialAcceptance(auth, auth.issuedAt, TRUE)
    BY <1>6, LimitsNat DEF S!assertInitialAcceptance
  <2>8. S!FillWindows(fill, auth, order.order)
    BY <1>7 DEF S!FillWindows, prelock
  <2>9. S!FillMatchesPrelock(fill, auth, order.order, auth.issuedAt, TRUE)
    BY <1>7, <1>10 DEF S!FillMatchesPrelock, prelock
  <2>10. S!verifyProof(order.order.maker, auth, S!fillDigest(fill, order.auth, auth))
    BY <1>2, <1>6, TermsAgree, WireAgrees DEF S!verifyProof, B!protocolProofIsValid, fill, auth
  <2>. QED  BY <2>1, <2>2, <2>3, <2>4, <2>5, <2>6, <2>7, <2>8, <2>9, <2>10, <1>8
             DEF S!verifyFillV1
<1>13. Sound(fill, auth, doc)
  BY <1>7, <1>10, <1>11, <1>12 DEF Sound
<1>. QED  BY <1>1, <1>13 DEF fill, auth, B!sameSignedIntent

-----------------------------------------------------------------------------
(* The scripted taker's verdict.                                           *)

LEMMA LowerOfCanonical ==
    ASSUME NEW t, IsText(t), Canonical(t)
    PROVE  T!Lower(t) = t /\ Lower(t) = t
BY DEF IsText, Canonical, T!Lower, T!Text, Lower, Text

LEMMA TakerOrder ==
    ASSUME OrderSigned, NEW row, NEW n, NEW a \in BOOLEAN, OfOrder(row),
           T!verifyMakerOrder(row, n, a) # Null
    PROVE  /\ T!computeOrderDigest(T!orderBodyFromRow(row), row.makerAuth) = order.digest
           /\ T!verifyMakerOrder(row, n, a).orderDigest = order.digest
           /\ prelock # Null =>
                 /\ row.hashlock # Null /\ row.initiatorTimeout # Null
                 /\ prelock.t1 = row.initiatorTimeout /\ prelock.hashlock = T!Lower(row.hashlock)
<1>. DEFINE body == T!normalizeOrderBody(T!orderBodyFromRow(row))
            bytes == T!computeOrderDigest(T!orderBodyFromRow(row), row.makerAuth)
<1>1. /\ T!verifyOfficialV1Proof(row.maker, row.makerAuth, bytes)
      /\ row.prelocked => row.hashlock # Null /\ row.initiatorTimeout # Null
      /\ T!verifyMakerOrder(row, n, a).orderDigest = bytes
  BY DEF T!verifyMakerOrder
<1>2. bytes # Null /\ row.makerAuth.signature = Signature(row.maker, bytes)
  BY <1>1, WireAgrees DEF T!verifyOfficialV1Proof, verifyMessageForSigner
<1>3. Signature(row.maker, bytes) = Signature(order.order.maker, order.digest)
  BY <1>2 DEF OrderSigned, OfOrder
<1>4. bytes = order.digest
  BY <1>3, SignatureNames
<1>5. /\ bytes = protocolMessageBytes("OrderV2", T!orderMessage(body, row.makerAuth))
      /\ order.digest = protocolMessageBytes("OrderV2", S!SignedOrderTerms(order.order, order.auth))
  BY WireAgrees DEF OrderSigned, S!orderDigest, S!buildOrderV1Payload, T!computeOrderDigest,
                    T!buildOrderV1Payload
<1>6. T!orderMessage(body, row.makerAuth) = S!SignedOrderTerms(order.order, order.auth)
  BY <1>2, <1>4, <1>5, BytesName
<1>7. ASSUME prelock # Null
      PROVE  prelock.t1 = row.initiatorTimeout /\ prelock.hashlock = T!Lower(row.hashlock)
  <2>1. row.prelocked
    BY <1>7 DEF OfOrder
  <2>2. T!PrelockOf(row) = [hashlock |-> row.hashlock, t1 |-> row.initiatorTimeout]
    BY <1>1, <2>1 DEF T!PrelockOf
  <2>. DEFINE plain == T!orderBodyFromRow(row).prelock
  <2>3. plain = [hashlock |-> row.hashlock, t1 |-> row.initiatorTimeout]
    BY <2>2 DEF T!orderBodyFromRow
  <2>4. body.prelock = IF plain = Null THEN Null ELSE [hashlock |-> T!Lower(plain.hashlock), t1 |-> plain.t1]
    BY DEF T!normalizeOrderBody, T!orderBodyFromRow
  <2>. HIDE DEF body, plain
  <2>5. T!orderMessage(body, row.makerAuth).prelocked = (body.prelock # Null)
    BY DEF T!orderMessage
  <2>6. S!SignedOrderTerms(order.order, order.auth).prelocked = (order.order.prelock # Null)
    BY DEF S!SignedOrderTerms
  <2>7. body.prelock # Null /\ order.order.prelock # Null
    BY <1>6, <1>7, <2>5, <2>6 DEF prelock
  <2>8. body.prelock = [hashlock |-> T!Lower(plain.hashlock), t1 |-> plain.t1]
    BY <2>4, <2>7
  <2>9. body.prelock = [hashlock |-> T!Lower(row.hashlock), t1 |-> row.initiatorTimeout]
    BY <2>3, <2>8
  <2>10. T!orderMessage(body, row.makerAuth).initiatorTimeout = body.prelock.t1
    BY <2>7 DEF T!orderMessage
  <2>11. S!SignedOrderTerms(order.order, order.auth).initiatorTimeout = order.order.prelock.t1
    BY <2>7 DEF S!SignedOrderTerms
  <2>12. T!orderMessage(body, row.makerAuth).hashlock = body.prelock.hashlock
    BY <2>7 DEF T!orderMessage
  <2>13. S!SignedOrderTerms(order.order, order.auth).hashlock = order.order.prelock.hashlock
    BY <2>7 DEF S!SignedOrderTerms
  <2>14. body.prelock.t1 = row.initiatorTimeout /\ body.prelock.hashlock = T!Lower(row.hashlock)
    BY <2>9
  <2>. QED  BY <1>6, <2>10, <2>11, <2>12, <2>13, <2>14 DEF prelock
<1>8. prelock # Null => row.hashlock # Null /\ row.initiatorTimeout # Null
  BY <1>1 DEF OfOrder
<1>. QED  BY <1>1, <1>4, <1>7, <1>8

\* The two forms of a proposal's and of a fill's bytes.
LEMMA TakerIntentBytes ==
    ASSUME NEW i, NEW a, IsText(i.taker), IsText(i.releaseCommitment), IsText(a.nonce),
           Canonical(i.taker), Canonical(i.releaseCommitment), Canonical(a.nonce),
           a.issuedAt \in Int, a.expiresAt \in Int, a.expiresAt > a.issuedAt
    PROVE  T!computeFillIntentDigest(i, a) = S!intentDigest(i, a)
<1>1. T!Lower(i.taker) = i.taker /\ T!Lower(i.releaseCommitment) = i.releaseCommitment
      /\ T!Lower(a.nonce) = a.nonce
  BY LowerOfCanonical
<1>2. ~(a.expiresAt <= a.issuedAt)
  OBVIOUS
<1>. QED  BY <1>1, <1>2, WireAgrees DEF T!computeFillIntentDigest, T!buildFillIntentV1Payload,
              S!intentDigest, S!FillIntentTerms

LEMMA TakerFillBytes ==
    ASSUME NEW f, NEW o, NEW a, FillTyped(f, a), IsText(o.nonce), Canonical(o.nonce),
           Canonical(f.taker), Canonical(f.releaseCommitment), Canonical(f.hashlock),
           Canonical(a.nonce), a.expiresAt > a.issuedAt
    PROVE  T!buildFillV1Payload(f, o, a) = S!fillDigest(f, o, a)
<1>. DEFINE g == T!normalizeFillBody(f)
<1>1. /\ T!Lower(f.taker) = f.taker /\ T!Lower(f.releaseCommitment) = f.releaseCommitment
      /\ T!Lower(f.hashlock) = f.hashlock /\ T!Lower(a.nonce) = a.nonce
      /\ T!Lower(o.nonce) = o.nonce
  BY LowerOfCanonical DEF FillTyped
<1>2. f = [x \in FillFields |-> f[x]]
  BY DEF FillTyped
<1>3. g = f
  BY <1>1, <1>2 DEF T!normalizeFillBody, FillFields
<1>4. ~(a.expiresAt <= a.issuedAt)
  BY DEF FillTyped
<1>. QED  BY <1>1, <1>3, <1>4, WireAgrees DEF T!buildFillV1Payload, S!fillDigest, S!FillTerms

TakerRecovery(doc) ==
    [orderDigest |-> orderDigest, intent |-> doc,
     intentDigest |-> T!computeFillIntentDigest(doc.intent, doc.auth)]

\* verifyMakerFill() funds what the book would have taken, and no other
\* proposal's fill.
LEMMA TakerFunds ==
    ASSUME OrderSigned, NEW row, NEW doc, NEW n, OfOrder(row),
           row.fill # Null => FillTyped(row.fill, row.fillAuth), IntentTyped(doc),
           T!parseBookOrderRow(row),
           T!verifyMakerFill(row, TakerRecovery(doc), n) = "fund"
    PROVE  /\ Sound(row.fill, row.fillAuth, doc)
           /\ row.fill # Null /\ row.fillAuth # Null
           /\ row.selectedIntent.intent = doc.intent
<1>. DEFINE rec == TakerRecovery(doc)
            fill == row.fill
            auth == row.fillAuth
<1>1. T!FillComplete(row) /\ T!FillAuthentic(row, rec, n)
  BY DEF T!verifyMakerFill
<1>2. /\ row.fill # Null /\ row.fillAuth # Null /\ row.selectedIntent # Null
      /\ row.makerAuth # Null
  BY <1>1 DEF T!FillComplete
<1>3. /\ T!verifyMakerOrder(row, n, TRUE) # Null
      /\ T!sameSignedIntent(row.selectedIntent, rec.intent)
      /\ T!verifyOwnIntent(rec.intent, rec.orderDigest, row.makerAuth, n, TRUE)
      /\ T!fillTermsAreValid(row, rec, n)
      /\ T!verifyOfficialV1Proof(row.maker, auth, T!buildFillV1Payload(fill, row.makerAuth, auth))
      /\ row.hashlock = fill.hashlock /\ row.initiatorTimeout = fill.initiatorTimeout
  BY <1>1 DEF T!FillAuthentic
<1>4. rec.intent = doc /\ rec.orderDigest = order.digest
      /\ rec.intentDigest = T!computeFillIntentDigest(doc.intent, doc.auth)
  BY DEF TakerRecovery, orderDigest
<1>. HIDE DEF rec
<1>5. /\ doc.intent.orderDigest = order.digest
      /\ doc.auth.expiresAt > doc.auth.issuedAt
      /\ doc.auth.issuedAt >= row.makerAuth.issuedAt
      /\ doc.auth.expiresAt <= row.makerAuth.expiresAt
  BY <1>3, <1>4 DEF T!verifyOwnIntent
<1>6. row.selectedIntent.intent = doc.intent /\ row.selectedIntent.auth = doc.auth
  BY <1>3, <1>4 DEF T!sameSignedIntent
<1>7. /\ T!parseFillBody(fill) /\ T!parseProtocolAuth(auth)
      /\ T!parseSelectedIntent(row.selectedIntent)
  BY <1>2 DEF T!parseBookOrderRow
<1>8. Canonical(doc.intent.taker) /\ Canonical(doc.intent.releaseCommitment) /\ Canonical(doc.auth.nonce)
  BY <1>6, <1>7 DEF T!parseSelectedIntent, T!parseFillIntentBody, T!parseProtocolAuth,
                    T!Canonical, Canonical
<1>9. T!computeFillIntentDigest(doc.intent, doc.auth) = S!intentDigest(doc.intent, doc.auth)
  BY <1>5, <1>8, TakerIntentBytes DEF IntentTyped
<1>10. /\ Canonical(fill.taker) /\ Canonical(fill.releaseCommitment) /\ Canonical(fill.hashlock)
       /\ fill.initiatorTimeout >= 0 /\ fill.responderTimeout >= 0
       /\ Canonical(auth.nonce) /\ auth.issuedAt >= 0 /\ auth.expiresAt >= 0
  BY <1>7 DEF T!parseFillBody, T!parseProtocolAuth, T!Canonical, Canonical
<1>11. /\ row.prelocked => T!PrelockOf(row) # Null
       /\ T!fillBindingIsValid(fill, auth, row.makerAuth, rec, T!PrelockOf(row))
  BY <1>3 DEF T!fillTermsAreValid
<1>12. /\ fill.hashlock # T!Zero
       /\ fill.orderDigest = rec.orderDigest
       /\ fill.intentDigest = rec.intentDigest
       /\ fill.taker = rec.intent.intent.taker
       /\ fill.releaseCommitment = rec.intent.intent.releaseCommitment
       /\ auth.expiresAt - auth.issuedAt \in MIN_RESPONSE .. MAX_RESPONSE
       /\ auth.expiresAt <= row.makerAuth.expiresAt
       /\ auth.issuedAt >= rec.intent.auth.issuedAt
       /\ auth.issuedAt < rec.intent.auth.expiresAt
       /\ fill.responderTimeout - auth.issuedAt > 0
       /\ fill.responderTimeout - auth.issuedAt <= RESPONDER_WINDOW
       /\ fill.responderTimeout - auth.expiresAt > RESPONDER_RUNWAY
       /\ fill.initiatorTimeout - auth.issuedAt >= fill.responderTimeout - auth.issuedAt
       /\ fill.responderTimeout - auth.issuedAt <= (fill.initiatorTimeout - auth.issuedAt) \div 2
       /\ T!PrelockOf(row) = Null => fill.initiatorTimeout - auth.issuedAt <= INITIATOR_WINDOW
       /\ T!PrelockOf(row) # Null =>
             fill.initiatorTimeout - auth.issuedAt >= PRELOCK_RUNWAY
  BY <1>11 DEF T!fillBindingIsValid
<1>13. prelock # Null =>
          /\ row.hashlock # Null /\ row.initiatorTimeout # Null
          /\ prelock.t1 = row.initiatorTimeout /\ prelock.hashlock = T!Lower(row.hashlock)
  BY <1>3, TakerOrder
<1>14. /\ fill.initiatorTimeout \in Int /\ fill.responderTimeout \in Int
       /\ auth.issuedAt \in Int /\ auth.expiresAt \in Int
       /\ doc.auth.issuedAt \in Int /\ doc.auth.expiresAt \in Int
       /\ order.auth.issuedAt \in Int /\ order.auth.expiresAt \in Int
       /\ row.makerAuth = order.auth /\ row.maker = order.order.maker
       /\ row.prelocked = (prelock # Null)
       /\ FillTyped(fill, auth)
  BY <1>2 DEF FillTyped, IntentTyped, OrderSigned, OfOrder
<1>15. prelock # Null => fill.initiatorTimeout = prelock.t1 /\ fill.hashlock = prelock.hashlock
  <2>1. T!Lower(fill.hashlock) = fill.hashlock
    BY <1>10, <1>14, LowerOfCanonical DEF FillTyped
  <2>. QED  BY <1>3, <1>13, <2>1
<1>16. (prelock = Null) = (T!PrelockOf(row) = Null)
  <2>1. prelock = Null => T!PrelockOf(row) = Null
    BY <1>14 DEF T!PrelockOf
  <2>. QED  BY <2>1, <1>11, <1>14
<1>17. fill.initiatorTimeout - auth.issuedAt >= 2 * (fill.responderTimeout - auth.issuedAt)
  BY <1>12, <1>14, Half
<1>18. T!buildFillV1Payload(fill, order.auth, auth) = S!fillDigest(fill, order.auth, auth)
  <2>1. T!buildFillV1Payload(fill, row.makerAuth, auth) # Null
    BY <1>3, WireAgrees DEF T!verifyOfficialV1Proof, verifyMessageForSigner
  <2>2. auth.expiresAt > auth.issuedAt
    BY <1>14, <2>1 DEF T!buildFillV1Payload
  <2>. QED  BY <1>10, <1>14, <2>2, TakerFillBytes DEF OrderSigned
<1>. HIDE DEF fill, auth
<1>19. S!verifyFillV1(fill, auth, order, doc, auth.issuedAt, TRUE)
  <2>1. S!canonicalFillBody(fill)
    BY <1>10, <1>12 DEF S!canonicalFillBody, S!Canonical, Canonical, S!Zero, T!Zero, S!Text, T!Text
  <2>2. S!parseAuth(auth)
    BY <1>10 DEF S!parseAuth, S!Canonical, Canonical
  <2>3. fill.orderDigest = S!orderDigest(order.order, order.auth)
    BY <1>12, <1>4 DEF OrderSigned
  <2>4. S!assertOrderValidity(order.auth, auth.issuedAt, auth.issuedAt, TRUE)
    <3>1. auth.issuedAt >= order.auth.issuedAt
      BY <1>4, <1>5, <1>12, <1>14
    <3>2. auth.issuedAt < order.auth.expiresAt
      BY <1>4, <1>5, <1>12, <1>14
    <3>. QED  BY <3>1, <3>2 DEF S!assertOrderValidity
  <2>5. S!FillBinds(fill, auth, order, doc)
    BY <1>4, <1>5, <1>9, <1>12 DEF S!FillBinds
  <2>6. auth.expiresAt <= order.auth.expiresAt
    BY <1>12, <1>14
  <2>7. S!assertInitialAcceptance(auth, auth.issuedAt, TRUE)
    BY <1>14, LimitsNat DEF S!assertInitialAcceptance
  <2>8. S!FillWindows(fill, auth, order.order)
    BY <1>12, <1>16 DEF S!FillWindows, prelock
  <2>9. S!FillMatchesPrelock(fill, auth, order.order, auth.issuedAt, TRUE)
    BY <1>12, <1>15, <1>16 DEF S!FillMatchesPrelock, prelock
  <2>10. S!verifyProof(order.order.maker, auth, S!fillDigest(fill, order.auth, auth))
    BY <1>3, <1>14, <1>18, WireAgrees DEF S!verifyProof, T!verifyOfficialV1Proof, auth, fill
  <2>. QED  BY <2>1, <2>2, <2>3, <2>4, <2>5, <2>6, <2>7, <2>8, <2>9, <2>10, <1>12
             DEF S!verifyFillV1
<1>20. Sound(fill, auth, doc)
  BY <1>12, <1>15, <1>17, <1>19 DEF Sound
<1>. QED  BY <1>2, <1>6, <1>20 DEF fill, auth

-----------------------------------------------------------------------------
(* What the signers sign.                                                  *)

SignedAuth(unsigned, signature) ==
    [f \in DOMAIN unsigned \cup {"signature"} |-> IF f = "signature" THEN signature ELSE unsigned[f]]

LEMMA BrowserAuth ==
    ASSUME NEW who, NEW unsigned, NEW payload, payload # Null
    PROVE  B!signProtocolAuth(who, unsigned, payload) = SignedAuth(unsigned, Signature(Lower(who), payload))
<1>1. B!requestMessageProof(who, payload) = Signature(Lower(who), payload)
  BY DEF B!requestMessageProof, B!verifyMessageForSigner, B!Signature, Signature,
         B!Lower, Lower, B!Text, Text
<1>. QED  BY <1>1 DEF B!signProtocolAuth, SignedAuth

LEMMA TakerAuth ==
    \A who, unsigned, payload :
        T!Signed(unsigned, who, payload) = SignedAuth(unsigned, Signature(who, payload))
BY DEF T!Signed, SignedAuth, T!Signature, Signature

LEMMA AuthFields ==
    ASSUME NEW a, NEW b, NEW c, NEW signature
    PROVE  LET auth == SignedAuth([issuedAt |-> a, expiresAt |-> b, nonce |-> c], signature) IN
           /\ auth.issuedAt = a /\ auth.expiresAt = b /\ auth.nonce = c
           /\ auth.signature = signature
BY DEF SignedAuth

LEMMA OrderAuthFields ==
    ASSUME NEW a, NEW b, NEW c, NEW d, NEW e, NEW signature
    PROVE  LET auth == SignedAuth([issuedAt |-> a, expiresAt |-> b, nonce |-> c,
                                   makerTokenCommitment |-> d, shareTokenCommitment |-> e], signature) IN
           /\ auth.issuedAt = a /\ auth.expiresAt = b /\ auth.nonce = c
           /\ auth.makerTokenCommitment = d /\ auth.shareTokenCommitment = e
           /\ auth.signature = signature
BY DEF SignedAuth

ListedWell(doc) ==
    /\ S!orderDigest(doc.order, doc.auth) # Null
    /\ doc.auth.signature = Signature(doc.order.maker, S!orderDigest(doc.order, doc.auth))
    /\ doc.order.maker = Address(Maker)
    /\ doc.auth.issuedAt \in Int /\ doc.auth.expiresAt \in Int
    /\ IsText(doc.auth.nonce) /\ Canonical(doc.auth.nonce)
    /\ doc.order.prelock # Null =>
          doc.order.prelock.t1 \in Int /\ IsText(doc.order.prelock.hashlock)

\* What a parser asks of the order, whoever signed it.
ListedPlain(doc) ==
    /\ doc.order = [f \in {"terms", "maker", "visibility", "allowedTaker", "prelock"} |-> doc.order[f]]
    /\ LET lock == doc.order.prelock IN
       lock # Null => /\ lock = [hashlock |-> lock.hashlock, t1 |-> lock.t1]
                      /\ Canonical(lock.hashlock) /\ lock.t1 >= 0
    /\ Canonical(doc.auth.makerTokenCommitment) /\ Canonical(doc.auth.shareTokenCommitment)
    /\ doc.auth.issuedAt = 0 /\ doc.auth.expiresAt >= 0

\* The market maker's own order.
HeadlessDoc(doc) ==
    /\ doc.order = [terms |-> "agreed", maker |-> Address(Maker), visibility |-> "public",
                    allowedTaker |-> Null, prelock |-> Null]
    /\ \E signature :
          doc.auth = SignedAuth([issuedAt |-> 0, expiresAt |-> ORDER_LIFETIME, nonce |-> Nonce("order"),
                                 makerTokenCommitment |-> capabilityCommitment("Maker", "makerToken"),
                                 shareTokenCommitment |-> Zero], signature)
    /\ S!orderDigest(doc.order, doc.auth) = T!buildOrderV1Payload(doc.order, doc.auth)
    /\ ORDER_LIFETIME > 0

LEMMA BrowserLists ==
    ASSUME NEW c \in Casts, c.maker # "headless"
    PROVE  ListedWell(OrderDoc(c)) /\ ListedPlain(OrderDoc(c))
<1>. DEFINE body == OrderBody(c)
            share == IF c.listing = "private" THEN "shareToken" ELSE Null
            full == B!normalizeOrderBody(body)
            ends == IF full.prelock = Null THEN 0 + ORDER_LIFETIME
                    ELSE B!Earliest(0 + ORDER_LIFETIME, full.prelock.t1)
            mt == B!capabilityCommitment("Maker", "makerToken")
            st == IF full.visibility = "private" THEN B!capabilityCommitment("Share", share) ELSE B!Zero
            unsigned == [issuedAt |-> 0, expiresAt |-> ends, nonce |-> Nonce("order"),
                         makerTokenCommitment |-> mt, shareTokenCommitment |-> st]
            payload == B!orderDigest(full, unsigned)
            doc == OrderDoc(c)
<1>1. doc # Null
  BY ListingAssumption
<1>2. doc = B!signOrderV1(body, "makerToken", share, Nonce("order"), 0)
  BY <1>1 DEF OrderDoc
<1>3. /\ payload # Null
      /\ doc = [order |-> full, auth |-> B!signProtocolAuth(body.maker, unsigned, payload)]
  BY <1>1, <1>2 DEF B!signOrderV1
<1>4. full.maker = B!Lower(body.maker)
  BY DEF B!normalizeOrderBody, OrderBody
<1>5. B!Lower(body.maker) = Address(Maker) /\ Lower(body.maker) = Address(Maker)
  BY DEF OrderBody, Wallet, Address, B!Lower, B!Text, Lower, Text
<1>6. full.prelock # Null => full.prelock.t1 \in Int /\ IsText(full.prelock.hashlock)
  <2>1. full.prelock # Null => full.prelock = [hashlock |-> B!Lower(body.prelock.hashlock), t1 |-> body.prelock.t1]
    BY DEF B!normalizeOrderBody, OrderBody
  <2>2. full.prelock # Null => body.prelock = [hashlock |-> Text(<<"prelock">>, "lower"), t1 |-> PRELOCK_TIMEOUT]
    BY DEF B!normalizeOrderBody, OrderBody
  <2>3. IsText(B!Lower(body.prelock.hashlock))
    BY DEF IsText, B!Lower, B!Text, Text
  <2>4. PRELOCK_TIMEOUT \in Int
    BY HandshakeAssumption
  <2>. HIDE DEF full, body
  <2>. QED  BY <2>1, <2>2, <2>3, <2>4
<1>. HIDE DEF full, body
<1>7. ends \in Int
  BY <1>6, LimitsNat DEF B!Earliest
<1>. HIDE DEF mt, st, ends, doc
<1>8. doc.order = full /\ doc.auth = SignedAuth(unsigned, Signature(Address(Maker), payload))
  BY <1>3, <1>5, BrowserAuth
<1>9. /\ doc.auth.issuedAt = 0 /\ doc.auth.expiresAt = ends /\ doc.auth.nonce = Nonce("order")
      /\ doc.auth.makerTokenCommitment = mt /\ doc.auth.shareTokenCommitment = st
      /\ doc.auth.signature = Signature(Address(Maker), payload)
  <2>. HIDE DEF payload
  <2>. QED  BY <1>8, OrderAuthFields
<1>10. B!orderDigest(full, doc.auth) = payload
  BY <1>9 DEF B!orderDigest, B!signedOrderTerms
<1>11. S!orderDigest(doc.order, doc.auth) = payload
  BY <1>8, <1>10, TermsAgree
<1>12. IsText(Nonce("order")) /\ Canonical(Nonce("order"))
  BY DEF IsText, Canonical, Nonce, Text
<1>13. ListedWell(doc)
  BY <1>3, <1>4, <1>5, <1>6, <1>7, <1>8, <1>9, <1>11, <1>12 DEF ListedWell
<1>14. full = [f \in {"terms", "maker", "visibility", "allowedTaker", "prelock"} |-> full[f]]
  BY DEF full, body, B!normalizeOrderBody, OrderBody
<1>15. full.prelock # Null =>
          /\ full.prelock = [hashlock |-> full.prelock.hashlock, t1 |-> full.prelock.t1]
          /\ Canonical(full.prelock.hashlock) /\ full.prelock.t1 = PRELOCK_TIMEOUT
  <2>1. full.prelock # Null => full.prelock = [hashlock |-> B!Lower(body.prelock.hashlock), t1 |-> body.prelock.t1]
    BY DEF full, body, B!normalizeOrderBody, OrderBody
  <2>2. full.prelock # Null => body.prelock = [hashlock |-> Text(<<"prelock">>, "lower"), t1 |-> PRELOCK_TIMEOUT]
    BY DEF full, body, B!normalizeOrderBody, OrderBody
  <2>3. Canonical(B!Lower(body.prelock.hashlock))
    BY DEF Canonical, B!Lower, B!Text
  <2>. QED  BY <2>1, <2>2, <2>3
<1>16. Canonical(mt) /\ Canonical(st)
  BY DEF mt, st, Canonical, B!capabilityCommitment, B!Zero, B!Text
<1>17. PRELOCK_TIMEOUT \in Nat /\ ORDER_LIFETIME \in Nat
  BY HandshakeAssumption, LimitsNat
<1>18. ends >= 0
  BY <1>15, <1>17 DEF ends, B!Earliest
<1>19. ListedPlain(doc)
  BY <1>8, <1>9, <1>14, <1>15, <1>16, <1>17, <1>18 DEF ListedPlain
<1>. QED  BY <1>13, <1>19 DEF doc

LEMMA TakerNormalizes ==
    ASSUME NEW t, NEW m, NEW v
    PROVE  T!normalizeOrderBody([terms |-> t, maker |-> m, visibility |-> v,
                                 allowedTaker |-> Null, prelock |-> Null])
             = [terms |-> t, maker |-> T!Lower(m), visibility |-> v,
                allowedTaker |-> Null, prelock |-> Null]
<1>. DEFINE body == [terms |-> t, maker |-> m, visibility |-> v,
                     allowedTaker |-> Null, prelock |-> Null]
            full == [terms |-> t, maker |-> T!Lower(m), visibility |-> v,
                     allowedTaker |-> Null, prelock |-> Null]
            out == T!normalizeOrderBody(body)
<1>1. DOMAIN out = {"terms", "maker", "visibility", "allowedTaker", "prelock"}
  BY DEF T!normalizeOrderBody
<1>2. out = [f \in DOMAIN out |-> out[f]]
  BY DEF T!normalizeOrderBody
<1>3. out.maker = T!Lower(m) /\ out.terms = t /\ out.visibility = v
  BY DEF T!normalizeOrderBody
<1>4. out.allowedTaker = Null
  BY DEF T!normalizeOrderBody
<1>5. out.prelock = Null
  BY DEF T!normalizeOrderBody
<1>. HIDE DEF out
<1>6. full = [f \in DOMAIN out |-> full[f]]
  BY <1>1
<1>7. \A f \in DOMAIN out : out[f] = full[f]
  BY <1>1, <1>3, <1>4, <1>5
<1>. HIDE DEF full
<1>8. out = full
  BY <1>2, <1>6, <1>7
<1>. QED  BY <1>8 DEF full, out

LEMMA HeadlessLists ==
    ASSUME NEW c \in Casts, c.maker = "headless"
    PROVE  ListedWell(OrderDoc(c)) /\ ListedPlain(OrderDoc(c)) /\ HeadlessDoc(OrderDoc(c))
<1>. DEFINE full == [terms |-> "agreed", maker |-> Address(Maker), visibility |-> "public",
                     allowedTaker |-> Null, prelock |-> Null]
            mt == T!capabilityCommitment("Maker", "makerToken")
            unsigned == [issuedAt |-> 0, expiresAt |-> 0 + ORDER_LIFETIME,
                         nonce |-> T!Lower(Nonce("order")),
                         makerTokenCommitment |-> mt, shareTokenCommitment |-> T!Zero]
            payload == T!buildOrderV1Payload(full, unsigned)
            doc == OrderDoc(c)
<1>1. doc # Null /\ c.listing = "public"
  BY ListingAssumption, HandshakeAssumption
<1>2. doc = T!signOrderV1(Address(Maker), OrderBody(c), "makerToken", Nonce("order"), 0, Null)
  BY DEF OrderDoc
<1>3. T!normalizeOrderBody(OrderBody(c)) = full
  <2>1. OrderBody(c) = [terms |-> "agreed", maker |-> Wallet(Maker), visibility |-> "public",
                        allowedTaker |-> Null, prelock |-> Null]
    BY <1>1 DEF OrderBody
  <2>2. T!Lower(Wallet(Maker)) = Address(Maker)
    BY DEF T!Lower, T!Text, Wallet, Address, Text
  <2>3. T!normalizeOrderBody([terms |-> "agreed", maker |-> Wallet(Maker), visibility |-> "public",
                              allowedTaker |-> Null, prelock |-> Null])
          = [terms |-> "agreed", maker |-> T!Lower(Wallet(Maker)), visibility |-> "public",
             allowedTaker |-> Null, prelock |-> Null]
    BY TakerNormalizes
  <2>. QED  BY <2>1, <2>2, <2>3
<1>4. T!normalizeOrderBody(full) = full
  <2>1. T!Lower(Address(Maker)) = Address(Maker)
    BY DEF T!Lower, T!Text, Address, Text
  <2>2. T!normalizeOrderBody([terms |-> "agreed", maker |-> Address(Maker), visibility |-> "public",
                              allowedTaker |-> Null, prelock |-> Null])
          = [terms |-> "agreed", maker |-> T!Lower(Address(Maker)), visibility |-> "public",
             allowedTaker |-> Null, prelock |-> Null]
    BY TakerNormalizes
  <2>. QED  BY <2>1, <2>2
<1>5. full.prelock = Null
  OBVIOUS
<1>6. /\ payload # Null
      /\ doc = [order |-> full, auth |-> T!Signed(unsigned, Address(Maker), payload)]
  <2>. HIDE DEF full
  <2>. QED  BY <1>1, <1>2, <1>3, <1>5 DEF T!signOrderV1
<1>7. doc.order = full /\ doc.auth = SignedAuth(unsigned, Signature(Address(Maker), payload))
  <2>. HIDE DEF full, payload, unsigned
  <2>. QED  BY <1>6, TakerAuth
<1>. HIDE DEF doc
<1>8. /\ doc.auth.issuedAt = 0 /\ doc.auth.expiresAt = 0 + ORDER_LIFETIME
      /\ doc.auth.nonce = T!Lower(Nonce("order"))
      /\ doc.auth.makerTokenCommitment = mt /\ doc.auth.shareTokenCommitment = T!Zero
      /\ doc.auth.signature = Signature(Address(Maker), payload)
  <2>. HIDE DEF payload, full, mt
  <2>. QED  BY <1>7, OrderAuthFields
<1>9. T!Lower(Nonce("order")) = Nonce("order")
  BY DEF T!Lower, T!Text, Nonce, Text
<1>10. T!Lower(mt) = mt /\ T!Lower(T!Zero) = T!Zero
  BY DEF T!Lower, T!Text, T!capabilityCommitment, T!Zero
<1>11. T!orderMessage(full, unsigned) = S!SignedOrderTerms(full, doc.auth)
  <2>1. T!Zero = S!Zero /\ T!Absent = S!Absent
    BY DEF T!Zero, S!Zero, T!Absent, S!Absent, T!Text, S!Text
  <2>. HIDE DEF mt
  <2>. QED  BY <1>8, <1>9, <1>10, <2>1 DEF T!orderMessage, S!SignedOrderTerms
<1>12. S!orderDigest(doc.order, doc.auth) = payload
  BY <1>4, <1>7, <1>11, WireAgrees DEF S!orderDigest, S!buildOrderV1Payload, T!buildOrderV1Payload
<1>13. IsText(Nonce("order")) /\ Canonical(Nonce("order"))
  BY DEF IsText, Canonical, Nonce, Text
<1>15. full.maker = Address(Maker)
  OBVIOUS
<1>. HIDE DEF full, payload, unsigned
<1>16. payload # Null /\ doc.order = full
  BY <1>6, <1>7
<1>17. IsText(doc.auth.nonce) /\ Canonical(doc.auth.nonce)
  BY <1>8, <1>9, <1>13
<1>18. doc.auth.issuedAt \in Int /\ doc.auth.expiresAt \in Int
  <2>1. doc.auth.issuedAt = 0
    BY <1>8
  <2>2. doc.auth.expiresAt = 0 + ORDER_LIFETIME
    BY <1>8
  <2>3. ORDER_LIFETIME \in Nat
    BY LimitsNat
  <2>4. 0 + ORDER_LIFETIME \in Int
    BY <2>3
  <2>. HIDE DEF doc
  <2>. QED  BY <2>1, <2>2, <2>4
<1>19. doc.auth.signature = Signature(doc.order.maker, S!orderDigest(doc.order, doc.auth))
  BY <1>8, <1>12, <1>15, <1>16
<1>20. ListedWell(doc)
  BY <1>5, <1>12, <1>15, <1>16, <1>17, <1>18, <1>19 DEF ListedWell
<1>21. ListedPlain(doc)
  <2>1. full = [f \in {"terms", "maker", "visibility", "allowedTaker", "prelock"} |-> full[f]]
    BY DEF full
  <2>2. Canonical(mt) /\ Canonical(T!Zero)
    BY DEF Canonical, T!capabilityCommitment, T!Zero, T!Text
  <2>3. doc.auth.issuedAt = 0 /\ doc.auth.expiresAt >= 0
    BY <1>8, LimitsNat
  <2>4. doc.auth.makerTokenCommitment = mt /\ doc.auth.shareTokenCommitment = T!Zero
    BY <1>8
  <2>. HIDE DEF mt
  <2>. QED  BY <1>5, <1>16, <2>1, <2>2, <2>3, <2>4 DEF ListedPlain
<1>22. ORDER_LIFETIME > 0
  <2>1. T!OrderLifetimeOk(full, 0, 0 + ORDER_LIFETIME)
    BY <1>1, <1>2, <1>3, <1>5 DEF T!signOrderV1
  <2>. QED  BY <2>1, LimitsNat, WireAssumption DEF T!OrderLifetimeOk
<1>23. HeadlessDoc(doc)
  <2>1. mt = capabilityCommitment("Maker", "makerToken") /\ T!Zero = Zero
    BY DEF T!capabilityCommitment, capabilityCommitment, T!Zero, Zero, T!Text, Text
  <2>2. 0 + ORDER_LIFETIME = ORDER_LIFETIME
    BY LimitsNat
  <2>3. unsigned = [issuedAt |-> 0, expiresAt |-> ORDER_LIFETIME, nonce |-> Nonce("order"),
                    makerTokenCommitment |-> capabilityCommitment("Maker", "makerToken"),
                    shareTokenCommitment |-> Zero]
    BY <1>9, <2>1, <2>2 DEF unsigned
  <2>4. S!orderDigest(doc.order, doc.auth) = T!buildOrderV1Payload(doc.order, doc.auth)
    <3>1. T!orderMessage(full, doc.auth) = T!orderMessage(full, unsigned)
      BY <1>8, <1>9 DEF T!orderMessage, unsigned
    <3>. QED  BY <1>4, <1>12, <1>16, <3>1 DEF payload, T!buildOrderV1Payload
  <2>5. full = [terms |-> "agreed", maker |-> Address(Maker), visibility |-> "public",
                allowedTaker |-> Null, prelock |-> Null]
    BY DEF full
  <2>. QED  BY <1>7, <1>16, <1>22, <2>3, <2>4, <2>5 DEF HeadlessDoc
<1>. QED  BY <1>20, <1>21, <1>23 DEF doc

LEMMA OrdersSigned ==
    \A c \in Casts : ListedWell(OrderDoc(c))
BY BrowserLists, HeadlessLists

\* A proposal, as its signer makes it.
IsIntent(i) ==
    \E who, at : at \in Nat /\ i = Intent(who, at) /\ i.doc # Null

IntentShaped(i) ==
    /\ IntentTyped(i.doc)
    /\ i = [who |-> i.who, at |-> i.at, doc |-> i.doc]
    /\ i.at \in Nat
    /\ i = Intent(i.who, i.at)
    /\ i.doc.intent.releaseCommitment.value[4] = <<"secret", i.who, i.at>>
    /\ Canonical(i.doc.intent.releaseCommitment) /\ Canonical(i.doc.intent.taker)

LEMMA IntentIs ==
    ASSUME OrderSigned, NEW who, NEW at \in Nat, Intent(who, at).doc # Null
    PROVE  /\ IntentTyped(Intent(who, at).doc)
           /\ Intent(who, at).doc.intent.releaseCommitment.value[4] = <<"secret", who, at>>
           /\ Canonical(Intent(who, at).doc.intent.releaseCommitment)
           /\ Canonical(Intent(who, at).doc.intent.taker)
<1>. DEFINE doc == Intent(who, at).doc
            nonce == Nonce(<<who, at>>)
            secret == <<"secret", who, at>>
<1>1. CASE who = "alice" /\ cast.taker = "headless"
  <2>. DEFINE digest == T!computeOrderDigest(T!normalizeOrderBody(order.order), order.auth)
              ends == T!Least(at + INTENT_LIFETIME, order.auth.expiresAt)
              intent == [orderDigest |-> digest, taker |-> Address(who),
                         releaseCommitment |-> T!computeReleaseCommitment(digest, T!Lower(nonce), secret)]
              unsigned == [issuedAt |-> at, expiresAt |-> ends, nonce |-> T!Lower(nonce)]
              payload == T!buildFillIntentV1Payload(intent, unsigned)
  <2>1. doc = T!signFillIntentV1(Address(who), order, secret, nonce, at)
    BY <1>1 DEF Intent
  <2>2. doc # Null
    OBVIOUS
  <2>. HIDE DEF doc, nonce, secret
  <2>3. doc = [intent |-> intent, auth |-> T!Signed(unsigned, Address(who), payload)]
    BY <2>1, <2>2 DEF T!signFillIntentV1
  <2>4. doc.intent.taker = Address(who)
        /\ doc.intent.releaseCommitment = T!computeReleaseCommitment(digest, T!Lower(nonce), secret)
    BY <2>3
  <2>5. doc.auth = SignedAuth(unsigned, Signature(Address(who), payload))
    <3>. HIDE DEF intent, unsigned, payload
    <3>. QED  BY <2>3, TakerAuth
  <2>6. doc.auth.issuedAt = at /\ doc.auth.expiresAt = ends /\ doc.auth.nonce = T!Lower(nonce)
    <3>. HIDE DEF payload, intent, ends
    <3>. QED  BY <2>5, AuthFields
  <2>7. IsText(Address(who)) /\ IsText(T!Lower(nonce))
    BY DEF IsText, Address, Text, T!Lower, T!Text
  <2>. HIDE DEF digest
  <2>8. /\ IsText(T!computeReleaseCommitment(digest, T!Lower(nonce), secret))
        /\ T!computeReleaseCommitment(digest, T!Lower(nonce), secret).value[4] = secret
        /\ Canonical(T!computeReleaseCommitment(digest, T!Lower(nonce), secret))
        /\ Canonical(Address(who))
    BY DEF IsText, T!computeReleaseCommitment, T!Text, Text, Canonical, Address
  <2>9. ends \in Int
    BY LimitsNat DEF T!Least, OrderSigned
  <2>. HIDE DEF ends, unsigned, intent, payload
  <2>10. IntentTyped(doc)
    BY <2>4, <2>6, <2>7, <2>8, <2>9 DEF IntentTyped
  <2>11. /\ doc.intent.releaseCommitment.value[4] = secret
         /\ Canonical(doc.intent.releaseCommitment) /\ Canonical(doc.intent.taker)
    BY <2>4, <2>8
  <2>. QED  BY <2>10, <2>11 DEF doc, secret
<1>2. CASE ~(who = "alice" /\ cast.taker = "headless")
  <2>. DEFINE digest == B!verifiedOrderDigest(OpenRow, at, FALSE)
              ends == B!Earliest(at + INTENT_LIFETIME, OpenRow.makerAuth.expiresAt)
              intent == [orderDigest |-> digest, taker |-> B!Lower(Wallet(who)),
                         releaseCommitment |-> B!computeReleaseCommitment(digest, nonce, secret)]
              unsigned == [issuedAt |-> at, expiresAt |-> ends, nonce |-> nonce]
              payload == B!intentDigest(intent, unsigned)
  <2>1. doc = B!signFillIntentV1(Wallet(who), OpenRow, secret, nonce, at)
    BY <1>2 DEF Intent
  <2>2. doc # Null
    OBVIOUS
  <2>. HIDE DEF doc, nonce, secret
  <2>3. /\ doc = [intent |-> intent, auth |-> B!signProtocolAuth(B!Lower(Wallet(who)), unsigned, payload)]
        /\ payload # Null
    BY <2>1, <2>2 DEF B!signFillIntentV1
  <2>4. doc.intent.taker = B!Lower(Wallet(who))
        /\ doc.intent.releaseCommitment = B!computeReleaseCommitment(digest, nonce, secret)
    BY <2>3
  <2>5. \E s : doc.auth = SignedAuth(unsigned, s)
    <3>. HIDE DEF intent, unsigned, payload
    <3>. QED  BY <2>3, BrowserAuth
  <2>6. doc.auth.issuedAt = at /\ doc.auth.expiresAt = ends /\ doc.auth.nonce = nonce
    <3>. HIDE DEF payload, intent, ends
    <3>. QED  BY <2>5, AuthFields
  <2>7. IsText(B!Lower(Wallet(who))) /\ IsText(nonce)
    BY DEF IsText, Wallet, Text, B!Lower, B!Text, nonce, Nonce
  <2>. HIDE DEF digest
  <2>8. /\ IsText(B!computeReleaseCommitment(digest, nonce, secret))
        /\ B!computeReleaseCommitment(digest, nonce, secret).value[4] = secret
        /\ Canonical(B!computeReleaseCommitment(digest, nonce, secret))
        /\ Canonical(B!Lower(Wallet(who)))
    BY DEF IsText, B!computeReleaseCommitment, B!Text, Text, Canonical, Wallet, B!Lower
  <2>9. ends \in Int
    <3>1. OpenRow.makerAuth = order.auth
      BY DEF OpenRow
    <3>. QED  BY <3>1, LimitsNat DEF B!Earliest, OrderSigned
  <2>. HIDE DEF ends, unsigned, intent, payload
  <2>10. IntentTyped(doc)
    BY <2>4, <2>6, <2>7, <2>8, <2>9 DEF IntentTyped
  <2>11. /\ doc.intent.releaseCommitment.value[4] = secret
         /\ Canonical(doc.intent.releaseCommitment) /\ Canonical(doc.intent.taker)
    BY <2>4, <2>8
  <2>. QED  BY <2>10, <2>11 DEF doc, secret
<1>. QED  BY <1>1, <1>2

LEMMA IntentShape ==
    ASSUME OrderSigned, NEW i, IsIntent(i)
    PROVE  IntentShaped(i)
<1>1. PICK who, at : at \in Nat /\ i = Intent(who, at) /\ i.doc # Null
  BY DEF IsIntent
<1>2. i.who = who /\ i.at = at
  BY <1>1 DEF Intent
<1>3. i = [who |-> i.who, at |-> i.at, doc |-> i.doc]
  BY <1>1 DEF Intent
<1>. QED  BY <1>1, <1>2, <1>3, IntentIs DEF IntentShaped

\* A proposal is known by what it commits to.
LEMMA IntentNamed ==
    ASSUME OrderSigned, NEW i, NEW j, IsIntent(i), IsIntent(j),
           i.doc.intent.releaseCommitment = j.doc.intent.releaseCommitment
    PROVE  i = j
<1>1. IntentShaped(i) /\ IntentShaped(j)
  BY IntentShape
<1>2. <<"secret", i.who, i.at>> = <<"secret", j.who, j.at>>
  BY <1>1 DEF IntentShaped
<1>3. i.who = j.who /\ i.at = j.at
  BY <1>2
<1>. QED  BY <1>1, <1>3 DEF IntentShaped

\* A fill, as its signer makes it.
IsFill(g) ==
    \E i, t1, t2, r, at :
        /\ IsIntent(i) /\ {t1, t2, r, at} \subseteq Int
        /\ g = FillOf(Draft(i, t1, t2, r), at)
        /\ cast.maker # "hostile" => g.doc # Null

FillShaped(g) ==
    /\ IsIntent(g.for)
    /\ FillTyped(g.doc.fill, g.doc.auth)
    /\ g = [for |-> g.for, t1 |-> g.doc.fill.initiatorTimeout, t2 |-> g.doc.fill.responderTimeout,
            respondBy |-> g.doc.auth.expiresAt, issuedAt |-> g.doc.auth.issuedAt,
            doc |-> [fill |-> g.doc.fill, auth |-> g.doc.auth]]
    /\ g.doc.fill.releaseCommitment = g.for.doc.intent.releaseCommitment
    /\ cast.maker # "hostile" =>
          g.doc.auth.signature
              = Signature(order.order.maker, S!fillDigest(g.doc.fill, order.auth, g.doc.auth))

\* A document that was filled in from a draft.
DocOf(doc, i, t1, t2, r, at) ==
    /\ FillTyped(doc.fill, doc.auth)
    /\ doc = [fill |-> doc.fill, auth |-> doc.auth]
    /\ doc.fill.initiatorTimeout = t1 /\ doc.fill.responderTimeout = t2
    /\ doc.auth.expiresAt = r /\ doc.auth.issuedAt = at
    /\ doc.fill.releaseCommitment = i.doc.intent.releaseCommitment

LEMMA BodyTyped ==
    ASSUME OrderSigned, NEW i, IsIntent(i), NEW t1 \in Int, NEW t2 \in Int, NEW r, NEW body,
           body = FillBody(Draft(i, t1, t2, r))
    PROVE  /\ body = [f \in FillFields |-> body[f]]
           /\ IsText(body.taker) /\ IsText(body.releaseCommitment) /\ IsText(body.hashlock)
           /\ Canonical(body.taker) /\ Canonical(body.releaseCommitment)
           /\ body.initiatorTimeout = t1 /\ body.responderTimeout = t2
           /\ body.releaseCommitment = i.doc.intent.releaseCommitment
<1>1. IntentShaped(i)
  BY IntentShape
<1>2. /\ body.taker = i.doc.intent.taker /\ body.releaseCommitment = i.doc.intent.releaseCommitment
      /\ body.hashlock = IF prelock = Null THEN M!sha256(t1) ELSE prelock.hashlock
      /\ body.initiatorTimeout = t1 /\ body.responderTimeout = t2
      /\ body = [f \in FillFields |-> body[f]]
  BY DEF FillBody, Draft, FillFields
<1>3. IsText(M!sha256(t1))
  BY DEF IsText, M!sha256, M!Text, Text
<1>4. IsText(body.hashlock)
  BY <1>2, <1>3 DEF OrderSigned, prelock
<1>. QED  BY <1>1, <1>2, <1>4 DEF IntentShaped, IntentTyped

\* Lower case leaves a fill's other fields alone.
Lowered(body, fill) ==
    /\ fill = [f \in FillFields |-> fill[f]]
    /\ fill.taker = Lower(body.taker) /\ fill.releaseCommitment = Lower(body.releaseCommitment)
    /\ fill.hashlock = Lower(body.hashlock)
    /\ fill.initiatorTimeout = body.initiatorTimeout
    /\ fill.responderTimeout = body.responderTimeout

LEMMA LoweredTyped ==
    ASSUME OrderSigned, NEW i, IsIntent(i), NEW t1 \in Int, NEW t2 \in Int, NEW r, NEW fill,
           Lowered(FillBody(Draft(i, t1, t2, r)), fill)
    PROVE  /\ fill = [f \in FillFields |-> fill[f]]
           /\ IsText(fill.taker) /\ IsText(fill.releaseCommitment) /\ IsText(fill.hashlock)
           /\ Canonical(fill.taker) /\ Canonical(fill.releaseCommitment) /\ Canonical(fill.hashlock)
           /\ fill.initiatorTimeout = t1 /\ fill.responderTimeout = t2
           /\ fill.releaseCommitment = i.doc.intent.releaseCommitment
<1>. DEFINE body == FillBody(Draft(i, t1, t2, r))
<1>1. /\ IsText(body.taker) /\ IsText(body.releaseCommitment) /\ IsText(body.hashlock)
      /\ Canonical(body.taker) /\ Canonical(body.releaseCommitment)
      /\ body.initiatorTimeout = t1 /\ body.responderTimeout = t2
      /\ body.releaseCommitment = i.doc.intent.releaseCommitment
  BY BodyTyped
<1>. HIDE DEF body
<1>2. \A t : IsText(Lower(t)) /\ Canonical(Lower(t))
  BY DEF IsText, Lower, Text, Canonical
<1>3. Lower(body.releaseCommitment) = body.releaseCommitment
  BY <1>1, LowerOfCanonical
<1>4. Lowered(body, fill)
  BY DEF body
<1>. QED  BY <1>1, <1>2, <1>3, <1>4 DEF Lowered

LEMMA BrowserFill ==
    ASSUME OrderSigned, NEW i, IsIntent(i), NEW t1 \in Int, NEW t2 \in Int, NEW r \in Int, NEW at \in Int,
           NEW nonce, IsText(nonce), NEW doc, doc # Null,
           doc = B!signFillV1(FillBody(Draft(i, t1, t2, r)), OpenRow, r, nonce, at)
    PROVE  /\ DocOf(doc, i, t1, t2, r, at)
           /\ doc.auth.signature = Signature(order.order.maker, S!fillDigest(doc.fill, order.auth, doc.auth))
<1>. DEFINE body == FillBody(Draft(i, t1, t2, r))
            fill == [body EXCEPT !.taker = B!Lower(@), !.releaseCommitment = B!Lower(@),
                                 !.hashlock = B!Lower(@)]
            unsigned == [issuedAt |-> at, expiresAt |-> r, nonce |-> nonce]
            payload == B!fillDigest(fill, OpenRow.makerAuth, unsigned)
<1>1. /\ doc = [fill |-> fill, auth |-> B!signProtocolAuth(OpenRow.maker, unsigned, payload)]
      /\ payload # Null
  BY DEF B!signFillV1
<1>2. OpenRow.makerAuth = order.auth /\ OpenRow.maker = order.order.maker
  BY DEF OpenRow
<1>3. Lower(order.order.maker) = order.order.maker
  BY DEF OrderSigned, Lower, Address, Text
<1>4. Lowered(body, fill)
  <2>1. \A t : B!Lower(t) = Lower(t)
    BY DEF B!Lower, Lower, B!Text, Text
  <2>2. body = [f \in FillFields |-> body[f]]
    BY BodyTyped
  <2>. HIDE DEF body
  <2>3. /\ fill.taker = B!Lower(body.taker) /\ fill.releaseCommitment = B!Lower(body.releaseCommitment)
        /\ fill.hashlock = B!Lower(body.hashlock)
        /\ fill.initiatorTimeout = body.initiatorTimeout
        /\ fill.responderTimeout = body.responderTimeout
        /\ fill = [f \in FillFields |-> fill[f]]
    BY <2>2 DEF FillFields
  <2>. QED  BY <2>1, <2>3 DEF Lowered
<1>5. /\ fill = [f \in FillFields |-> fill[f]]
      /\ IsText(fill.taker) /\ IsText(fill.releaseCommitment) /\ IsText(fill.hashlock)
      /\ fill.initiatorTimeout = t1 /\ fill.responderTimeout = t2
      /\ fill.releaseCommitment = i.doc.intent.releaseCommitment
  <2>. HIDE DEF fill
  <2>. QED  BY <1>4, LoweredTyped
<1>. HIDE DEF fill, body
<1>6. doc.fill = fill /\ doc.auth = SignedAuth(unsigned, Signature(order.order.maker, payload))
  <2>. HIDE DEF unsigned, payload
  <2>. QED  BY <1>1, <1>2, <1>3, BrowserAuth
<1>7. /\ doc.auth.issuedAt = at /\ doc.auth.expiresAt = r /\ doc.auth.nonce = nonce
      /\ doc.auth.signature = Signature(order.order.maker, payload)
  <2>. HIDE DEF payload
  <2>. QED  BY <1>6, AuthFields
<1>8. payload = S!fillDigest(fill, order.auth, doc.auth)
  <2>1. B!fillTerms(fill, order.auth, unsigned) = S!FillTerms(fill, order.auth, doc.auth)
    BY <1>7 DEF B!fillTerms, S!FillTerms
  <2>. QED  BY <1>2, <2>1, WireAgrees DEF B!fillDigest, S!fillDigest
<1>9. doc = [fill |-> doc.fill, auth |-> doc.auth]
  BY <1>1
<1>. HIDE DEF payload, unsigned
<1>10. FillTyped(doc.fill, doc.auth)
  BY <1>5, <1>6, <1>7 DEF FillTyped
<1>. QED  BY <1>5, <1>6, <1>7, <1>8, <1>9, <1>10 DEF DocOf

LEMMA HeadlessFill ==
    ASSUME OrderSigned, NEW i, IsIntent(i), NEW t1 \in Int, NEW t2 \in Int, NEW r \in Int, NEW at \in Int,
           NEW nonce, IsText(nonce), Canonical(nonce), NEW doc, doc # Null,
           doc = T!signFillV1(Address(Maker), FillBody(Draft(i, t1, t2, r)), order, i.doc, r, nonce, at)
    PROVE  /\ DocOf(doc, i, t1, t2, r, at)
           /\ doc.auth.signature = Signature(order.order.maker, S!fillDigest(doc.fill, order.auth, doc.auth))
<1>. DEFINE body == FillBody(Draft(i, t1, t2, r))
            fill == T!normalizeFillBody(body)
            unsigned == [issuedAt |-> at, expiresAt |-> r, nonce |-> T!Lower(nonce)]
            payload == T!buildFillV1Payload(fill, order.auth, unsigned)
<1>1. /\ doc = [fill |-> fill, auth |-> T!Signed(unsigned, Address(Maker), payload)]
      /\ payload # Null
  BY DEF T!signFillV1
<1>2. order.order.maker = Address(Maker)
  BY DEF OrderSigned
<1>3. T!Lower(nonce) = nonce
  BY LowerOfCanonical
<1>4. Lowered(body, fill)
  <2>1. \A t : T!Lower(t) = Lower(t)
    BY DEF T!Lower, Lower, T!Text, Text
  <2>2. body = [f \in FillFields |-> body[f]]
    BY BodyTyped
  <2>. HIDE DEF body
  <2>3. /\ fill.taker = T!Lower(body.taker) /\ fill.releaseCommitment = T!Lower(body.releaseCommitment)
        /\ fill.hashlock = T!Lower(body.hashlock)
        /\ fill.initiatorTimeout = body.initiatorTimeout
        /\ fill.responderTimeout = body.responderTimeout
        /\ fill = [f \in FillFields |-> fill[f]]
    BY <2>2 DEF FillFields, T!normalizeFillBody
  <2>. QED  BY <2>1, <2>3 DEF Lowered
<1>5. /\ fill = [f \in FillFields |-> fill[f]]
      /\ IsText(fill.taker) /\ IsText(fill.releaseCommitment) /\ IsText(fill.hashlock)
      /\ Canonical(fill.taker) /\ Canonical(fill.releaseCommitment) /\ Canonical(fill.hashlock)
      /\ fill.initiatorTimeout = t1 /\ fill.responderTimeout = t2
      /\ fill.releaseCommitment = i.doc.intent.releaseCommitment
  <2>. HIDE DEF fill
  <2>. QED  BY <1>4, LoweredTyped
<1>. HIDE DEF fill, body
<1>6. doc.fill = fill /\ doc.auth = SignedAuth(unsigned, Signature(order.order.maker, payload))
  <2>. HIDE DEF unsigned, payload
  <2>. QED  BY <1>1, <1>2, TakerAuth
<1>7. /\ doc.auth.issuedAt = at /\ doc.auth.expiresAt = r /\ doc.auth.nonce = nonce
      /\ doc.auth.signature = Signature(order.order.maker, payload)
  <2>. HIDE DEF payload
  <2>. QED  BY <1>3, <1>6, AuthFields
<1>8. doc = [fill |-> doc.fill, auth |-> doc.auth]
  BY <1>1
<1>9. FillTyped(fill, doc.auth)
  <2>. HIDE DEF unsigned, payload
  <2>. QED  BY <1>5, <1>7 DEF FillTyped
<1>10. payload = S!fillDigest(fill, order.auth, doc.auth)
  <2>1. r > at
    BY <1>1 DEF T!buildFillV1Payload
  <2>2. payload = T!buildFillV1Payload(fill, order.auth, doc.auth)
    <3>1. unsigned.issuedAt = at /\ unsigned.expiresAt = r /\ unsigned.nonce = nonce
      BY <1>3
    <3>. HIDE DEF unsigned
    <3>. QED  BY <1>7, <3>1 DEF T!buildFillV1Payload
  <2>3. T!buildFillV1Payload(fill, order.auth, doc.auth) = S!fillDigest(fill, order.auth, doc.auth)
    <3>. HIDE DEF unsigned, payload
    <3>. QED  BY <1>5, <1>7, <1>9, <2>1, TakerFillBytes DEF OrderSigned
  <2>. QED  BY <2>2, <2>3
<1>. HIDE DEF payload, unsigned
<1>. QED  BY <1>5, <1>6, <1>7, <1>8, <1>9, <1>10 DEF DocOf

LEMMA FillShape ==
    ASSUME OrderSigned, cast \in Casts, NEW g, IsFill(g)
    PROVE  FillShaped(g)
<1>1. PICK i, t1, t2, r, at :
         /\ IsIntent(i) /\ {t1, t2, r, at} \subseteq Int
         /\ g = FillOf(Draft(i, t1, t2, r), at)
         /\ cast.maker # "hostile" => g.doc # Null
  BY DEF IsFill
<1>. DEFINE draft == Draft(i, t1, t2, r)
            body == FillBody(draft)
            nonce == Nonce(<<draft.for.who, draft.for.at, at>>)
<1>2. draft.for = i /\ draft.t1 = t1 /\ draft.t2 = t2 /\ draft.respondBy = r
  BY DEF Draft
<1>3. /\ g.for = i /\ g.t1 = t1 /\ g.t2 = t2 /\ g.respondBy = r /\ g.issuedAt = at
      /\ g = [for |-> g.for, t1 |-> g.t1, t2 |-> g.t2, respondBy |-> g.respondBy,
              issuedAt |-> g.issuedAt, doc |-> g.doc]
      /\ g.doc = FillDoc(draft, body, at)
  <2>. HIDE DEF body
  <2>. QED  BY <1>1, <1>2 DEF FillOf, body
<1>4. IsText(nonce) /\ Canonical(nonce)
  BY DEF IsText, Canonical, Nonce, Text
<1>5. t1 \in Int /\ t2 \in Int /\ r \in Int /\ at \in Int
  BY <1>1
<1>6. cast.maker \in {"browser", "headless", "hostile"}
  BY HandshakeAssumption
<1>. DEFINE Mine == g.doc.auth.signature
                      = Signature(order.order.maker, S!fillDigest(g.doc.fill, order.auth, g.doc.auth))
<1>. HIDE DEF nonce, Mine
<1>7. ASSUME cast.maker = "browser" PROVE DocOf(g.doc, i, t1, t2, r, at) /\ Mine
  <2>1. g.doc = B!signFillV1(body, OpenRow, r, nonce, at)
    BY <1>2, <1>3, <1>7 DEF FillDoc, nonce
  <2>2. g.doc # Null
    BY <1>1, <1>7
  <2>. QED  BY <1>1, <1>4, <1>5, <2>1, <2>2, BrowserFill DEF Mine
<1>8. ASSUME cast.maker = "headless" PROVE DocOf(g.doc, i, t1, t2, r, at) /\ Mine
  <2>1. g.doc = T!signFillV1(Address(Maker), body, order, i.doc, r, nonce, at)
    BY <1>2, <1>3, <1>8 DEF FillDoc, nonce
  <2>2. g.doc # Null
    BY <1>1, <1>8
  <2>. QED  BY <1>1, <1>4, <1>5, <2>1, <2>2, HeadlessFill DEF Mine
<1>9. ASSUME cast.maker = "hostile" PROVE DocOf(g.doc, i, t1, t2, r, at)
  <2>. DEFINE unsigned == [issuedAt |-> at, expiresAt |-> r, nonce |-> nonce]
              payload == B!fillDigest(body, order.auth, unsigned)
              signature == B!requestMessageProof(Address(Maker), payload)
  <2>1. g.doc = RawFill(body, r, nonce, at)
    BY <1>2, <1>3, <1>9 DEF FillDoc, nonce
  <2>2. g.doc = [fill |-> body, auth |-> B!signProtocolAuth(Address(Maker), unsigned, payload)]
    BY <2>1 DEF RawFill
  <2>3. B!signProtocolAuth(Address(Maker), unsigned, payload) = SignedAuth(unsigned, signature)
    BY DEF B!signProtocolAuth, SignedAuth
  <2>. HIDE DEF payload, body
  <2>4. g.doc.fill = body /\ g.doc.auth = SignedAuth(unsigned, signature)
        /\ g.doc = [fill |-> g.doc.fill, auth |-> g.doc.auth]
    BY <2>2, <2>3
  <2>5. g.doc.auth.issuedAt = at /\ g.doc.auth.expiresAt = r /\ g.doc.auth.nonce = nonce
    <3>. HIDE DEF signature
    <3>. QED  BY <2>4, AuthFields
  <2>6. /\ body = [f \in FillFields |-> body[f]]
        /\ IsText(body.taker) /\ IsText(body.releaseCommitment) /\ IsText(body.hashlock)
        /\ body.initiatorTimeout = t1 /\ body.responderTimeout = t2
        /\ body.releaseCommitment = i.doc.intent.releaseCommitment
    BY <1>1, <1>5, BodyTyped DEF body
  <2>. HIDE DEF unsigned, signature
  <2>7. FillTyped(g.doc.fill, g.doc.auth)
    BY <1>4, <1>5, <2>4, <2>5, <2>6 DEF FillTyped
  <2>. QED  BY <2>4, <2>5, <2>6, <2>7 DEF DocOf
<1>10. DocOf(g.doc, i, t1, t2, r, at)
  BY <1>6, <1>7, <1>8, <1>9
<1>11. cast.maker # "hostile" => Mine
  BY <1>6, <1>7, <1>8
<1>. HIDE DEF draft, body
<1>. QED  BY <1>1, <1>3, <1>10, <1>11 DEF DocOf, FillShaped, Mine

\* The row a verdict was passed on, when the book is free to alter it.
LEMMA FillNamed ==
    ASSUME OrderSigned, cast \in Casts, cast.maker # "hostile", NEW g, IsFill(g),
           NEW i, IsIntent(i), NEW fill, FillTyped(fill, g.doc.auth),
           Sound(fill, g.doc.auth, i.doc)
    PROVE  g = [for |-> i, t1 |-> fill.initiatorTimeout, t2 |-> fill.responderTimeout,
                respondBy |-> g.doc.auth.expiresAt, issuedAt |-> g.doc.auth.issuedAt,
                doc |-> [fill |-> fill, auth |-> g.doc.auth]]
<1>. DEFINE auth == g.doc.auth
            own == g.doc.fill
<1>1. FillShaped(g)
  BY FillShape
<1>2. S!verifyProof(order.order.maker, auth, S!fillDigest(fill, order.auth, auth))
      /\ fill.releaseCommitment = i.doc.intent.releaseCommitment
  BY DEF Sound, S!verifyFillV1, S!FillBinds
<1>3. /\ S!fillDigest(fill, order.auth, auth) # Null
      /\ auth.signature = Signature(order.order.maker, S!fillDigest(fill, order.auth, auth))
  BY <1>2, WireAgrees DEF S!verifyProof, verifyMessageForSigner
<1>4. auth.signature = Signature(order.order.maker, S!fillDigest(own, order.auth, auth))
  BY <1>1 DEF FillShaped
<1>5. S!fillDigest(fill, order.auth, auth) = S!fillDigest(own, order.auth, auth)
  <2>. DEFINE a == S!fillDigest(fill, order.auth, auth)
              b == S!fillDigest(own, order.auth, auth)
  <2>1. Signature(order.order.maker, a) = Signature(order.order.maker, b)
    BY <1>3, <1>4
  <2>. HIDE DEF a, b
  <2>2. a = b
    BY <2>1, SignatureNames
  <2>. QED  BY <2>2 DEF a, b
<1>6. S!FillTerms(fill, order.auth, auth) = S!FillTerms(own, order.auth, auth)
  <2>. DEFINE m == S!FillTerms(fill, order.auth, auth)
              n == S!FillTerms(own, order.auth, auth)
  <2>1. protocolMessageBytes("FillV2", m) = protocolMessageBytes("FillV2", n)
        /\ protocolMessageBytes("FillV2", m) # Null
    BY <1>3, <1>5, WireAgrees DEF S!fillDigest
  <2>. HIDE DEF m, n
  <2>2. m = n
    BY <2>1, BytesName
  <2>. QED  BY <2>2 DEF m, n
<1>7. \A f \in FillFields : fill[f] = own[f]
  BY <1>6 DEF S!FillTerms, FillFields
<1>8. fill = [f \in FillFields |-> fill[f]] /\ own = [f \in FillFields |-> own[f]]
  BY <1>1 DEF FillTyped, FillShaped
<1>9. fill = own
  <2>1. [f \in FillFields |-> fill[f]] = [f \in FillFields |-> own[f]]
    BY <1>7
  <2>. QED  BY <1>8, <2>1
<1>10. g.for = i
  BY <1>1, <1>2, <1>9, IntentNamed DEF FillShaped
<1>. QED  BY <1>1, <1>9, <1>10 DEF FillShaped

-----------------------------------------------------------------------------
(* What a row can say.                                                     *)

RowFields == DOMAIN OpenRow

\* A row of the order, with a fill its maker signed or one made of it.
RowGood(row) ==
    /\ OfOrder(row)
    /\ row.fill # Null =>
          /\ FillTyped(row.fill, row.fillAuth)
          /\ \E g : /\ IsFill(g) /\ row.fillAuth = g.doc.auth
                    /\ cast.maker # "hostile" => g \in signed.fills

RowShaped(row) == row = [f \in RowFields |-> row[f]]

LEMMA OpenRowGood ==
    RowGood(OpenRow) /\ RowShaped(OpenRow) /\ OpenRow.fill = Null
BY DEF RowGood, RowShaped, OpenRow, OfOrder, RowFields, orderDigest

LEMMA RowOfGood ==
    ASSUME OrderSigned, cast \in Casts, NEW b,
           b.fill # Null => IsFill(b.fill) /\ (cast.maker # "hostile" => b.fill \in signed.fills)
    PROVE  RowGood(RowOf(b)) /\ RowShaped(RowOf(b))
<1>. DEFINE base == [OpenRow EXCEPT !.status = status(b), !.released = b.released,
                                    !.equivocated = b.equivocated]
            withCancel == IF b.cancel = Null THEN base
                          ELSE [base EXCEPT !.cancelProof = b.cancel.doc.cancel,
                                            !.cancelAuth = b.cancel.doc.auth]
            doc == b.fill.doc
            full == [withCancel EXCEPT !.fill = doc.fill, !.fillAuth = doc.auth,
                                       !.selectedIntent = b.fill.for.doc,
                                       !.taker = doc.fill.taker, !.hashlock = doc.fill.hashlock,
                                       !.initiatorTimeout = doc.fill.initiatorTimeout,
                                       !.responderTimeout = doc.fill.responderTimeout]
<1>1. RowShaped(OpenRow) /\ OfOrder(OpenRow) /\ OpenRow.fill = Null
  BY OpenRowGood DEF RowGood
<1>2. RowShaped(base) /\ OfOrder(base) /\ base.fill = Null
  <2>. DEFINE With(row, x, y, z) == [row EXCEPT !.status = x, !.released = y, !.equivocated = z]
  <2>1. \A x, y, z, row : RowShaped(row) => RowShaped(With(row, x, y, z))
    BY DEF RowShaped
  <2>2. \A x, y, z, row : RowShaped(row) /\ OfOrder(row) /\ row.fill = Null =>
           OfOrder(With(row, x, y, z)) /\ With(row, x, y, z).fill = Null
    BY DEF RowShaped, RowFields, OpenRow, OfOrder
  <2>3. base = With(OpenRow, status(b), b.released, b.equivocated)
    OBVIOUS
  <2>. HIDE DEF With, base
  <2>. QED  BY <1>1, <2>1, <2>2, <2>3
<1>. HIDE DEF base
<1>3. RowShaped(withCancel) /\ OfOrder(withCancel) /\ withCancel.fill = Null
  BY <1>2 DEF RowShaped, OfOrder, RowFields, OpenRow
<1>. HIDE DEF withCancel
<1>4. /\ RowShaped(full) /\ OfOrder(full) /\ full.fill = doc.fill /\ full.fillAuth = doc.auth
  BY <1>3 DEF RowShaped, OfOrder, RowFields, OpenRow
<1>5. RowOf(b) = IF b.fill = Null THEN withCancel ELSE full
  BY DEF RowOf, withCancel, base
<1>. HIDE DEF full
<1>6. CASE b.fill = Null
  BY <1>3, <1>5, <1>6 DEF RowGood
<1>7. CASE b.fill # Null
  <2>1. FillShaped(b.fill)
    BY <1>7, FillShape
  <2>2. FillTyped(full.fill, full.fillAuth)
    BY <1>4, <2>1 DEF FillShaped
  <2>. QED  BY <1>4, <1>5, <1>7, <2>2 DEF RowGood
<1>. QED  BY <1>6, <1>7

LEMMA AlteredGood ==
    ASSUME OrderSigned, NEW row, RowGood(row), RowShaped(row), NEW i, IsIntent(i),
           NEW other \in Altered(row, i)
    PROVE  RowGood(other)
<1>. DEFINE One == [row EXCEPT !.fill.responderTimeout = @ + 1, !.responderTimeout = @ + 1]
            Two == [row EXCEPT !.fill.initiatorTimeout = @ - 1, !.initiatorTimeout = @ - 1]
            Three == [row EXCEPT !.fill.taker = i.doc.intent.taker,
                                 !.taker = i.doc.intent.taker, !.selectedIntent = i.doc]
<1>1. row.fill # Null /\ other \in {One, Two, Three}
  BY DEF Altered
<1>2. IsText(i.doc.intent.taker)
  BY IntentShape DEF IntentShaped, IntentTyped
<1>3. OfOrder(row) /\ FillTyped(row.fill, row.fillAuth)
  BY <1>1 DEF RowGood
<1>. DEFINE Same(r) == OfOrder(r) /\ r.fillAuth = row.fillAuth /\ FillTyped(r.fill, row.fillAuth)
<1>4. Same(One)
  BY <1>3 DEF RowShaped, RowFields, OpenRow, OfOrder, FillTyped, FillFields
<1>5. Same(Two)
  BY <1>3 DEF RowShaped, RowFields, OpenRow, OfOrder, FillTyped, FillFields
<1>6. Same(Three)
  BY <1>2, <1>3 DEF RowShaped, RowFields, OpenRow, OfOrder, FillTyped, FillFields
<1>. HIDE DEF One, Two, Three
<1>7. Same(other)
  BY <1>1, <1>4, <1>5, <1>6
<1>. QED  BY <1>1, <1>7 DEF RowGood

\* The order and the play never change, so a proposal stays a proposal.
LEMMA Steady ==
    ASSUME cast' = cast, order' = order
    PROVE  /\ \A i : IsIntent(i)' <=> IsIntent(i)
           /\ \A g : IsFill(g)' <=> IsFill(g)
           /\ OrderSigned => OrderSigned'
<1>1. OpenRow' = OpenRow
  BY DEF OpenRow, prelock, orderDigest
<1>2. \A who, at : Intent(who, at)' = Intent(who, at)
  BY <1>1 DEF Intent
<1>3. \A i : IsIntent(i)' <=> IsIntent(i)
  BY <1>2 DEF IsIntent
<1>4. \A i, t1, t2, r, at : FillOf(Draft(i, t1, t2, r), at)' = FillOf(Draft(i, t1, t2, r), at)
  BY <1>1 DEF FillOf, FillDoc, FillBody, Draft, prelock, orderDigest, RawFill
<1>5. \A g : IsFill(g)' <=> IsFill(g)
  BY <1>3, <1>4 DEF IsFill
<1>6. OrderSigned => OrderSigned'
  BY DEF OrderSigned
<1>. QED  BY <1>3, <1>5, <1>6

-----------------------------------------------------------------------------
(* The inductive invariant, of the values the variables take.              *)

\* What the book has received are proposals, and the fill it has taken is
\* signed.
BookWell(b, fills) ==
    /\ b = [f \in {"received", "dropped", "fill", "cancel", "released", "equivocated"} |-> b[f]]
    /\ \A i \in DOMAIN b.received : IsIntent(i)
    /\ b.fill = Null \/ b.fill \in fills

\* A draft answers a proposal.
DraftWell(d) ==
    /\ d = Draft(d.for, d.t1, d.t2, d.respondBy)
    /\ IsIntent(d.for) /\ d.t1 \in Int /\ d.t2 \in Int
    /\ Browser => d.respondBy \in Int

\* What the maker saved of its order: a selection with its draft, or neither.
HandleWell(h, fills) ==
    /\ h = [f \in {"selected", "draft", "fill", "cancel"} |-> h[f]]
    /\ \/ h.selected = Null /\ h.draft = Null
       \/ IsIntent(h.selected) /\ DraftWell(h.draft)
    /\ h.fill = Null \/ h.fill \in fills

CardWell(c, fills) == (c = Null /\ Browser) \/ HandleWell(c, fills)

FillPromptWell(p) == HandleWell(p.staged, {}) /\ p.staged.fill = Null /\ IsFill(p.fill)
CancelPromptWell(p) == HandleWell(p.saved, {}) /\ p.saved.fill = Null

TabWell(t) ==
    /\ t = [f \in {"mounted", "proofSaved", "orphaned", "fillPrompt", "cancelPrompt"} |-> t[f]]
    /\ t.fillPrompt = Null \/ (Browser /\ FillPromptWell(t.fillPrompt))
    /\ t.cancelPrompt = Null \/ (Browser /\ CancelPromptWell(t.cancelPrompt))

SignedWell(s, gone_into) ==
    /\ s = [f \in {"fills", "cancel"} |-> s[f]]
    /\ \A g \in s.fills : IsFill(g)
    /\ cast.maker = "hostile" => s.fills = {}
    /\ gone_into = Null \/ gone_into \in s.fills

\* The taker's record holds proposals of its own.
TakeWell(take, n) ==
    /\ take = [f \in {"phase", "asked", "fill", "released"} |-> take[f]]
    /\ \A i \in take.asked : IsIntent(i) /\ i.at <= n
    /\ take.phase \in {"signing", "asked"} => take.asked # {}

SafeFill(f, asked, fills) ==
    /\ f.for \in asked
    /\ cast.maker # "hostile" => f \in fills
    /\ f.t2 - f.respondBy > RESPONDER_RUNWAY
    /\ f.t1 - f.issuedAt >= 2 * (f.t2 - f.issuedAt)
    /\ prelock # Null => f.t1 = prelock.t1
    /\ S!verifyFillV1(f.doc.fill, f.doc.auth, order, f.for.doc, f.issuedAt, TRUE)

SafeTake(take, s) == take.phase \in {"ready", "funded"} => SafeFill(take.fill, take.asked, s.fills)

\* Until a cancellation is signed beside it, the maker signs one fill.
OneFill(c, t, s) ==
    ~s.cancel /\ Null \notin s.fills =>
        /\ \A f, g \in s.fills : f = g
        /\ (Headless \/ c # Null) /\ c.fill = Null => s.fills = {}
        /\ t.fillPrompt # Null => s.fills = {}

IInv ==
    /\ now \in Nat /\ cast \in Casts /\ OrderSigned
    /\ BookWell(book, signed.fills)
    /\ CardWell(card, signed.fills) /\ TabWell(tab) /\ SignedWell(signed, swap)
    /\ TakeWell(alice, now)
    /\ SafeTake(alice, signed)
    /\ OneFill(card, tab, signed)

\* What a step leaves.
Kept ==
    /\ cast' = cast /\ order' = order /\ now' \in Nat
    /\ BookWell(book', signed'.fills)
    /\ CardWell(card', signed'.fills) /\ TabWell(tab') /\ SignedWell(signed', swap')
    /\ TakeWell(alice', now')
    /\ SafeTake(alice', signed')
    /\ OneFill(card', tab', signed')

LEMMA KeptInv ==
    ASSUME IInv, Kept
    PROVE  IInv'
<1>. USE DEF Kept, IInv
<1>1. cast' = cast /\ order' = order
  OBVIOUS
<1>2. /\ \A i : IsIntent(i)' <=> IsIntent(i)
      /\ \A g : IsFill(g)' <=> IsFill(g)
      /\ OrderSigned'
  BY <1>1, Steady
<1>3. (Browser' <=> Browser) /\ (Headless' <=> Headless) /\ prelock' = prelock
  BY <1>1 DEF Browser, Headless, prelock
<1>4. \A d : DraftWell(d)' <=> DraftWell(d)
  BY <1>2, <1>3 DEF DraftWell
<1>5. \A h, f : HandleWell(h, f)' <=> HandleWell(h, f)
  BY <1>2, <1>4 DEF HandleWell
<1>6. now' \in Nat /\ cast' \in Casts
  BY <1>1
<1>7. BookWell(book, signed.fills)'
  BY <1>2 DEF BookWell
<1>8. CardWell(card, signed.fills)'
  BY <1>3, <1>5 DEF CardWell
<1>9. TabWell(tab)'
  BY <1>2, <1>3, <1>5 DEF TabWell, FillPromptWell, CancelPromptWell
<1>10. SignedWell(signed, swap)'
  BY <1>1, <1>2 DEF SignedWell
<1>11. TakeWell(alice, now)'
  BY <1>2 DEF TakeWell
<1>12. SafeTake(alice, signed)'
  BY <1>1, <1>3 DEF SafeTake, SafeFill
<1>13. OneFill(card, tab, signed)'
  BY <1>3 DEF OneFill
<1>. QED  BY <1>2, <1>6, <1>7, <1>8, <1>9, <1>10, <1>11, <1>12, <1>13

LEMMA InitInv ==
    Init => IInv
<1>. SUFFICES ASSUME Init PROVE IInv
  OBVIOUS
<1>. USE DEF Init
<1>1. now \in Nat /\ cast \in Casts
  OBVIOUS
<1>2. OrderSigned
  <2>. DEFINE doc == OrderDoc(cast)
  <2>1. ListedWell(doc)
    BY OrdersSigned
  <2>2. order.order = doc.order /\ order.auth = doc.auth /\ order.digest = S!orderDigest(doc.order, doc.auth)
    OBVIOUS
  <2>. HIDE DEF doc
  <2>. QED  BY <2>1, <2>2 DEF ListedWell, OrderSigned
<1>3. BookWell(book, signed.fills)
  <2>1. DOMAIN book.received = {}
    BY DEF NewBook
  <2>2. book = [f \in {"received", "dropped", "fill", "cancel", "released", "equivocated"} |-> book[f]]
    BY DEF NewBook
  <2>3. book.fill = Null
    BY DEF NewBook
  <2>. QED  BY <2>1, <2>2, <2>3 DEF BookWell
<1>4. CardWell(card, signed.fills)
  BY DEF CardWell, HandleWell, NewCard
<1>5. TabWell(tab)
  BY DEF TabWell, NewTab
<1>6. SignedWell(signed, swap)
  BY DEF SignedWell
<1>7. TakeWell(alice, now)
  BY DEF TakeWell, NoTake
<1>8. SafeTake(alice, signed)
  BY DEF SafeTake, NoTake
<1>9. OneFill(card, tab, signed)
  BY DEF OneFill
<1>. QED  BY <1>1, <1>2, <1>3, <1>4, <1>5, <1>6, <1>7, <1>8, <1>9 DEF IInv

-----------------------------------------------------------------------------
(* What a request leaves of the book.                                      *)

LEMMA IntentKeeps ==
    ASSUME NEW b, NEW F, BookWell(b, F), NEW i, IsIntent(i)
    PROVE  BookWell(AfterIntent(b, i), F)
<1>. DEFINE rec == [j \in DOMAIN b.received \cup {i} |-> IF j = i THEN now ELSE b.received[j]]
            nb == [b EXCEPT !.received = rec]
<1>1. AfterIntent(b, i) = nb \/ AfterIntent(b, i) = b
  BY DEF AfterIntent
<1>2. \A j \in DOMAIN rec : IsIntent(j)
  BY DEF BookWell
<1>. HIDE DEF rec
<1>3. BookWell(nb, F)
  BY <1>2 DEF BookWell
<1>. QED  BY <1>1, <1>3

LEMMA FillKeeps ==
    ASSUME NEW b, NEW F, BookWell(b, F), NEW f \in F
    PROVE  BookWell(AfterFill(b, f), F)
<1>1. \/ AfterFill(b, f) = b
      \/ AfterFill(b, f) = [b EXCEPT !.equivocated = TRUE]
      \/ AfterFill(b, f) = [b EXCEPT !.fill = f, !.released = f.for \in b.dropped]
  BY DEF AfterFill
<1>2. BookWell([b EXCEPT !.equivocated = TRUE], F)
  BY DEF BookWell
<1>3. BookWell([b EXCEPT !.fill = f, !.released = f.for \in b.dropped], F)
  BY DEF BookWell
<1>. QED  BY <1>1, <1>2, <1>3

LEMMA CancelKeeps ==
    ASSUME NEW b, NEW F, BookWell(b, F), NEW c
    PROVE  BookWell(AfterCancel(b, c), F)
<1>1. \/ AfterCancel(b, c) = b
      \/ AfterCancel(b, c) = [b EXCEPT !.equivocated = TRUE]
      \/ AfterCancel(b, c) = [b EXCEPT !.cancel = c]
  BY DEF AfterCancel
<1>2. BookWell([b EXCEPT !.equivocated = TRUE], F)
  BY DEF BookWell
<1>3. BookWell([b EXCEPT !.cancel = c], F)
  BY DEF BookWell
<1>. QED  BY <1>1, <1>2, <1>3

LEMMA ReleaseKeeps ==
    ASSUME NEW b, NEW F, BookWell(b, F), NEW i
    PROVE  BookWell(AfterRelease(b, i), F)
<1>. DEFINE drop == b.dropped \cup {i}
            free == b.released \/ (b.fill # Null /\ b.fill.for = i)
            nb == [b EXCEPT !.dropped = drop, !.released = free]
<1>1. AfterRelease(b, i) = b \/ AfterRelease(b, i) = nb
  BY DEF AfterRelease
<1>. HIDE DEF drop, free
<1>2. BookWell(nb, F)
  BY DEF BookWell
<1>. QED  BY <1>1, <1>2

LEMMA SendKeeps ==
    ASSUME NEW F, BookWell(book, F), NEW after, BookWell(after, F), NEW delivery, Send(delivery, after)
    PROVE  BookWell(book', F)
BY DEF Send

LEMMA BookGrows ==
    ASSUME NEW b, NEW F, NEW G, F \subseteq G, BookWell(b, F)
    PROVE  BookWell(b, G)
BY DEF BookWell

LEMMA HandleGrows ==
    ASSUME NEW h, NEW F, NEW G, F \subseteq G, HandleWell(h, F)
    PROVE  HandleWell(h, G)
BY DEF HandleWell

-----------------------------------------------------------------------------
(* The maker's steps.                                                      *)

\* A step of the maker: the taker's record is not touched, and what is signed
\* stays signed.
LEMMA MakerKept ==
    ASSUME IInv, UNCHANGED <<now, cast, order, alice>>,
           signed.fills \subseteq signed'.fills,
           BookWell(book', signed'.fills),
           CardWell(card', signed'.fills), TabWell(tab'), SignedWell(signed', swap'),
           OneFill(card', tab', signed')
    PROVE  Kept
<1>1. now' = now /\ cast' = cast /\ order' = order /\ alice' = alice
  OBVIOUS
<1>2. SafeTake(alice, signed')
  BY DEF IInv, SafeTake, SafeFill
<1>. QED  BY <1>1, <1>2 DEF Kept, IInv

\* The maker's page or its record changes, and nothing is signed.
LEMMA PageKept ==
    ASSUME IInv, UNCHANGED <<now, cast, order, alice, signed>>, swap' = swap,
           BookWell(book', signed.fills),
           CardWell(card', signed.fills), TabWell(tab'), OneFill(card', tab', signed)
    PROVE  Kept
<1>1. signed' = signed /\ swap' = swap /\ UNCHANGED <<now, cast, order, alice>>
  OBVIOUS
<1>2. SignedWell(signed', swap')
  BY <1>1 DEF IInv
<1>. QED  BY <1>1, <1>2, MakerKept

LEMMA PublishKeeps ==
    ASSUME NEW F, BookWell(book, F), NEW handle, HandleWell(handle, F), handle.fill \in F,
           TabWell(tab), Browser, NEW delivery, Publish(handle, delivery)
    PROVE  /\ BookWell(book', F)
           /\ CardWell(card', F) /\ card' \in {Null, handle}
           /\ TabWell(tab') /\ tab'.fillPrompt = Null
           /\ swap' \in {swap, handle.fill}
<1>. DEFINE after == AfterFill(book, handle.fill)
            One == [tab EXCEPT !.mounted = FALSE, !.fillPrompt = Null]
            Two == [tab EXCEPT !.proofSaved = TRUE, !.fillPrompt = Null]
<1>1. BookWell(after, F)
  BY FillKeeps
<1>2. Send(delivery, after)
  BY DEF Publish
<1>3. BookWell(book', F)
  <2>. HIDE DEF after
  <2>. QED  BY <1>1, <1>2, SendKeeps
<1>4. /\ card' \in {Null, handle} /\ swap' \in {swap, handle.fill}
      /\ tab' \in {One, Two}
  BY DEF Publish
<1>5. TabWell(One) /\ One.fillPrompt = Null /\ TabWell(Two) /\ Two.fillPrompt = Null
  BY DEF TabWell
<1>6. CardWell(card', F)
  BY <1>4 DEF CardWell
<1>. HIDE DEF One, Two
<1>. QED  BY <1>3, <1>4, <1>5, <1>6

LEMMA PublishCancelKeeps ==
    ASSUME NEW F, BookWell(book, F), NEW saved, HandleWell(saved, F),
           TabWell(tab), Browser, NEW delivery, PublishCancel(saved, delivery)
    PROVE  /\ BookWell(book', F)
           /\ CardWell(card', F) /\ card' \in {Null, saved}
           /\ TabWell(tab') /\ tab'.fillPrompt = tab.fillPrompt
<1>. DEFINE after == AfterCancel(book, saved.cancel)
            One == [tab EXCEPT !.mounted = FALSE, !.cancelPrompt = Null]
            Two == [tab EXCEPT !.cancelPrompt = Null]
<1>1. BookWell(after, F)
  BY CancelKeeps
<1>2. Send(delivery, after)
  BY DEF PublishCancel
<1>3. BookWell(book', F)
  <2>. HIDE DEF after
  <2>. QED  BY <1>1, <1>2, SendKeeps
<1>4. card' \in {Null, saved} /\ tab' \in {One, Two}
  BY DEF PublishCancel
<1>5. /\ TabWell(One) /\ One.fillPrompt = tab.fillPrompt
      /\ TabWell(Two) /\ Two.fillPrompt = tab.fillPrompt
  BY DEF TabWell
<1>6. CardWell(card', F)
  BY <1>4 DEF CardWell
<1>. HIDE DEF One, Two
<1>. QED  BY <1>3, <1>4, <1>5, <1>6

LEMMA SelectsFrom ==
    ASSUME NEW I, NEW j \in Select(I)
    PROVE  j \in I
<1>. DEFINE cands == {Candidate(k) : k \in I}
<1>1. PICK c \in B!selectEarliestFillIntent(RowOf(book), cands, now) : j = c.of
  BY DEF Select
<1>2. c \in cands
  <2>. HIDE DEF cands
  <2>. QED  BY <1>1 DEF B!selectEarliestFillIntent
<1>3. PICK k \in I : c = Candidate(k)
  BY <1>2
<1>. QED  BY <1>1, <1>3 DEF Candidate

LEMMA SelectionGood ==
    ASSUME IInv, card # Null, NEW i \in Selection
    PROVE  IsIntent(i)
<1>1. \A I : Select(I) \subseteq I
  BY SelectsFrom
<1>2. (i = card.selected /\ card.selected # Null) \/ i \in listFillIntents
  BY <1>1 DEF Selection
<1>3. listFillIntents \subseteq DOMAIN book.received
  BY DEF listFillIntents
<1>. QED  BY <1>2, <1>3 DEF IInv, BookWell, CardWell, HandleWell

LEMMA DraftFill ==
    ASSUME NEW d, DraftWell(d), d.respondBy \in Int, NEW n \in Int,
           cast.maker # "hostile" => FillOf(d, n).doc # Null
    PROVE  IsFill(FillOf(d, n))
<1>1. d = Draft(d.for, d.t1, d.t2, d.respondBy) /\ IsIntent(d.for)
      /\ {d.t1, d.t2, d.respondBy, n} \subseteq Int
  BY DEF DraftWell
<1>. QED  BY <1>1 DEF IsFill

LEMMA DraftIs ==
    ASSUME NEW i, IsIntent(i), NEW t1 \in Int, NEW t2 \in Int, NEW r, Browser => r \in Int
    PROVE  DraftWell(Draft(i, t1, t2, r))
BY DEF DraftWell, Draft

LEMMA EarliestInt ==
    ASSUME NEW a \in Int, NEW b \in Int
    PROVE  B!Earliest(a, b) \in Int
BY DEF B!Earliest

LEMMA StartKept ==
    ASSUME IInv, StartSignedSwap
    PROVE  Kept
<1>1. /\ Browser /\ card # Null /\ card.fill = Null
      /\ UNCHANGED <<now, cast, order, book, swap, signed, alice, faults>>
  BY DEF StartSignedSwap, MayMatch
<1>2. PICK i \in Selection :
        LET draft == IF canReuseDraft(i) THEN card.draft ELSE FreshDraft(i)
            staged == [card EXCEPT !.selected = i, !.draft = draft]
        IN  /\ card' = staged
            /\ \E fill \in {FillOf(draft, now)} :
                tab' = [tab EXCEPT !.fillPrompt =
                          IF fill.doc = Null THEN Null
                          ELSE [staged |-> staged, fill |-> fill]]
  BY DEF StartSignedSwap
<1>. DEFINE draft == IF canReuseDraft(i) THEN card.draft ELSE FreshDraft(i)
            staged == [card EXCEPT !.selected = i, !.draft = draft]
            fill == FillOf(draft, now)
            prompt == IF fill.doc = Null THEN Null ELSE [staged |-> staged, fill |-> fill]
<1>3. card' = staged /\ tab' = [tab EXCEPT !.fillPrompt = prompt]
  BY <1>2
<1>4. IsIntent(i)
  BY <1>1, SelectionGood
<1>5. DraftWell(draft)
  <2>1. CASE canReuseDraft(i)
    BY <1>1, <2>1 DEF canReuseDraft, IInv, CardWell, HandleWell
  <2>2. CASE ~canReuseDraft(i)
    <3>1. /\ now + RESPONDER_TIMEOUT \in Int /\ now + INITIATOR_TIMEOUT \in Int /\ now + RESPONSE \in Int
          /\ orderExpiry \in Int
          /\ prelock # Null => prelock.t1 \in Int
      BY HandshakeAssumption DEF IInv, OrderSigned, orderExpiry, prelock
    <3>2. B!Earliest(now + RESPONSE, orderExpiry) \in Int
      BY <3>1, EarliestInt
    <3>3. (IF prelock = Null THEN now + INITIATOR_TIMEOUT ELSE prelock.t1) \in Int
      BY <3>1
    <3>4. DraftWell(FreshDraft(i))
      BY <1>4, <3>1, <3>2, <3>3, DraftIs DEF FreshDraft
    <3>. QED  BY <2>2, <3>4
  <2>. QED  BY <2>1, <2>2
<1>. HIDE DEF draft
<1>6. HandleWell(staged, {}) /\ staged.fill = Null
  BY <1>1, <1>4, <1>5 DEF IInv, CardWell, HandleWell
<1>7. fill.doc # Null => IsFill(fill)
  BY <1>1, <1>5, DraftFill DEF DraftWell, IInv
<1>. HIDE DEF staged, fill
<1>8. prompt = Null \/ FillPromptWell(prompt)
  BY <1>6, <1>7 DEF FillPromptWell
<1>. HIDE DEF prompt
<1>9. TabWell(tab')
  BY <1>1, <1>3, <1>8 DEF TabWell, IInv
<1>10. CardWell(card', signed.fills)
  BY <1>3, <1>6, HandleGrows DEF CardWell
<1>11. ~signed.cancel /\ Null \notin signed.fills => signed.fills = {}
  BY <1>1 DEF IInv, OneFill
<1>12. OneFill(card', tab', signed)
  BY <1>11 DEF OneFill
<1>13. BookWell(book', signed.fills)
  BY <1>1 DEF IInv
<1>. QED  BY <1>1, <1>9, <1>10, <1>12, <1>13, PageKept

LEMMA ApproveFillKept ==
    ASSUME IInv, NEW delivery, ApproveFill(delivery)
    PROVE  Kept
<1>. DEFINE p == tab.fillPrompt
            handle == [p.staged EXCEPT !.fill = p.fill]
            F == signed.fills \cup {p.fill}
<1>1. /\ p # Null /\ Publish(handle, delivery)
      /\ signed' = [signed EXCEPT !.fills = F]
      /\ UNCHANGED <<now, cast, order, alice>>
  BY DEF ApproveFill
<1>2. Browser /\ FillPromptWell(p) /\ TabWell(tab)
  BY <1>1 DEF IInv, TabWell
<1>. HIDE DEF p
<1>3. signed'.fills = F /\ signed'.cancel = signed.cancel
      /\ signed' = [f \in {"fills", "cancel"} |-> signed'[f]]
  BY <1>1 DEF IInv, SignedWell
<1>4. HandleWell(handle, F) /\ handle.fill = p.fill
  BY <1>2 DEF FillPromptWell, HandleWell
<1>5. BookWell(book, F)
  BY BookGrows DEF IInv
<1>. HIDE DEF handle
<1>6. /\ BookWell(book', F) /\ CardWell(card', F) /\ card' \in {Null, handle}
      /\ TabWell(tab') /\ tab'.fillPrompt = Null /\ swap' \in {swap, handle.fill}
  <2>1. handle.fill \in F
    BY <1>4
  <2>. HIDE DEF F
  <2>. QED  BY <1>1, <1>2, <1>4, <1>5, <2>1, PublishKeeps
<1>7. SignedWell(signed', swap')
  <2>1. cast.maker # "hostile"
    BY <1>2 DEF Browser
  <2>2. \A g \in F : IsFill(g)
    BY <1>2 DEF FillPromptWell, IInv, SignedWell
  <2>3. swap' = Null \/ swap' \in F
    BY <1>4, <1>6 DEF IInv, SignedWell
  <2>. QED  BY <1>3, <2>1, <2>2, <2>3 DEF SignedWell
<1>8. OneFill(card', tab', signed')
  <2>1. ~signed.cancel /\ Null \notin signed.fills => signed.fills = {}
    BY <1>1 DEF IInv, OneFill, p
  <2>2. ~Headless
    BY <1>2 DEF Browser, Headless
  <2>. QED  BY <1>3, <1>4, <1>6, <2>1, <2>2 DEF OneFill
<1>. QED  BY <1>1, <1>3, <1>6, <1>7, <1>8, MakerKept

LEMMA RetryKept ==
    ASSUME IInv, NEW delivery, RetryFill(delivery)
    PROVE  Kept
<1>1. /\ Browser /\ card # Null /\ card.fill # Null /\ Publish(card, delivery)
      /\ UNCHANGED <<now, cast, order, signed, alice>>
  BY DEF RetryFill, MayMatch
<1>2. HandleWell(card, signed.fills) /\ card.fill \in signed.fills
  BY <1>1 DEF IInv, CardWell, HandleWell
<1>3. /\ BookWell(book', signed.fills) /\ CardWell(card', signed.fills) /\ card' \in {Null, card}
      /\ TabWell(tab') /\ tab'.fillPrompt = Null /\ swap' \in {swap, card.fill}
  BY <1>1, <1>2, PublishKeeps DEF IInv
<1>4. signed' = signed
  BY <1>1
<1>5. SignedWell(signed', swap')
  BY <1>2, <1>3, <1>4 DEF IInv, SignedWell
<1>6. OneFill(card', tab', signed')
  <2>1. ~Headless
    BY <1>1 DEF Browser, Headless
  <2>. QED  BY <1>3, <1>4, <2>1 DEF OneFill, IInv
<1>. QED  BY <1>1, <1>3, <1>4, <1>5, <1>6, MakerKept

LEMMA ClickCancelKept ==
    ASSUME IInv, NEW delivery, ClickCancel(delivery)
    PROVE  Kept
<1>1. /\ Browser /\ card # Null /\ card.fill = Null
      /\ UNCHANGED <<now, cast, order, swap, signed, alice>>
  BY DEF ClickCancel
<1>2. HandleWell(card, signed.fills)
  BY <1>1 DEF IInv, CardWell
<1>3. ~Headless
  BY <1>1 DEF Browser, Headless
<1>4. CASE card.cancel = Null
  <2>1. PICK c : tab' = [tab EXCEPT !.cancelPrompt = [saved |-> card, cancel |-> c]]
                 /\ UNCHANGED <<book, card, faults>>
    BY <1>4 DEF ClickCancel
  <2>2. HandleWell(card, {})
    BY <1>1, <1>2 DEF HandleWell
  <2>3. CancelPromptWell([saved |-> card, cancel |-> c])
    BY <1>1, <2>2 DEF CancelPromptWell
  <2>4. TabWell(tab') /\ tab'.fillPrompt = tab.fillPrompt
    BY <1>1, <2>1, <2>3 DEF TabWell, IInv
  <2>5. OneFill(card', tab', signed)
    BY <2>1, <2>4 DEF OneFill, IInv
  <2>6. CardWell(card', signed.fills) /\ BookWell(book', signed.fills)
    BY <2>1 DEF IInv
  <2>. QED  BY <1>1, <2>4, <2>5, <2>6, PageKept
<1>5. CASE card.cancel # Null
  <2>1. PublishCancel(card, delivery)
    BY <1>5 DEF ClickCancel
  <2>2. /\ BookWell(book', signed.fills)
        /\ CardWell(card', signed.fills) /\ card' \in {Null, card}
        /\ TabWell(tab') /\ tab'.fillPrompt = tab.fillPrompt
    BY <1>1, <1>2, <2>1, PublishCancelKeeps DEF IInv
  <2>3. OneFill(card', tab', signed)
    BY <1>3, <2>2 DEF OneFill, IInv
  <2>. QED  BY <1>1, <2>2, <2>3, PageKept
<1>. QED  BY <1>4, <1>5

LEMMA ApproveCancelKept ==
    ASSUME IInv, NEW delivery, ApproveCancel(delivery)
    PROVE  Kept
<1>. DEFINE p == tab.cancelPrompt
            handle == [p.saved EXCEPT !.cancel = p.cancel]
<1>1. /\ p # Null /\ PublishCancel(handle, delivery)
      /\ signed' = [signed EXCEPT !.cancel = TRUE]
      /\ UNCHANGED <<now, cast, order, swap, alice>>
  BY DEF ApproveCancel
<1>2. Browser /\ CancelPromptWell(p) /\ TabWell(tab)
  BY <1>1 DEF IInv, TabWell
<1>. HIDE DEF p
<1>3. HandleWell(handle, signed.fills)
  BY <1>2 DEF CancelPromptWell, HandleWell
<1>. HIDE DEF handle
<1>4. /\ BookWell(book', signed.fills)
      /\ CardWell(card', signed.fills) /\ TabWell(tab')
  BY <1>1, <1>2, <1>3, PublishCancelKeeps DEF IInv
<1>5. signed'.fills = signed.fills /\ signed'.cancel = TRUE /\ SignedWell(signed', swap')
  BY <1>1 DEF IInv, SignedWell
<1>6. OneFill(card', tab', signed')
  BY <1>5 DEF OneFill
<1>. QED  BY <1>1, <1>4, <1>5, <1>6, MakerKept

\* The page changes and nothing else.
LEMMA TabKept ==
    ASSUME IInv, UNCHANGED <<now, cast, order, book, swap, signed, alice>>,
           card' = card \/ (Browser /\ card' = Null), TabWell(tab'),
           tab'.fillPrompt \in {Null, tab.fillPrompt}
    PROVE  Kept
<1>1. CardWell(card', signed.fills)
  BY DEF CardWell, IInv
<1>2. OneFill(card', tab', signed)
  BY DEF OneFill, IInv, Browser, Headless
<1>3. BookWell(book', signed.fills)
  BY DEF IInv
<1>. QED  BY <1>1, <1>2, <1>3, PageKept

LEMMA PageStepsKept ==
    ASSUME IInv, RejectFill \/ RejectCancel \/ Poll \/ CloseFinished \/ Reload
    PROVE  Kept
<1>0. TabWell(tab)
  BY DEF IInv
<1>1. CASE RejectFill
  <2>1. TabWell(tab') /\ tab'.fillPrompt = Null
    BY <1>0, <1>1 DEF RejectFill, TabWell
  <2>. QED  BY <1>1, <2>1, TabKept DEF RejectFill
<1>2. CASE RejectCancel
  <2>1. TabWell(tab') /\ tab'.fillPrompt = tab.fillPrompt
    BY <1>0, <1>2 DEF RejectCancel, TabWell
  <2>. QED  BY <1>2, <2>1, TabKept DEF RejectCancel
<1>3. CASE Poll
  <2>1. TabWell(tab') /\ tab'.fillPrompt = tab.fillPrompt
    BY <1>0, <1>3 DEF Poll, close, TabWell
  <2>. QED  BY <1>3, <2>1, TabKept DEF Poll, close
<1>4. CASE CloseFinished
  <2>1. TabWell(tab') /\ tab'.fillPrompt = tab.fillPrompt
    BY <1>0, <1>4 DEF CloseFinished, close, TabWell
  <2>. QED  BY <1>4, <2>1, TabKept DEF CloseFinished, close
<1>5. CASE Reload
  <2>1. TabWell(tab') /\ tab'.fillPrompt = Null
    BY <1>5 DEF Reload, NewTab, TabWell
  <2>. QED  BY <1>5, <2>1, TabKept DEF Reload
<1>. QED  BY <1>1, <1>2, <1>3, <1>4, <1>5

LEMMA HeadlessCard ==
    ASSUME IInv, Headless
    PROVE  /\ HandleWell(card, signed.fills) /\ ~Browser /\ tab.fillPrompt = Null
           /\ cast.maker # "hostile"
BY DEF IInv, CardWell, TabWell, Headless, Browser

LEMMA HeadlessSelectsKept ==
    ASSUME IInv, HeadlessSelects
    PROVE  Kept
<1>1. PICK i \in earliestValidFillIntent :
        card' = [card EXCEPT !.selected = i,
                             !.draft = Draft(i, now + INITIATOR_TIMEOUT,
                                             now + RESPONDER_TIMEOUT, Null)]
  BY DEF HeadlessSelects
<1>2. /\ Headless /\ card.fill = Null
      /\ UNCHANGED <<now, cast, order, book, tab, swap, signed, alice, faults>>
  BY DEF HeadlessSelects, Undecided
<1>3. i \in DOMAIN book.received
  BY DEF earliestValidFillIntent, listFillIntents
<1>4. IsIntent(i)
  BY <1>3 DEF IInv, BookWell
<1>5. HandleWell(card, signed.fills) /\ ~Browser
  BY <1>2, HeadlessCard
<1>. DEFINE draft == Draft(i, now + INITIATOR_TIMEOUT, now + RESPONDER_TIMEOUT, Null)
<1>6. now + INITIATOR_TIMEOUT \in Int /\ now + RESPONDER_TIMEOUT \in Int
  BY HandshakeAssumption DEF IInv
<1>7. DraftWell(draft)
  BY <1>4, <1>5, <1>6, DraftIs
<1>8. card' = [card EXCEPT !.selected = i, !.draft = draft]
  BY <1>1
<1>. HIDE DEF draft
<1>9. HandleWell(card', signed.fills) /\ card'.fill = Null
  BY <1>2, <1>4, <1>5, <1>7, <1>8 DEF HandleWell
<1>10. ~signed.cancel /\ Null \notin signed.fills => signed.fills = {}
  BY <1>2 DEF IInv, OneFill
<1>11. OneFill(card', tab', signed)
  BY <1>10 DEF OneFill
<1>12. CardWell(card', signed.fills) /\ TabWell(tab') /\ BookWell(book', signed.fills)
  BY <1>2, <1>9 DEF CardWell, IInv
<1>. QED  BY <1>2, <1>11, <1>12, PageKept

LEMMA PublishHeadlessKeeps ==
    ASSUME NEW F, BookWell(book, F), NEW record, record.fill \in F,
           NEW delivery, PublishHeadless(record, delivery)
    PROVE  BookWell(book', F) /\ card' = record /\ swap' \in {swap, record.fill}
<1>. DEFINE after == AfterFill(book, record.fill)
<1>1. BookWell(after, F)
  BY FillKeeps
<1>2. Send(delivery, after) /\ card' = record /\ swap' \in {swap, record.fill}
  BY DEF PublishHeadless
<1>. HIDE DEF after
<1>. QED  BY <1>1, <1>2, SendKeeps

LEMMA HeadlessSignsKept ==
    ASSUME IInv, NEW delivery, HeadlessSigns(delivery)
    PROVE  Kept
<1>. DEFINE draft == [card.draft EXCEPT !.respondBy = respondBy]
            fill == FillOf(draft, now)
            record == [card EXCEPT !.fill = fill]
            F == signed.fills \cup {fill}
<1>1. /\ Headless /\ card.fill = Null /\ card.selected # Null /\ fill.doc # Null
      /\ PublishHeadless(record, delivery)
      /\ signed' = [signed EXCEPT !.fills = F]
      /\ UNCHANGED <<now, cast, order, tab, alice>>
  BY DEF HeadlessSigns, Undecided
<1>2. /\ HandleWell(card, signed.fills) /\ ~Browser /\ tab.fillPrompt = Null
      /\ cast.maker # "hostile"
  BY <1>1, HeadlessCard
<1>3. DraftWell(card.draft) /\ IsIntent(card.selected)
  BY <1>1, <1>2 DEF HandleWell
<1>4. respondBy \in Int
  <2>1. /\ now + B!Earliest(RESPONSE, RESPONDER_TIMEOUT - RESPONDER_RUNWAY - 1) \in Int
        /\ orderExpiry \in Int
    <3>1. B!Earliest(RESPONSE, RESPONDER_TIMEOUT - RESPONDER_RUNWAY - 1) \in Int
      BY HandshakeAssumption, LimitsNat DEF B!Earliest
    <3>. QED  BY <3>1 DEF IInv, OrderSigned, orderExpiry
  <2>. QED  BY <2>1, EarliestInt DEF respondBy
<1>5. DraftWell(draft) /\ draft.respondBy = respondBy
  BY <1>3, <1>4 DEF DraftWell, Draft
<1>6. IsFill(fill)
  <2>. HIDE DEF draft
  <2>. QED  BY <1>1, <1>4, <1>5, DraftFill DEF IInv
<1>. HIDE DEF fill, draft
<1>7. HandleWell(record, F) /\ record.fill = fill
  BY <1>1, <1>2 DEF HandleWell
<1>8. BookWell(book, F)
  BY BookGrows DEF IInv
<1>. HIDE DEF record
<1>9. BookWell(book', F) /\ card' = record /\ swap' \in {swap, fill}
  <2>1. record.fill \in F
    BY <1>7
  <2>. HIDE DEF F
  <2>. QED  BY <1>1, <1>7, <1>8, <2>1, PublishHeadlessKeeps
<1>10. /\ signed'.fills = F /\ signed'.cancel = signed.cancel
       /\ signed' = [f \in {"fills", "cancel"} |-> signed'[f]]
  BY <1>1 DEF IInv, SignedWell
<1>11. SignedWell(signed', swap')
  <2>1. \A g \in F : IsFill(g)
    BY <1>6 DEF IInv, SignedWell
  <2>2. swap' = Null \/ swap' \in F
    BY <1>9 DEF IInv, SignedWell
  <2>. QED  BY <1>2, <1>10, <2>1, <2>2 DEF SignedWell
<1>12. OneFill(card', tab', signed')
  <2>1. ~signed.cancel /\ Null \notin signed.fills => signed.fills = {}
    BY <1>1 DEF IInv, OneFill
  <2>2. tab'.fillPrompt = Null
    BY <1>1, <1>2
  <2>. QED  BY <1>7, <1>9, <1>10, <2>1, <2>2 DEF OneFill
<1>13. CardWell(card', signed'.fills) /\ TabWell(tab') /\ BookWell(book', signed'.fills)
  BY <1>1, <1>7, <1>9, <1>10 DEF CardWell, IInv
<1>. QED  BY <1>1, <1>10, <1>11, <1>12, <1>13, MakerKept

LEMMA HeadlessRepublishesKept ==
    ASSUME IInv, HeadlessRepublishes
    PROVE  Kept
<1>1. /\ Headless /\ card.fill # Null /\ PublishHeadless(card, "answered")
      /\ UNCHANGED <<now, cast, order, tab, signed, alice>>
  BY DEF HeadlessRepublishes
<1>2. HandleWell(card, signed.fills)
  BY <1>1, HeadlessCard
<1>3. card.fill \in signed.fills
  BY <1>1, <1>2 DEF HandleWell
<1>4. BookWell(book', signed.fills) /\ card' = card /\ swap' \in {swap, card.fill}
  BY <1>1, <1>3, PublishHeadlessKeeps DEF IInv
<1>5. SignedWell(signed', swap')
  BY <1>1, <1>3, <1>4 DEF IInv, SignedWell
<1>6. CardWell(card', signed'.fills) /\ TabWell(tab') /\ OneFill(card', tab', signed')
  BY <1>1, <1>4 DEF IInv
<1>. QED  BY <1>1, <1>4, <1>5, <1>6, MakerKept

LEMMA HeadlessCancelsKept ==
    ASSUME IInv, NEW delivery, HeadlessCancels(delivery)
    PROVE  Kept
<1>1. PICK c : /\ card' = [card EXCEPT !.cancel = c]
               /\ Send(delivery, AfterCancel(book, c))
  BY DEF HeadlessCancels
<1>2. /\ Headless /\ signed' = [signed EXCEPT !.cancel = TRUE]
      /\ UNCHANGED <<now, cast, order, tab, swap, alice>>
  BY DEF HeadlessCancels
<1>3. HandleWell(card, signed.fills)
  BY <1>2, HeadlessCard
<1>4. HandleWell(card', signed.fills)
  BY <1>1, <1>3 DEF HandleWell
<1>5. BookWell(book', signed.fills)
  <2>1. BookWell(AfterCancel(book, c), signed.fills)
    BY CancelKeeps DEF IInv
  <2>. QED  BY <1>1, <2>1, SendKeeps DEF IInv
<1>6. signed'.fills = signed.fills /\ signed'.cancel = TRUE /\ SignedWell(signed', swap')
  BY <1>2 DEF IInv, SignedWell
<1>7. OneFill(card', tab', signed')
  BY <1>6 DEF OneFill
<1>8. CardWell(card', signed'.fills) /\ TabWell(tab')
  BY <1>2, <1>4, <1>6 DEF CardWell, IInv
<1>. QED  BY <1>2, <1>5, <1>6, <1>7, <1>8, MakerKept

-----------------------------------------------------------------------------
(* The taker's steps.                                                      *)

LEMMA Least ==
    ASSUME NEW D, D \subseteq Nat, D # {}
    PROVE  \E x \in D : \A y \in D : x <= y
<1>. DEFINE R == OpToRel(<, Nat)
<1>1. IsWellFoundedOn(R, Nat)
  BY NatLessThanWellFounded
<1>2. \A x, y \in Nat : y < x => <<y, x>> \in R
  BY DEF OpToRel
<1>. HIDE DEF R
<1>3. PICK x \in D : \A y \in D : ~(<<y, x>> \in R)
  BY <1>1, WFMin
<1>4. \A y \in D : ~(y < x)
  BY <1>2, <1>3
<1>5. \A m, n \in Nat : ~(m < n) => n <= m
  OBVIOUS
<1>. QED  BY <1>3, <1>4, <1>5

\* Some proposal of the taker's is the last.
LEMMA LatestOwn ==
    ASSUME IInv, Own # {}
    PROVE  Latest \in Own /\ IsIntent(Latest)
<1>1. \A i \in Own : IsIntent(i) /\ i.at \in Nat /\ i.at <= now
  BY IntentShape DEF IInv, TakeWell, Own, IntentShaped
<1>. DEFINE D == {now - i.at : i \in Own}
<1>2. D \subseteq Nat /\ D # {}
  BY <1>1 DEF IInv
<1>3. PICK x \in D : \A y \in D : x <= y
  <2>. HIDE DEF D
  <2>. QED  BY <1>2, Least
<1>4. PICK i \in Own : x = now - i.at
  OBVIOUS
<1>5. \A j \in Own : i.at >= j.at
  <2>. SUFFICES ASSUME NEW j \in Own PROVE i.at >= j.at
    OBVIOUS
  <2>1. now - i.at <= now - j.at
    BY <1>3, <1>4
  <2>2. i.at \in Nat /\ j.at \in Nat /\ now \in Nat
    BY <1>1 DEF IInv
  <2>. QED  BY <2>1, <2>2
<1>6. Latest \in Own
  BY <1>4, <1>5 DEF Latest
<1>. QED  BY <1>1, <1>6

LEMMA ServedGood ==
    ASSUME IInv, NEW i, IsIntent(i), NEW row \in Served(i)
    PROVE  RowGood(row)
<1>1. OrderSigned /\ cast \in Casts
  BY DEF IInv
<1>2. book.fill # Null => IsFill(book.fill) /\ book.fill \in signed.fills
  BY DEF IInv, BookWell, SignedWell
<1>3. CASE cast.book = "honest"
  BY <1>1, <1>2, <1>3, RowOfGood DEF Served
<1>4. CASE cast.book # "honest"
  <2>. DEFINE shownOf(f) == RowOf([Quiet(book) EXCEPT !.fill = f])
              shown == {shownOf(f) : f \in Fills(i)}
  <2>1. \A f \in Fills(i) : IsFill(f) /\ (cast.maker # "hostile" => f \in signed.fills)
    <3>1. CASE cast.maker # "hostile"
      BY <3>1 DEF Fills, IInv, SignedWell
    <3>2. CASE cast.maker = "hostile"
      <4>. SUFFICES ASSUME NEW f \in HostileFills(i) PROVE IsFill(f)
        BY <3>2 DEF Fills
      <4>. DEFINE Ats == {t \in now - 1 .. now + CLOCK_SKEW + 1 : t >= 0}
                  T1s == {2 * RESPONDER_TIMEOUT - 1, INITIATOR_TIMEOUT, INITIATOR_WINDOW + 1,
                          PRELOCK_TIMEOUT - now}
                  T2s == {RESPONDER_RUNWAY + 1, RESPONDER_TIMEOUT, RESPONDER_WINDOW + 1}
                  Rs == {MIN_RESPONSE - 1, RESPONSE, MAX_RESPONSE, MAX_RESPONSE + 1}
      <4>1. PICK at \in Ats, t1 \in T1s, t2 \in T2s, r \in Rs :
                f = FillOf(Draft(i, at + t1, at + t2, at + r), at)
        BY DEF HostileFills
      <4>2. Ats \subseteq Int
        OBVIOUS
      <4>3. T1s \subseteq Int /\ T2s \subseteq Int /\ Rs \subseteq Int
        BY HandshakeAssumption, LimitsNat DEF IInv
      <4>. HIDE DEF Ats, T1s, T2s, Rs
      <4>4. at \in Int /\ at + t1 \in Int /\ at + t2 \in Int /\ at + r \in Int
        BY <4>2, <4>3
      <4>. QED  BY <3>2, <4>1, <4>4 DEF IsFill
    <3>. QED  BY <3>1, <3>2
  <2>2. \A f \in Fills(i) : RowGood(shownOf(f)) /\ RowShaped(shownOf(f))
    <3>. SUFFICES ASSUME NEW f \in Fills(i) PROVE RowGood(shownOf(f)) /\ RowShaped(shownOf(f))
      OBVIOUS
    <3>. DEFINE b == [Quiet(book) EXCEPT !.fill = f]
    <3>1. b.fill = f
      BY DEF Quiet, IInv, BookWell
    <3>. HIDE DEF b
    <3>2. RowGood(RowOf(b)) /\ RowShaped(RowOf(b))
      BY <1>1, <2>1, <3>1, RowOfGood
    <3>. QED  BY <3>2 DEF b
  <2>. HIDE DEF shownOf
  <2>3. row = OpenRow \/ row \in shown \/ \E s \in shown : row \in Altered(s, i)
    BY <1>4 DEF Served, shownOf
  <2>4. \A s \in shown : RowGood(s) /\ RowShaped(s)
    BY <2>2
  <2>. HIDE DEF shown
  <2>5. \A s \in shown : row \in Altered(s, i) => RowGood(row)
    BY <1>1, <2>4, AlteredGood
  <2>. QED  BY <2>3, <2>4, <2>5, OpenRowGood
<1>. QED  BY <1>3, <1>4

\* A verdict to fund, put in the taker's record, is what was promised.
LEMMA FundedSafe ==
    ASSUME IInv, NEW i \in Own, NEW row, RowGood(row), row.fill # Null,
           Sound(row.fill, row.fillAuth, i.doc)
    PROVE  SafeFill(FillIn(row, i), Own, signed.fills)
<1>. DEFINE f == FillIn(row, i)
<1>1. /\ f.for = i /\ f.t1 = row.fill.initiatorTimeout /\ f.t2 = row.fill.responderTimeout
      /\ f.respondBy = row.fillAuth.expiresAt /\ f.issuedAt = row.fillAuth.issuedAt
      /\ f.doc.fill = row.fill /\ f.doc.auth = row.fillAuth
  BY DEF FillIn
<1>2. PICK g : /\ IsFill(g) /\ row.fillAuth = g.doc.auth
               /\ cast.maker # "hostile" => g \in signed.fills
  BY DEF RowGood
<1>3. cast.maker # "hostile" => f \in signed.fills
  <2>. SUFFICES ASSUME cast.maker # "hostile" PROVE f \in signed.fills
    OBVIOUS
  <2>1. IsIntent(i) /\ OrderSigned /\ cast \in Casts
    BY DEF IInv, TakeWell, Own
  <2>2. FillTyped(row.fill, g.doc.auth) /\ Sound(row.fill, g.doc.auth, i.doc)
    BY <1>2 DEF RowGood
  <2>3. g = [for |-> i, t1 |-> row.fill.initiatorTimeout, t2 |-> row.fill.responderTimeout,
             respondBy |-> g.doc.auth.expiresAt, issuedAt |-> g.doc.auth.issuedAt,
             doc |-> [fill |-> row.fill, auth |-> g.doc.auth]]
    BY <1>2, <2>1, <2>2, FillNamed
  <2>4. g = f
    BY <1>2, <2>3 DEF FillIn
  <2>. QED  BY <1>2, <2>4
<1>. HIDE DEF f
<1>4. SafeFill(f, Own, signed.fills)
  BY <1>1, <1>3 DEF SafeFill, Sound
<1>. QED  BY <1>4 DEF f

\* A step of the taker: nothing of the maker's is touched.
LEMMA TakerKept ==
    ASSUME IInv, UNCHANGED <<now, cast, order, card, tab, swap, signed>>,
           BookWell(book', signed.fills), TakeWell(alice', now), SafeTake(alice', signed)
    PROVE  Kept
BY DEF Kept, IInv

LEMMA Gone ==
    \A n : TakeWell(NoTake("gone"), n) /\ \A s : SafeTake(NoTake("gone"), s)
BY DEF TakeWell, SafeTake, NoTake

LEMMA AbortsKept ==
    ASSUME IInv, NEW delivery, AliceAborts(delivery)
    PROVE  Kept
<1>1. /\ alice' = NoTake("gone") /\ Send(delivery, AfterRelease(book, Latest))
      /\ UNCHANGED <<now, cast, order, card, tab, swap, signed>>
  BY DEF AliceAborts, Quits, makerVars
<1>2. BookWell(book', signed.fills)
  <2>1. BookWell(AfterRelease(book, Latest), signed.fills)
    BY ReleaseKeeps DEF IInv
  <2>. QED  BY <1>1, <2>1, SendKeeps DEF IInv
<1>. QED  BY <1>1, <1>2, Gone, TakerKept

LEMMA ReleasesKept ==
    ASSUME IInv, NEW delivery, Releases(delivery)
    PROVE  Kept
<1>1. /\ alice' = NoTake("gone") \/ alice' = [alice EXCEPT !.released = TRUE]
      /\ Send(delivery, AfterRelease(book, selectedOwn(alice)))
      /\ UNCHANGED <<now, cast, order, card, tab, swap, signed>>
  BY DEF Releases, Quits, Stores, makerVars
<1>2. BookWell(book', signed.fills)
  <2>1. BookWell(AfterRelease(book, selectedOwn(alice)), signed.fills)
    BY ReleaseKeeps DEF IInv
  <2>. QED  BY <1>1, <2>1, SendKeeps DEF IInv
<1>3. LET take == [alice EXCEPT !.released = TRUE] IN TakeWell(take, now) /\ SafeTake(take, signed)
  BY DEF IInv, TakeWell, SafeTake
<1>. QED  BY <1>1, <1>2, <1>3, Gone, TakerKept

LEMMA NewIntent ==
    ASSUME IInv, NEW who, Intent(who, now).doc # Null
    PROVE  IsIntent(Intent(who, now)) /\ Intent(who, now).at = now
BY DEF IsIntent, Intent, IInv

LEMMA RivalKept ==
    ASSUME IInv, RivalAsks
    PROVE  Kept
<1>1. /\ Intent("rival", now).doc # Null /\ book' = AfterIntent(book, Intent("rival", now))
      /\ UNCHANGED <<now, cast, order, card, tab, swap, signed, alice>>
  BY DEF RivalAsks, makerVars
<1>2. BookWell(book', signed.fills)
  BY <1>1, NewIntent, IntentKeeps DEF IInv
<1>. QED  BY <1>1, <1>2, TakerKept DEF IInv

LEMMA SignsKept ==
    ASSUME IInv, AliceSigns
    PROVE  Kept
<1>. DEFINE i == Intent("alice", now)
<1>1. /\ i.doc # Null /\ alice' = [alice EXCEPT !.phase = "signing", !.asked = {i}]
      /\ UNCHANGED <<now, cast, order, book, card, tab, swap, signed>>
  BY DEF AliceSigns, makerVars
<1>2. IsIntent(i) /\ i.at = now
  BY <1>1, NewIntent
<1>. HIDE DEF i
<1>3. /\ alice'.phase = "signing" /\ alice'.asked = {i}
      /\ alice' = [f \in {"phase", "asked", "fill", "released"} |-> alice'[f]]
  BY <1>1 DEF IInv, TakeWell
<1>4. i.at <= now
  BY <1>2 DEF IInv
<1>5. TakeWell(alice', now)
  BY <1>2, <1>3, <1>4 DEF TakeWell
<1>6. SafeTake(alice', signed)
  BY <1>3 DEF SafeTake
<1>. QED  BY <1>1, <1>5, <1>6, TakerKept DEF IInv

LEMMA AsksKept ==
    ASSUME IInv, NEW delivery, AliceAsks(delivery)
    PROVE  Kept
<1>1. /\ alice.phase = "signing"
      /\ UNCHANGED <<now, cast, order, card, tab, swap, signed>>
  BY DEF AliceAsks, makerVars
<1>2. IsIntent(Latest)
  BY <1>1, LatestOwn DEF IInv, TakeWell, Own
<1>3. BookWell(AfterIntent(book, Latest), signed.fills)
  BY <1>2, IntentKeeps DEF IInv
<1>4. \/ alice' = [alice EXCEPT !.phase = "idle", !.asked = {}] /\ UNCHANGED <<book, faults>>
      \/ alice' = [alice EXCEPT !.phase = "asked"] /\ Send(delivery, AfterIntent(book, Latest))
  BY DEF AliceAsks
<1>5. BookWell(book', signed.fills)
  BY <1>3, <1>4, SendKeeps DEF IInv
<1>6. TakeWell(alice', now) /\ SafeTake(alice', signed)
  BY <1>1, <1>4 DEF IInv, TakeWell, SafeTake
<1>. QED  BY <1>1, <1>5, <1>6, TakerKept

LEMMA ReplaysKept ==
    ASSUME IInv, AliceReplays
    PROVE  Kept
<1>1. /\ Own # {} /\ book' = AfterIntent(book, Latest)
      /\ UNCHANGED <<now, cast, order, card, tab, swap, signed, alice>>
  BY DEF AliceReplays, LiveProposal, makerVars
<1>2. BookWell(book', signed.fills)
  BY <1>1, LatestOwn, IntentKeeps DEF IInv
<1>. QED  BY <1>1, <1>2, TakerKept DEF IInv

\* The step to "ready".
LEMMA ReadyKept ==
    ASSUME IInv, NEW i \in Own, NEW row, RowGood(row), row.fill # Null,
           Sound(row.fill, row.fillAuth, i.doc),
           alice' = [alice EXCEPT !.phase = "ready", !.fill = FillIn(row, i)],
           UNCHANGED <<now, cast, order, book, card, tab, swap, signed>>
    PROVE  Kept
<1>. DEFINE f == FillIn(row, i)
<1>1. SafeFill(f, Own, signed.fills)
  BY FundedSafe
<1>2. alice' = [alice EXCEPT !.phase = "ready", !.fill = f]
  OBVIOUS
<1>. HIDE DEF f
<1>3. TakeWell(alice', now) /\ alice'.phase = "ready" /\ alice'.fill = f /\ alice'.asked = Own
  BY <1>2 DEF IInv, TakeWell, Own
<1>4. SafeTake(alice', signed)
  BY <1>1, <1>3 DEF SafeTake
<1>. QED  BY <1>3, <1>4, TakerKept DEF IInv

LEMMA PollsKept ==
    ASSUME IInv, NEW delivery, AlicePolls(delivery)
    PROVE  Kept
<1>1. cast.taker = "browser" /\ alice.phase = "asked"
  BY DEF AlicePolls
<1>2. Latest \in Own /\ IsIntent(Latest)
  BY <1>1, LatestOwn DEF IInv, TakeWell, Own
<1>3. \/ AliceAborts(delivery)
      \/ /\ \E row \in Served(Latest) :
              /\ B!verifyTakerFill(row, RecoveryOf(Latest), now) = "fund"
              /\ alice' = [alice EXCEPT !.phase = "ready", !.fill = FillIn(row, Latest)]
         /\ UNCHANGED <<now, cast, order, book, card, tab, swap, signed>>
  BY DEF AlicePolls, makerVars
<1>4. CASE AliceAborts(delivery)
  BY <1>4, AbortsKept
<1>5. CASE ~AliceAborts(delivery)
  <2>1. UNCHANGED <<now, cast, order, book, card, tab, swap, signed>>
    BY <1>3, <1>5
  <2>2. PICK row \in Served(Latest) :
          /\ B!verifyTakerFill(row, RecoveryOf(Latest), now) = "fund"
          /\ alice' = [alice EXCEPT !.phase = "ready", !.fill = FillIn(row, Latest)]
    BY <1>3, <1>5
  <2>3. RowGood(row)
    BY <1>2, ServedGood
  <2>. DEFINE doc == Latest.doc
  <2>4. RecoveryOf(Latest) = BrowserRecovery(doc)
    BY <1>1 DEF RecoveryOf, BrowserRecovery
  <2>5. OrderSigned /\ IntentTyped(doc)
    BY <1>2, IntentShape DEF IInv, IntentShaped
  <2>6. OfOrder(row) /\ (row.fill # Null => FillTyped(row.fill, row.fillAuth))
    BY <2>3 DEF RowGood
  <2>7. Sound(row.fill, row.fillAuth, doc) /\ row.fill # Null
    <3>1. B!verifyTakerFill(row, BrowserRecovery(doc), now) = "fund"
      BY <2>2, <2>4
    <3>. HIDE DEF doc
    <3>. QED  BY <2>5, <2>6, <3>1, BrowserFunds
  <2>. QED  BY <1>2, <2>1, <2>2, <2>3, <2>7, ReadyKept
<1>. QED  BY <1>4, <1>5

LEMMA AcknowledgesKept ==
    ASSUME IInv, StepAcknowledges
    PROVE  Kept
<1>1. /\ cast.taker = "headless" /\ alice.phase = "asked"
      /\ UNCHANGED <<now, cast, order, book, card, tab, swap, signed>>
  BY DEF StepAcknowledges, makerVars
<1>2. PICK row \in Filled : \E i \in OwnSelected(row) :
        /\ VerdictOn(row, i) = "fund"
        /\ Stores([alice EXCEPT !.phase = "ready", !.fill = FillIn(row, i)])
  BY DEF StepAcknowledges
<1>3. PICK i \in OwnSelected(row) :
        /\ VerdictOn(row, i) = "fund"
        /\ Stores([alice EXCEPT !.phase = "ready", !.fill = FillIn(row, i)])
  BY <1>2
<1>4. i \in Own
  BY DEF OwnSelected
<1>5. IsIntent(i) /\ OrderSigned
  BY <1>4 DEF IInv, TakeWell, Own
<1>6. row \in Served(Latest) /\ T!parseBookOrderRow(row)
  BY DEF Filled
<1>7. RowGood(row)
  BY <1>4, <1>6, LatestOwn, ServedGood
<1>. DEFINE doc == i.doc
<1>8. T!verifyMakerFill(row, TakerRecovery(doc), now) = "fund"
  <2>1. RecoveryOf(i) = TakerRecovery(doc)
    BY <1>1 DEF RecoveryOf, TakerRecovery
  <2>. QED  BY <1>3, <2>1 DEF VerdictOn
<1>9. IntentTyped(doc)
  BY <1>5, IntentShape DEF IntentShaped
<1>10. OfOrder(row) /\ (row.fill # Null => FillTyped(row.fill, row.fillAuth))
  BY <1>7 DEF RowGood
<1>11. Sound(row.fill, row.fillAuth, doc) /\ row.fill # Null
  <2>. HIDE DEF doc
  <2>. QED  BY <1>5, <1>6, <1>8, <1>9, <1>10, TakerFunds
<1>12. alice' = [alice EXCEPT !.phase = "ready", !.fill = FillIn(row, i)]
  BY <1>3 DEF Stores
<1>. QED  BY <1>1, <1>4, <1>7, <1>11, <1>12, ReadyKept

LEMMA ProposesKept ==
    ASSUME IInv, NEW delivery, Proposes(delivery)
    PROVE  Kept
<1>. DEFINE i == Intent("alice", now)
            kept == Retained(i)
<1>1. /\ i.doc # Null /\ alice' = [alice EXCEPT !.phase = "asked", !.asked = kept]
      /\ Send(delivery, AfterIntent(book, i))
      /\ UNCHANGED <<now, cast, order, card, tab, swap, signed>>
  BY DEF Proposes, Stores, makerVars
<1>2. IsIntent(i) /\ i.at = now
  BY <1>1, NewIntent
<1>3. BookWell(book', signed.fills)
  <2>1. BookWell(AfterIntent(book, i), signed.fills)
    <3>. HIDE DEF i
    <3>. QED  BY <1>2, IntentKeeps DEF IInv
  <2>. QED  BY <1>1, <2>1, SendKeeps DEF IInv
<1>. HIDE DEF i
<1>4. i \in kept /\ kept \subseteq Own \cup {i}
  BY DEF Retained
<1>. HIDE DEF kept
<1>5. /\ alice'.phase = "asked" /\ alice'.asked = kept
      /\ alice' = [f \in {"phase", "asked", "fill", "released"} |-> alice'[f]]
  BY <1>1 DEF IInv, TakeWell
<1>6. \A j \in kept : IsIntent(j) /\ j.at <= now
  BY <1>2, <1>4 DEF IInv, TakeWell, Own
<1>7. TakeWell(alice', now)
  BY <1>4, <1>5, <1>6 DEF TakeWell
<1>8. SafeTake(alice', signed)
  BY <1>5 DEF SafeTake
<1>. QED  BY <1>1, <1>3, <1>7, <1>8, TakerKept

LEMMA OtherKept ==
    ASSUME IInv, StepEnds \/ AliceFunds \/ Tick
    PROVE  Kept
<1>1. CASE StepEnds
  BY <1>1, Gone, TakerKept DEF StepEnds, Quits, makerVars, IInv
<1>2. CASE AliceFunds
  <2>1. /\ alice.phase = "ready" /\ alice' = [alice EXCEPT !.phase = "funded"]
        /\ UNCHANGED <<now, cast, order, book, card, tab, swap, signed>>
    BY <1>2 DEF AliceFunds, makerVars
  <2>2. TakeWell(alice', now) /\ SafeTake(alice', signed)
    BY <2>1 DEF IInv, TakeWell, SafeTake
  <2>. QED  BY <2>1, <2>2, TakerKept DEF IInv
<1>3. CASE Tick
  <2>1. now' = now + 1 /\ UNCHANGED <<cast, order, book, card, tab, swap, signed, alice>>
    BY <1>3 DEF Tick, makerVars
  <2>2. now' \in Nat
    BY <2>1 DEF IInv
  <2>3. TakeWell(alice', now')
    <3>. SUFFICES ASSUME NEW i \in alice.asked PROVE i.at <= now + 1
      BY <2>1 DEF IInv, TakeWell
    <3>1. i.at \in Nat /\ i.at <= now /\ now \in Nat
      BY IntentShape DEF IInv, TakeWell, IntentShaped
    <3>. QED  BY <3>1
  <2>. QED  BY <2>1, <2>2, <2>3 DEF Kept, IInv
<1>. QED  BY <1>1, <1>2, <1>3

LEMMA MakerStepKept ==
    ASSUME IInv, NEW delivery, MakerActs(delivery)
    PROVE  Kept
BY ApproveFillKept, RetryKept, ClickCancelKept, ApproveCancelKept, HeadlessSignsKept,
   HeadlessCancelsKept DEF MakerActs

LEMMA TakerStepKept ==
    ASSUME IInv, NEW delivery, TakerActs(delivery)
    PROVE  Kept
BY AsksKept, PollsKept, AbortsKept, ProposesKept, ReleasesKept
   DEF TakerActs, AliceLeaves, Abandons, StepReleases

LEMMA NextKept ==
    ASSUME IInv, Next
    PROVE  Kept
<1>1. CASE \E delivery \in Deliveries : MakerActs(delivery) \/ TakerActs(delivery)
  BY <1>1, MakerStepKept, TakerStepKept
<1>2. CASE StartSignedSwap \/ RejectFill \/ RejectCancel \/ Poll \/ CloseFinished \/ Reload
  BY <1>2, StartKept, PageStepsKept
<1>3. CASE HeadlessSelects \/ HeadlessRepublishes
  BY <1>3, HeadlessSelectsKept, HeadlessRepublishesKept
<1>4. CASE RivalAsks \/ AliceSigns \/ AliceReplays \/ AliceFunds
  BY <1>4, RivalKept, SignsKept, ReplaysKept, OtherKept
<1>5. CASE StepEnds \/ StepAcknowledges \/ Tick
  BY <1>5, AcknowledgesKept, OtherKept
<1>. QED  BY <1>1, <1>2, <1>3, <1>4, <1>5 DEF Next

LEMMA StepInv ==
    IInv /\ [Next]_vars => IInv'
<1>. SUFFICES ASSUME IInv, [Next]_vars PROVE IInv'
  OBVIOUS
<1>1. CASE Next
  BY <1>1, NextKept, KeptInv
<1>2. CASE UNCHANGED vars
  <2>1. Kept
    BY <1>2 DEF vars, Kept, IInv
  <2>. QED  BY <2>1, KeptInv
<1>. QED  BY <1>1, <1>2

LEMMA IInvHolds ==
    Spec => []IInv
<1>1. Init => IInv
  BY InitInv
<1>2. IInv /\ [Next]_vars => IInv'
  BY StepInv
<1>. QED  BY <1>1, <1>2, PTL DEF Spec

\* verifyMakerFill() and verifyTakerFill(): whatever the maker signs and the
\* book serves, a taker that is ready to fund holds a fill of its own proposal
\* which the maker signed, with the runways the book would have asked for.
THEOREM FundedSafely ==
    Spec => []FundsSafely
<1>1. IInv => FundsSafely
  BY DEF IInv, SafeTake, SafeFill, FundsSafely, Own
<1>. QED  BY <1>1, IInvHolds, PTL

\* Null is neither a number nor an object.
NullApart == Null \notin Int /\ Null # [x \in DOMAIN Null |-> Null[x]]

LEMMA ObjectIs ==
    ASSUME NullApart, NEW r, r = [x \in DOMAIN r |-> r[x]]
    PROVE  r # Null
BY DEF NullApart

\* startSignedSwap(), advance() and both takers: unless the maker signed a
\* cancellation beside its fill, the two sides go into the swap with the same
\* one.  Null stands for no fill, so it is none.
THEOREM SameFill ==
    ASSUME NullApart
    PROVE  Spec => []AgreeOnFill
<1>1. IInv => AgreeOnFill
  <2>. SUFFICES ASSUME IInv, swap # Null,
                       alice.phase \in {"ready", "funded"}, ~signed.cancel
                PROVE  swap = alice.fill
    BY DEF AgreeOnFill
  <2>1. swap \in signed.fills /\ cast.maker # "hostile"
    BY DEF IInv, SignedWell
  <2>2. alice.fill \in signed.fills
    BY <2>1 DEF IInv, SafeTake, SafeFill
  <2>3. Null \notin signed.fills
    <3>1. \A g \in signed.fills : IsFill(g)
      BY DEF IInv, SignedWell
    <3>2. \A g : IsFill(g) => g # Null
      <4>. SUFFICES ASSUME NEW g, IsFill(g) PROVE g # Null
        OBVIOUS
      <4>1. g = [x \in DOMAIN g |-> g[x]]
        BY DEF IsFill, FillOf
      <4>. QED  BY <4>1, ObjectIs
    <3>. QED  BY <3>1, <3>2
  <2>. QED  BY <2>1, <2>2, <2>3 DEF IInv, OneFill
<1>. QED  BY <1>1, IInvHolds, PTL

-----------------------------------------------------------------------------
(* What is on disk is parsed by the same bytes it was signed with.         *)

LEMMA MakerWire ==
    /\ \A p, m : M!protocolMessageBytes(p, m) = protocolMessageBytes(p, m)
    /\ \A s, g, b : M!verifyMessageForSigner(s, g, b) = verifyMessageForSigner(s, g, b)
    /\ \A t : M!Lower(t) = T!Lower(t)
    /\ \A t : (M!Canonical(t) <=> Canonical(t)) /\ (T!Canonical(t) <=> Canonical(t))
    /\ M!Zero = Zero /\ T!Zero = Zero
    /\ M!Absent = T!Absent
<1>1. \A p, m : M!protocolMessageBytes(p, m) = protocolMessageBytes(p, m)
  BY DEF M!protocolMessageBytes, protocolMessageBytes, M!PROTOCOL_V2_FIELDS, PROTOCOL_V2_FIELDS,
     M!Bytes32Fields, Bytes32Fields, M!Canonical, Canonical, M!ORDER_V2_DOMAIN, ORDER_V2_DOMAIN
<1>2. \A s, g, b : M!verifyMessageForSigner(s, g, b) = verifyMessageForSigner(s, g, b)
  BY DEF M!verifyMessageForSigner, verifyMessageForSigner, M!Signature, Signature
<1>3. \A t : M!Lower(t) = T!Lower(t)
  BY DEF M!Lower, T!Lower, M!Text, T!Text
<1>4. \A t : (M!Canonical(t) <=> Canonical(t)) /\ (T!Canonical(t) <=> Canonical(t))
  BY DEF M!Canonical, T!Canonical, Canonical
<1>5. M!Zero = Zero /\ T!Zero = Zero /\ M!Absent = T!Absent
  BY DEF M!Zero, T!Zero, Zero, M!Absent, T!Absent, M!Text, T!Text, Text
<1>. QED  BY <1>1, <1>2, <1>3, <1>4, <1>5

LEMMA MakerBytes ==
    /\ \A o, a : M!buildOrderV1Payload(o, a) = T!buildOrderV1Payload(o, a)
    /\ \A o, a : M!computeOrderDigest(o, a) = T!computeOrderDigest(o, a)
    /\ \A i, a : M!buildFillIntentV1Payload(i, a) = T!buildFillIntentV1Payload(i, a)
    /\ \A i, a : M!computeFillIntentDigest(i, a) = T!computeFillIntentDigest(i, a)
    /\ \A f, o, a : M!buildFillV1Payload(f, o, a) = T!buildFillV1Payload(f, o, a)
    /\ \A f, o, a : M!computeFillDigest(f, o, a) = T!computeFillDigest(f, o, a)
    /\ \A c, o, a : M!buildCancelV1Payload(c, o, a) = T!buildCancelV1Payload(c, o, a)
    /\ \A c, o, a : M!computeCancelDigest(c, o, a) = T!computeCancelDigest(c, o, a)
    /\ \A s, a, p : M!verifyOfficialV1Proof(s, a, p) <=> T!verifyOfficialV1Proof(s, a, p)
<1>1. \A o, a : M!buildOrderV1Payload(o, a) = T!buildOrderV1Payload(o, a)
  <2>1. \A o : M!normalizeOrderBody(o) = T!normalizeOrderBody(o)
    BY MakerWire DEF M!normalizeOrderBody, T!normalizeOrderBody
  <2>2. \A o, a : M!orderMessage(o, a) = T!orderMessage(o, a)
    BY MakerWire DEF M!orderMessage, T!orderMessage
  <2>. QED  BY <2>1, <2>2, MakerWire, WireAgrees DEF M!buildOrderV1Payload, T!buildOrderV1Payload
<1>2. \A i, a : M!buildFillIntentV1Payload(i, a) = T!buildFillIntentV1Payload(i, a)
  BY MakerWire, WireAgrees DEF M!buildFillIntentV1Payload, T!buildFillIntentV1Payload
<1>3. \A f, o, a : M!buildFillV1Payload(f, o, a) = T!buildFillV1Payload(f, o, a)
  <2>1. \A f : M!normalizeFillBody(f) = T!normalizeFillBody(f)
    BY MakerWire DEF M!normalizeFillBody, T!normalizeFillBody
  <2>. QED  BY <2>1, MakerWire, WireAgrees DEF M!buildFillV1Payload, T!buildFillV1Payload
<1>4. \A c, o, a : M!buildCancelV1Payload(c, o, a) = T!buildCancelV1Payload(c, o, a)
  BY MakerWire, WireAgrees DEF M!buildCancelV1Payload, T!buildCancelV1Payload,
     M!normalizeCancelBody, T!normalizeCancelBody
<1>5. \A s, a, p : M!verifyOfficialV1Proof(s, a, p) <=> T!verifyOfficialV1Proof(s, a, p)
  BY MakerWire, WireAgrees DEF M!verifyOfficialV1Proof, T!verifyOfficialV1Proof
<1>. QED  BY <1>1, <1>2, <1>3, <1>4, <1>5
     DEF M!computeOrderDigest, T!computeOrderDigest, M!computeFillIntentDigest,
         T!computeFillIntentDigest, M!computeFillDigest, T!computeFillDigest,
         M!computeCancelDigest, T!computeCancelDigest

\* What every proposal's document is made of.
AuthKeys == {"issuedAt", "expiresAt", "nonce", "signature"}
IntentKeys == {"orderDigest", "taker", "releaseCommitment"}

LEMMA AuthKeysOf ==
    ASSUME NEW unsigned, DOMAIN unsigned = {"issuedAt", "expiresAt", "nonce"}, NEW signature
    PROVE  DOMAIN SignedAuth(unsigned, signature) = AuthKeys
BY DEF SignedAuth, AuthKeys

LEMMA IntentParts ==
    ASSUME NEW i, IsIntent(i)
    PROVE  /\ DOMAIN i.doc.intent = IntentKeys /\ DOMAIN i.doc.auth = AuthKeys
           /\ i.doc.auth.issuedAt = i.at
<1>1. PICK who, at : i = Intent(who, at) /\ i.doc # Null
  BY DEF IsIntent
<1>4. i.at = at
  BY <1>1 DEF Intent
<1>. DEFINE doc == i.doc
            nonce == Nonce(<<who, at>>)
            secret == <<"secret", who, at>>
<1>. HIDE DEF nonce, secret
<1>2. CASE who = "alice" /\ cast.taker = "headless"
  <2>. DEFINE digest == T!computeOrderDigest(T!normalizeOrderBody(order.order), order.auth)
              ends == T!Least(at + INTENT_LIFETIME, order.auth.expiresAt)
              intent == [orderDigest |-> digest, taker |-> Address(who),
                         releaseCommitment |-> T!computeReleaseCommitment(digest, T!Lower(nonce), secret)]
              unsigned == [issuedAt |-> at, expiresAt |-> ends, nonce |-> T!Lower(nonce)]
              payload == T!buildFillIntentV1Payload(intent, unsigned)
  <2>1. doc = T!signFillIntentV1(Address(who), order, secret, nonce, at) /\ doc # Null
    BY <1>1, <1>2 DEF Intent, nonce, secret
  <2>. HIDE DEF doc
  <2>2. doc = [intent |-> intent, auth |-> T!Signed(unsigned, Address(who), payload)]
    BY <2>1 DEF T!signFillIntentV1
  <2>3. DOMAIN doc.intent = IntentKeys
    <3>. HIDE DEF digest, payload, unsigned
    <3>. QED  BY <2>2 DEF IntentKeys
  <2>4. doc.auth = SignedAuth(unsigned, Signature(Address(who), payload))
    <3>. HIDE DEF intent, unsigned, payload
    <3>. QED  BY <2>2, TakerAuth
  <2>5. DOMAIN doc.auth = AuthKeys
    <3>1. DOMAIN unsigned = {"issuedAt", "expiresAt", "nonce"}
      OBVIOUS
    <3>. HIDE DEF payload, intent, unsigned
    <3>. QED  BY <2>4, <3>1, AuthKeysOf
  <2>6. doc.auth.issuedAt = at
    <3>. HIDE DEF payload, intent, ends
    <3>. QED  BY <2>4, AuthFields
  <2>. QED  BY <1>4, <2>3, <2>5, <2>6 DEF doc
<1>3. CASE ~(who = "alice" /\ cast.taker = "headless")
  <2>. DEFINE digest == B!verifiedOrderDigest(OpenRow, at, FALSE)
              ends == B!Earliest(at + INTENT_LIFETIME, OpenRow.makerAuth.expiresAt)
              intent == [orderDigest |-> digest, taker |-> B!Lower(Wallet(who)),
                         releaseCommitment |-> B!computeReleaseCommitment(digest, nonce, secret)]
              unsigned == [issuedAt |-> at, expiresAt |-> ends, nonce |-> nonce]
              payload == B!intentDigest(intent, unsigned)
  <2>1. doc = B!signFillIntentV1(Wallet(who), OpenRow, secret, nonce, at) /\ doc # Null
    BY <1>1, <1>3 DEF Intent, nonce, secret
  <2>. HIDE DEF doc
  <2>2. /\ doc = [intent |-> intent, auth |-> B!signProtocolAuth(intent.taker, unsigned, payload)]
        /\ payload # Null
    BY <2>1 DEF B!signFillIntentV1
  <2>3. DOMAIN doc.intent = IntentKeys
    <3>. HIDE DEF digest, payload, unsigned
    <3>. QED  BY <2>2 DEF IntentKeys
  <2>4. doc.auth = SignedAuth(unsigned, Signature(Lower(intent.taker), payload))
    <3>. HIDE DEF intent, unsigned, payload
    <3>. QED  BY <2>2, BrowserAuth
  <2>5. DOMAIN doc.auth = AuthKeys
    <3>1. DOMAIN unsigned = {"issuedAt", "expiresAt", "nonce"}
      OBVIOUS
    <3>. HIDE DEF payload, intent, unsigned
    <3>. QED  BY <2>4, <3>1, AuthKeysOf
  <2>6. doc.auth.issuedAt = at
    <3>. HIDE DEF payload, intent, ends
    <3>. QED  BY <2>4, AuthFields
  <2>. QED  BY <1>4, <2>3, <2>5, <2>6 DEF doc
<1>. QED  BY <1>2, <1>3

-----------------------------------------------------------------------------
(* The market maker's record.                                              *)

\* A selected proposal, as it is saved.
SavedIntent(i) ==
    [intentDigest |-> M!computeFillIntentDigest(i.doc.intent, i.doc.auth),
     intent |-> i.doc.intent, auth |-> i.doc.auth, receivedAt |-> i.at]

\* A proposal that was verified when it was selected is verified at every
\* start, for it is taken as of the time it was signed.
LEMMA SelectionParses ==
    ASSUME OrderSigned, NEW i, IsIntent(i), NEW n,
           T!verifyFillIntentV1(i.doc.intent, i.doc.auth, order.digest, n, order.auth)
    PROVE  M!parseSelectedIntent(SavedIntent(i), order.digest, order.auth)
<1>. DEFINE intent == i.doc.intent
            auth == i.doc.auth
            saved == SavedIntent(i)
<1>1. /\ DOMAIN intent = IntentKeys /\ DOMAIN auth = AuthKeys
      /\ i.at \in Nat /\ auth.issuedAt \in Int /\ auth.expiresAt \in Int
  BY IntentParts, IntentShape DEF IntentShaped, IntentTyped
<1>2. /\ DOMAIN saved = {"intentDigest", "intent", "auth", "receivedAt"}
      /\ saved.intent = intent /\ saved.auth = auth /\ saved.receivedAt = i.at
      /\ saved.intentDigest = M!computeFillIntentDigest(intent, auth)
  BY DEF SavedIntent
<1>. HIDE DEF intent, auth, saved
<1>3. /\ Canonical(intent.taker) /\ Canonical(intent.releaseCommitment) /\ Canonical(auth.nonce)
      /\ auth.issuedAt >= 0 /\ auth.expiresAt > auth.issuedAt
      /\ auth.expiresAt - auth.issuedAt <= INTENT_LIFETIME
      /\ intent.orderDigest = order.digest
      /\ auth.issuedAt >= order.auth.issuedAt /\ auth.expiresAt <= order.auth.expiresAt
      /\ order.auth.expiresAt > order.auth.issuedAt
      /\ T!verifyOfficialV1Proof(intent.taker, auth, T!buildFillIntentV1Payload(intent, auth))
  BY MakerWire DEF T!verifyFillIntentV1, T!fillIntentBodyIsCanonical, T!protocolAuthIsCanonical,
     T!Windowed, intent, auth
<1>4. M!parseIntentBody(intent)
  BY <1>1, <1>3, MakerWire DEF M!parseIntentBody, M!exactProofKeys, M!proofString, IntentKeys
<1>5. M!parseIntentAuth(auth, INTENT_LIFETIME)
  BY <1>1, <1>3, MakerWire DEF M!parseIntentAuth, M!exactProofKeys, M!proofString,
     M!proofInteger, AuthKeys
<1>6. M!verifyFillIntentV1(intent, auth, order.digest, auth.issuedAt, order.auth)
  <2>1. auth.issuedAt <= auth.issuedAt + CLOCK_SKEW
    BY <1>1, LimitsNat
  <2>. QED  BY <1>1, <1>3, <2>1, MakerWire, MakerBytes DEF M!verifyFillIntentV1,
       M!fillIntentBodyIsCanonical, M!protocolAuthIsCanonical, M!Windowed
<1>. QED  BY <1>1, <1>2, <1>3, <1>4, <1>5, <1>6
     DEF M!parseSelectedIntent, M!exactProofKeys, M!proofInteger, saved

\* What the signer of a fill has made sure of, the parser finds again.
LEMMA FillParses ==
    ASSUME OrderSigned, HeadlessDoc(order), NEW i, IsIntent(i),
           NEW t1 \in Int, NEW t2 \in Int, NEW r \in Int, NEW at \in Nat,
           cast.maker = "headless", i.at <= at, FillOf(Draft(i, t1, t2, r), at).doc # Null
    PROVE  LET doc == FillOf(Draft(i, t1, t2, r), at).doc IN
           /\ M!parseFillProof(doc, order.order, order.auth, SavedIntent(i))
           /\ doc = [fill |-> doc.fill, auth |-> doc.auth]
           /\ doc.fill.hashlock = M!sha256(t1)
           /\ doc.fill.initiatorTimeout = t1 /\ doc.fill.responderTimeout = t2
<1>. DEFINE doc == FillOf(Draft(i, t1, t2, r), at).doc
            body == FillBody(Draft(i, t1, t2, r))
            nonce == Nonce(<<i.who, i.at, at>>)
            fill == T!normalizeFillBody(body)
            plain == T!normalizeOrderBody(order.order)
            digest == T!computeOrderDigest(plain, order.auth)
            unsigned == [issuedAt |-> at, expiresAt |-> r, nonce |-> T!Lower(nonce)]
            payload == T!buildFillV1Payload(fill, order.auth, unsigned)
<1>1. doc # Null /\ doc = T!signFillV1(Address(Maker), body, order, i.doc, r, nonce, at)
  BY DEF FillOf, FillDoc, Draft
<1>2. IsText(nonce) /\ Canonical(nonce)
  BY DEF IsText, Canonical, Nonce, Text
<1>3. DocOf(doc, i, t1, t2, r, at)
  <2>. HIDE DEF doc, nonce
  <2>. QED  BY <1>1, <1>2, HeadlessFill
<1>. HIDE DEF nonce, doc, body
<1>4. /\ doc = [fill |-> fill, auth |-> T!Signed(unsigned, Address(Maker), payload)]
      /\ payload # Null
      /\ r - at \in MIN_RESPONSE .. MAX_RESPONSE
      /\ T!FillAuthenticatesIntent(fill, digest, i.doc, at, order.auth)
      /\ at < i.doc.auth.expiresAt /\ r <= order.auth.expiresAt
      /\ fill.hashlock # T!Zero
      /\ T!FillWindowsOk(fill, plain, at, r)
  BY <1>1 DEF T!signFillV1
<1>5. doc.fill = fill /\ doc.auth = SignedAuth(unsigned, Signature(Address(Maker), payload))
  <2>. HIDE DEF fill, unsigned, payload
  <2>. QED  BY <1>4, TakerAuth
<1>6. /\ DOMAIN doc.auth = AuthKeys
      /\ doc.auth.issuedAt = at /\ doc.auth.expiresAt = r /\ doc.auth.nonce = T!Lower(nonce)
      /\ doc.auth.signature = Signature(Address(Maker), payload)
  <2>1. DOMAIN unsigned = {"issuedAt", "expiresAt", "nonce"}
    OBVIOUS
  <2>. HIDE DEF payload
  <2>2. DOMAIN doc.auth = AuthKeys
    <3>. HIDE DEF unsigned
    <3>. QED  BY <1>5, <2>1, AuthKeysOf
  <2>. QED  BY <1>5, <2>2, AuthFields
<1>7. /\ Canonical(fill.taker) /\ Canonical(fill.releaseCommitment) /\ Canonical(fill.hashlock)
      /\ fill.hashlock = T!Lower(body.hashlock)
  <2>1. body = [f \in FillFields |-> body[f]]
    BY BodyTyped DEF body
  <2>2. /\ fill.taker = T!Lower(body.taker) /\ fill.releaseCommitment = T!Lower(body.releaseCommitment)
        /\ fill.hashlock = T!Lower(body.hashlock)
    BY <2>1 DEF T!normalizeFillBody, FillFields
  <2>3. \A t : Canonical(T!Lower(t))
    BY DEF Canonical, T!Lower, T!Text
  <2>. HIDE DEF fill
  <2>. QED  BY <2>2, <2>3
<1>8. fill.hashlock = M!sha256(t1)
  <2>1. body.hashlock = M!sha256(t1)
    BY DEF body, FillBody, Draft, prelock, HeadlessDoc
  <2>2. T!Lower(M!sha256(t1)) = M!sha256(t1)
    BY DEF T!Lower, T!Text, M!sha256, M!Text
  <2>. HIDE DEF fill
  <2>. QED  BY <1>7, <2>1, <2>2
<1>9. /\ doc = [fill |-> doc.fill, auth |-> doc.auth]
      /\ doc.fill = [f \in FillFields |-> doc.fill[f]]
      /\ doc.fill.initiatorTimeout = t1 /\ doc.fill.responderTimeout = t2
  BY <1>3 DEF DocOf, FillTyped
<1>10. plain.prelock = Null /\ order.order.prelock = Null /\ order.order.maker = Address(Maker)
  <2>1. order.order = [terms |-> "agreed", maker |-> Address(Maker), visibility |-> "public",
                       allowedTaker |-> Null, prelock |-> Null]
    BY DEF HeadlessDoc
  <2>2. plain = [terms |-> "agreed", maker |-> T!Lower(Address(Maker)), visibility |-> "public",
                 allowedTaker |-> Null, prelock |-> Null]
    BY <2>1, TakerNormalizes
  <2>. HIDE DEF plain
  <2>. QED  BY <2>1, <2>2
<1>11. r > at
  BY <1>4 DEF T!buildFillV1Payload
<1>12. payload = T!buildFillV1Payload(fill, order.auth, doc.auth)
  <2>1. /\ unsigned.issuedAt = at /\ unsigned.expiresAt = r /\ unsigned.nonce = T!Lower(nonce)
    OBVIOUS
  <2>. HIDE DEF fill, unsigned
  <2>. QED  BY <1>6, <2>1 DEF payload, T!buildFillV1Payload
<1>13. order.auth.issuedAt = 0 /\ order.auth.expiresAt = ORDER_LIFETIME
  BY OrderAuthFields DEF HeadlessDoc
<1>. HIDE DEF payload, unsigned, fill, plain, digest
<1>14. /\ M!parseFillBody(doc.fill) /\ M!parseTerminalMakerAuth(doc.auth)
  <2>1. t1 >= 0 /\ t2 >= 0
    <3>1. /\ t2 - at > 0 /\ t1 - at >= t2 - at
      BY <1>4, <1>5, <1>9 DEF T!FillWindowsOk
    <3>. QED  BY <3>1
  <2>2. DOMAIN doc.fill = FillFields
    BY <1>9
  <2>3. M!parseFillBody(doc.fill)
    BY <1>5, <1>7, <1>9, <2>1, <2>2, MakerWire DEF M!parseFillBody, M!exactProofKeys,
       M!proofString, M!proofInteger, FillFields
  <2>4. r - at <= ORDER_LIFETIME
    BY <1>4, <1>13, LimitsNat
  <2>5. Canonical(doc.auth.nonce)
    BY <1>6 DEF Canonical, T!Lower, T!Text
  <2>. QED  BY <1>6, <1>11, <2>3, <2>4, <2>5, MakerWire DEF M!parseTerminalMakerAuth,
       M!parseIntentAuth, M!exactProofKeys, M!proofString, M!proofInteger, AuthKeys
<1>15. /\ M!computeFillDigest(doc.fill, order.auth, doc.auth) # Null
       /\ M!verifyMakerProof(order.order.maker, doc.auth,
                             M!buildFillV1Payload(doc.fill, order.auth, doc.auth))
  <2>1. M!buildFillV1Payload(doc.fill, order.auth, doc.auth) = payload
    BY <1>5, <1>12, MakerBytes
  <2>2. M!computeFillDigest(doc.fill, order.auth, doc.auth) = payload
    BY <2>1 DEF M!computeFillDigest
  <2>3. verifyMessageForSigner(order.order.maker, doc.auth.signature, payload)
    BY <1>4, <1>6, <1>10 DEF verifyMessageForSigner
  <2>. QED  BY <1>4, <2>1, <2>2, <2>3, MakerWire DEF M!verifyMakerProof, M!verifyOfficialV1Proof
<1>16. M!FillSelects(doc.fill, SavedIntent(i))
  <2>1. /\ fill.orderDigest = digest
        /\ fill.intentDigest = T!computeFillIntentDigest(i.doc.intent, i.doc.auth)
        /\ fill.taker = i.doc.intent.taker
        /\ fill.releaseCommitment = i.doc.intent.releaseCommitment
        /\ i.doc.intent.orderDigest = digest
    BY <1>4 DEF T!FillAuthenticatesIntent, T!verifyFillIntentV1
  <2>. QED  BY <1>4, <1>5, <2>1, MakerWire, MakerBytes DEF M!FillSelects, SavedIntent
<1>17. M!FillAuthBounds(doc.fill, doc.auth, order.auth, SavedIntent(i))
  <2>1. i.doc.auth.issuedAt <= at
    BY IntentParts
  <2>2. t2 - r > RESPONDER_RUNWAY
    BY <1>4, <1>5, <1>9 DEF T!FillWindowsOk
  <2>. QED  BY <1>4, <1>6, <1>9, <2>1, <2>2 DEF M!FillAuthBounds, SavedIntent
<1>18. M!FillWindowBounds(doc.fill, doc.auth, order.order)
  BY <1>4, <1>5, <1>6, <1>10 DEF M!FillWindowBounds, T!FillWindowsOk
<1>19. M!exactProofKeys(doc, {"fill", "auth"})
  BY <1>9 DEF M!exactProofKeys
<1>20. M!parseFillProof(doc, order.order, order.auth, SavedIntent(i))
  BY <1>14, <1>15, <1>16, <1>17, <1>18, <1>19 DEF M!parseFillProof
<1>. QED  BY <1>5, <1>8, <1>9, <1>20 DEF doc

LEMMA CancelParses ==
    ASSUME OrderSigned, HeadlessDoc(order), cast.maker = "headless", NEW at \in Nat,
           CancelOf(at).doc # Null
    PROVE  LET doc == CancelOf(at).doc IN
           /\ M!parseCancelProof(doc, order.order, order.digest, order.auth)
           /\ doc = [cancel |-> doc.cancel, auth |-> doc.auth]
<1>. DEFINE doc == CancelOf(at).doc
            body == [orderDigest |-> orderDigest, reasonCode |-> 0]
            nonce == Nonce("cancel")
            unsigned == [issuedAt |-> at, expiresAt |-> orderExpiry, nonce |-> T!Lower(nonce)]
            payload == T!buildCancelV1Payload(body, [nonce |-> order.auth.nonce], unsigned)
<1>1. /\ doc # Null
      /\ doc = T!signCancelV1(Address(Maker), body, order.auth.nonce, orderExpiry, nonce, at)
  BY DEF CancelOf
<1>. HIDE DEF doc, nonce
<1>2. /\ doc = [cancel |-> body, auth |-> T!Signed(unsigned, Address(Maker), payload)]
      /\ payload # Null /\ orderExpiry > at
  BY <1>1 DEF T!signCancelV1
<1>3. doc.cancel = body /\ doc.auth = SignedAuth(unsigned, Signature(Address(Maker), payload))
  <2>. HIDE DEF body, unsigned, payload
  <2>. QED  BY <1>2, TakerAuth
<1>4. /\ DOMAIN doc.auth = AuthKeys
      /\ doc.auth.issuedAt = at /\ doc.auth.expiresAt = orderExpiry /\ doc.auth.nonce = T!Lower(nonce)
      /\ doc.auth.signature = Signature(Address(Maker), payload)
  <2>1. DOMAIN unsigned = {"issuedAt", "expiresAt", "nonce"}
    OBVIOUS
  <2>. HIDE DEF payload, body
  <2>2. DOMAIN doc.auth = AuthKeys
    <3>. HIDE DEF unsigned
    <3>. QED  BY <1>3, <2>1, AuthKeysOf
  <2>. QED  BY <1>3, <2>2, AuthFields
<1>5. order.auth.expiresAt = ORDER_LIFETIME /\ order.order.maker = Address(Maker)
  BY OrderAuthFields DEF HeadlessDoc
<1>6. payload = T!buildCancelV1Payload(body, order.auth, doc.auth)
  <2>1. /\ unsigned.issuedAt = at /\ unsigned.expiresAt = orderExpiry /\ unsigned.nonce = T!Lower(nonce)
        /\ [nonce |-> order.auth.nonce].nonce = order.auth.nonce
    OBVIOUS
  <2>. HIDE DEF body, unsigned
  <2>. QED  BY <1>4, <2>1 DEF payload, T!buildCancelV1Payload
<1>. HIDE DEF payload, unsigned
<1>7. M!parseTerminalMakerAuth(doc.auth)
  <2>1. Canonical(doc.auth.nonce)
    BY <1>4 DEF Canonical, T!Lower, T!Text
  <2>2. orderExpiry = ORDER_LIFETIME
    BY <1>5 DEF orderExpiry
  <2>. QED  BY <1>2, <1>4, <2>1, <2>2, LimitsNat, MakerWire DEF M!parseTerminalMakerAuth,
       M!parseIntentAuth, M!exactProofKeys, M!proofString, M!proofInteger, AuthKeys
<1>8. /\ M!computeCancelDigest(doc.cancel, order.auth, doc.auth) # Null
      /\ M!verifyMakerProof(order.order.maker, doc.auth,
                            M!buildCancelV1Payload(doc.cancel, order.auth, doc.auth))
  <2>1. M!buildCancelV1Payload(doc.cancel, order.auth, doc.auth) = payload
    BY <1>3, <1>6, MakerBytes
  <2>2. M!computeCancelDigest(doc.cancel, order.auth, doc.auth) = payload
    BY <2>1 DEF M!computeCancelDigest
  <2>3. verifyMessageForSigner(order.order.maker, doc.auth.signature, payload)
    BY <1>2, <1>4, <1>5 DEF verifyMessageForSigner
  <2>. QED  BY <1>2, <2>1, <2>2, <2>3, MakerWire DEF M!verifyMakerProof, M!verifyOfficialV1Proof
<1>9. /\ M!exactProofKeys(doc, {"cancel", "auth"})
      /\ M!exactProofKeys(doc.cancel, {"orderDigest", "reasonCode"})
      /\ doc.cancel.reasonCode \in 0 .. 255 /\ doc.cancel.orderDigest = order.digest
  <2>1. doc = [cancel |-> doc.cancel, auth |-> doc.auth]
    BY <1>2
  <2>. QED  BY <1>3, <2>1 DEF M!exactProofKeys, orderDigest
<1>10. doc.auth.expiresAt = order.auth.expiresAt
  BY <1>4 DEF orderExpiry
<1>11. M!parseCancelProof(doc, order.order, order.digest, order.auth)
  BY <1>7, <1>8, <1>9, <1>10 DEF M!parseCancelProof
<1>12. doc = [cancel |-> doc.cancel, auth |-> doc.auth]
  BY <1>2
<1>. QED  BY <1>11, <1>12 DEF doc

\* The order it is all about, as posted.
LEMMA OrderParses ==
    ASSUME OrderSigned, HeadlessDoc(order), NEW protocol, NEW record,
           protocol.order = order.order, protocol.orderAuth = order.auth,
           protocol.orderDigest = order.digest,
           record.token = "makerToken", record.id = OpenRow.id, record.terms = order.order.terms
    PROVE  M!ProtocolOrder(protocol, record)
<1>. DEFINE auth == order.auth
            mt == capabilityCommitment("Maker", "makerToken")
<1>1. PICK signature :
        auth = SignedAuth([issuedAt |-> 0, expiresAt |-> ORDER_LIFETIME, nonce |-> Nonce("order"),
                           makerTokenCommitment |-> mt, shareTokenCommitment |-> Zero], signature)
  BY DEF HeadlessDoc
<1>2. /\ auth.issuedAt = 0 /\ auth.expiresAt = ORDER_LIFETIME /\ auth.nonce = Nonce("order")
      /\ auth.makerTokenCommitment = mt /\ auth.shareTokenCommitment = Zero
  <2>. HIDE DEF mt
  <2>. QED  BY <1>1, OrderAuthFields
<1>3. DOMAIN auth = AuthKeys \cup {"makerTokenCommitment", "shareTokenCommitment"}
  <2>. HIDE DEF mt
  <2>. QED  BY <1>1 DEF SignedAuth, AuthKeys
<1>4. /\ order.order.visibility = "public" /\ order.order.allowedTaker = Null
      /\ order.order.prelock = Null /\ Canonical(order.order.maker)
  BY DEF HeadlessDoc, Canonical, Address, Text
<1>5. /\ mt # Zero /\ Canonical(mt) /\ Canonical(Zero) /\ Canonical(Nonce("order"))
      /\ M!capabilityCommitment("Maker", "makerToken") = mt
  BY DEF capabilityCommitment, M!capabilityCommitment, Zero, Canonical, Nonce, Text, M!Text
<1>. HIDE DEF mt, auth
<1>6. M!parseCanonicalOrder(order.order)
  BY <1>4, MakerWire DEF M!parseCanonicalOrder, M!proofString
<1>7. M!parseMakerAuth(auth)
  <2>. DEFINE two == {"makerTokenCommitment", "shareTokenCommitment"}
              rest == [f \in DOMAIN auth \ two |-> auth[f]]
  <2>1. DOMAIN auth \ two = AuthKeys
    BY <1>3 DEF AuthKeys
  <2>2. /\ DOMAIN rest = AuthKeys
        /\ rest.issuedAt = 0 /\ rest.expiresAt = ORDER_LIFETIME /\ rest.nonce = Nonce("order")
    BY <1>2, <2>1 DEF AuthKeys
  <2>. HIDE DEF rest
  <2>3. ORDER_LIFETIME > 0 /\ ORDER_LIFETIME \in Nat
    BY LimitsNat DEF HeadlessDoc
  <2>4. M!parseIntentAuth(rest, ORDER_LIFETIME)
    BY <1>5, <2>2, <2>3, MakerWire DEF M!parseIntentAuth, M!exactProofKeys, M!proofString,
       M!proofInteger, AuthKeys
  <2>5. \A c \in two : M!proofString(auth[c])
    BY <1>2, <1>5, MakerWire DEF M!proofString
  <2>. QED  BY <1>3, <2>4, <2>5 DEF M!parseMakerAuth, rest
<1>8. /\ M!computeOrderDigest(order.order, auth) = order.digest
      /\ M!buildOrderV1Payload(order.order, auth) = order.digest
  BY MakerBytes DEF HeadlessDoc, OrderSigned, M!computeOrderDigest, auth
<1>9. M!verifyMakerProof(order.order.maker, auth, order.digest)
  BY MakerWire DEF OrderSigned, M!verifyMakerProof, M!verifyOfficialV1Proof,
     verifyMessageForSigner, auth
<1>10. record.id = M!deriveOrderV1Id(order.order.maker, auth.nonce)
  BY DEF OpenRow, deriveOrderV1Id, M!deriveOrderV1Id, auth
<1>11. protocol.orderAuth = auth
  BY DEF auth
<1>. QED  BY <1>2, <1>4, <1>5, <1>6, <1>7, <1>8, <1>9, <1>10, <1>11, MakerWire
     DEF M!ProtocolOrder

-----------------------------------------------------------------------------
(* What the market maker has saved.                                        *)

CardLoads(c, o, n) ==
    /\ c.fill # Null => c.selected # Null /\ c.cancel = Null
    /\ c.selected # Null =>
          /\ M!parseSelectedIntent(SavedIntent(c.selected), o.digest, o.auth)
          /\ c.selected.at <= n /\ c.draft.for = c.selected
          /\ c.draft.t1 \in Nat /\ c.draft.t2 \in Nat
    /\ c.fill # Null =>
          LET doc == c.fill.doc IN
          /\ M!parseFillProof(doc, o.order, o.auth, SavedIntent(c.selected))
          /\ doc = [fill |-> doc.fill, auth |-> doc.auth]
          /\ doc.fill.hashlock = M!sha256(c.draft.t1)
          /\ doc.fill.initiatorTimeout = c.draft.t1 /\ doc.fill.responderTimeout = c.draft.t2
    /\ c.cancel # Null =>
          LET doc == c.cancel.doc IN
          doc # Null => /\ M!parseCancelProof(doc, o.order, o.digest, o.auth)
                        /\ doc = [cancel |-> doc.cancel, auth |-> doc.auth]

MakerLoads == Headless => HeadlessDoc(order) /\ CardLoads(card, order, now)

LEMMA SelectsLoads ==
    ASSUME IInv, MakerLoads, HeadlessSelects
    PROVE  CardLoads(card', order, now)
<1>1. /\ Headless /\ card.fill = Null /\ card.cancel = Null
  BY DEF HeadlessSelects, Undecided
<1>2. PICK i \in earliestValidFillIntent :
        card' = [card EXCEPT !.selected = i,
                             !.draft = Draft(i, now + INITIATOR_TIMEOUT,
                                             now + RESPONDER_TIMEOUT, Null)]
  BY DEF HeadlessSelects
<1>3. /\ i \in DOMAIN book.received /\ i.at <= now
      /\ T!verifyFillIntentV1(i.doc.intent, i.doc.auth, order.digest, now, order.auth)
  BY DEF earliestValidFillIntent, listFillIntents, orderDigest
<1>4. IsIntent(i) /\ OrderSigned /\ now \in Nat
  BY <1>3 DEF IInv, BookWell
<1>5. M!parseSelectedIntent(SavedIntent(i), order.digest, order.auth)
  BY <1>3, <1>4, SelectionParses
<1>. DEFINE draft == Draft(i, now + INITIATOR_TIMEOUT, now + RESPONDER_TIMEOUT, Null)
<1>6. draft.for = i /\ draft.t1 \in Nat /\ draft.t2 \in Nat
  BY <1>4, HandshakeAssumption DEF Draft
<1>7. card' = [card EXCEPT !.selected = i, !.draft = draft]
  BY <1>2
<1>. HIDE DEF draft
<1>8. /\ card'.selected = i /\ card'.draft = draft
      /\ card'.fill = Null /\ card'.cancel = Null
  BY <1>1, <1>7, HeadlessCard DEF HandleWell
<1>. QED  BY <1>3, <1>5, <1>6, <1>8 DEF CardLoads

LEMMA SignsLoads ==
    ASSUME IInv, MakerLoads, NEW delivery, HeadlessSigns(delivery)
    PROVE  CardLoads(card', order, now)
<1>. DEFINE draft == [card.draft EXCEPT !.respondBy = respondBy]
            fill == FillOf(draft, now)
<1>1. /\ Headless /\ card.fill = Null /\ card.cancel = Null /\ card.selected # Null
      /\ fill.doc # Null /\ card' = [card EXCEPT !.fill = fill]
  BY DEF HeadlessSigns, PublishHeadless, Undecided
<1>2. CardLoads(card, order, now) /\ HeadlessDoc(order)
  BY <1>1 DEF MakerLoads
<1>3. HandleWell(card, signed.fills) /\ DraftWell(card.draft)
  BY <1>1, HeadlessCard DEF HandleWell
<1>. DEFINE i == card.selected
            t1 == card.draft.t1
            t2 == card.draft.t2
<1>4. /\ IsIntent(i) /\ i.at <= now /\ card.draft.for = i /\ t1 \in Nat /\ t2 \in Nat
      /\ M!parseSelectedIntent(SavedIntent(i), order.digest, order.auth)
  BY <1>1, <1>2, <1>3 DEF CardLoads, HandleWell
<1>5. draft = Draft(i, t1, t2, respondBy)
  BY <1>3, <1>4 DEF DraftWell, Draft
<1>6. respondBy \in Int
  <2>1. B!Earliest(RESPONSE, RESPONDER_TIMEOUT - RESPONDER_RUNWAY - 1) \in Int
    BY HandshakeAssumption, LimitsNat DEF B!Earliest
  <2>2. /\ now + B!Earliest(RESPONSE, RESPONDER_TIMEOUT - RESPONDER_RUNWAY - 1) \in Int
        /\ orderExpiry \in Int
    BY <2>1 DEF IInv, OrderSigned, orderExpiry
  <2>. QED  BY <2>2, EarliestInt DEF respondBy
<1>. HIDE DEF draft, i, t1, t2
<1>7. LET doc == fill.doc IN
      /\ M!parseFillProof(doc, order.order, order.auth, SavedIntent(i))
      /\ doc = [fill |-> doc.fill, auth |-> doc.auth]
      /\ doc.fill.hashlock = M!sha256(t1)
      /\ doc.fill.initiatorTimeout = t1 /\ doc.fill.responderTimeout = t2
  <2>1. OrderSigned /\ cast.maker = "headless" /\ now \in Nat
    BY <1>1 DEF IInv, Headless
  <2>2. t1 \in Int /\ t2 \in Int
    BY <1>4
  <2>. QED  BY <1>1, <1>2, <1>4, <1>5, <1>6, <2>1, <2>2, FillParses
<1>. HIDE DEF fill
<1>8. /\ card'.selected = card.selected /\ card'.draft = card.draft
      /\ card'.fill = fill /\ card'.cancel = Null
  BY <1>1, <1>3 DEF HandleWell
<1>. QED  BY <1>1, <1>4, <1>7, <1>8 DEF CardLoads, i, t1, t2

LEMMA CancelsLoads ==
    ASSUME IInv, MakerLoads, NEW delivery, HeadlessCancels(delivery)
    PROVE  CardLoads(card', order, now)
<1>1. Headless /\ card.fill = Null
  BY DEF HeadlessCancels
<1>2. PICK c \in {IF card.cancel = Null THEN CancelOf(now) ELSE card.cancel} :
        card' = [card EXCEPT !.cancel = c]
  BY DEF HeadlessCancels
<1>3. CardLoads(card, order, now) /\ HeadlessDoc(order)
  BY <1>1 DEF MakerLoads
<1>4. LET doc == c.doc IN
      c = Null \/ doc = Null \/ /\ M!parseCancelProof(doc, order.order, order.digest, order.auth)
                                /\ doc = [cancel |-> doc.cancel, auth |-> doc.auth]
  <2>1. CASE card.cancel # Null
    BY <1>2, <1>3, <2>1 DEF CardLoads
  <2>2. CASE card.cancel = Null
    <3>1. c = CancelOf(now)
      BY <1>2, <2>2
    <3>2. OrderSigned /\ cast.maker = "headless" /\ now \in Nat
      BY <1>1 DEF IInv, Headless
    <3>. QED  BY <1>3, <3>1, <3>2, CancelParses
  <2>. QED  BY <2>1, <2>2
<1>5. /\ card'.selected = card.selected /\ card'.draft = card.draft
      /\ card'.fill = Null /\ card'.cancel = c
  BY <1>1, <1>2, HeadlessCard DEF HandleWell
<1>. QED  BY <1>3, <1>4, <1>5 DEF CardLoads

-----------------------------------------------------------------------------
(* The market maker's record, at any time.                                 *)

\* What a step does to the market maker's handle.
HeadlessMoves ==
    \/ card' = card
    \/ HeadlessSelects
    \/ \E delivery : HeadlessSigns(delivery) \/ HeadlessCancels(delivery)

LEMMA MakerMoves ==
    ASSUME IInv, Headless, NEW delivery, MakerActs(delivery)
    PROVE  HeadlessMoves /\ now' = now /\ order' = order /\ cast' = cast
<1>1. ~Browser /\ tab.fillPrompt = Null /\ tab.cancelPrompt = Null
  BY DEF IInv, TabWell, Headless, Browser
<1>2. HeadlessSigns(delivery) \/ HeadlessCancels(delivery)
  BY <1>1 DEF MakerActs, ApproveFill, RetryFill, MayMatch, ClickCancel, ApproveCancel
<1>. QED  BY <1>2 DEF HeadlessMoves, HeadlessSigns, HeadlessCancels

LEMMA TakerMoves ==
    ASSUME NEW delivery, TakerActs(delivery)
    PROVE  card' = card /\ now' = now /\ order' = order /\ cast' = cast
BY DEF TakerActs, AliceAsks, AlicePolls, AliceLeaves, Proposes, Abandons, StepReleases,
       AliceAborts, Releases, makerVars

LEMMA CardMoves ==
    ASSUME IInv, Headless, [Next]_vars
    PROVE  HeadlessMoves /\ now' >= now /\ order' = order /\ cast' = cast
<1>. USE DEF HeadlessMoves
<1>1. ~Browser /\ tab.fillPrompt = Null /\ tab.cancelPrompt = Null /\ now \in Nat
  BY DEF IInv, TabWell, Headless, Browser
<1>2. now' = now => now' >= now
  BY <1>1
<1>3. CASE \E delivery \in Deliveries : MakerActs(delivery) \/ TakerActs(delivery)
  BY <1>2, <1>3, MakerMoves, TakerMoves
<1>4. CASE StartSignedSwap \/ RejectFill \/ RejectCancel \/ Poll \/ CloseFinished \/ Reload
  BY <1>1, <1>4 DEF StartSignedSwap, MayMatch, RejectFill, RejectCancel, Poll, CloseFinished, Reload
<1>5. CASE HeadlessSelects
  BY <1>2, <1>5 DEF HeadlessSelects
<1>6. CASE HeadlessRepublishes
  BY <1>2, <1>6 DEF HeadlessRepublishes, PublishHeadless
<1>7. CASE RivalAsks \/ AliceSigns \/ AliceReplays \/ AliceFunds \/ StepEnds \/ StepAcknowledges
  BY <1>2, <1>7 DEF RivalAsks, AliceSigns, AliceReplays, AliceFunds, StepEnds,
     StepAcknowledges, makerVars
<1>8. CASE Tick
  BY <1>1, <1>8 DEF Tick, makerVars
<1>9. CASE UNCHANGED vars
  BY <1>2, <1>9 DEF vars
<1>. QED  BY <1>3, <1>4, <1>5, <1>6, <1>7, <1>8, <1>9 DEF Next

LEMMA LoadsLater ==
    ASSUME NEW c, NEW o, NEW m \in Int, NEW n \in Int, n >= m, c.selected # Null => c.selected.at \in Int,
           CardLoads(c, o, m)
    PROVE  CardLoads(c, o, n)
<1>1. c.selected # Null => c.selected.at <= n
  BY DEF CardLoads
<1>. QED  BY <1>1 DEF CardLoads

LEMMA MakerLoadsStep ==
    ASSUME IInv, MakerLoads, [Next]_vars
    PROVE  MakerLoads'
<1>. SUFFICES ASSUME Headless' PROVE HeadlessDoc(order') /\ CardLoads(card', order', now')
  BY DEF MakerLoads
<1>1. Kept
  <2>1. CASE UNCHANGED vars
    BY <2>1 DEF vars, Kept, IInv
  <2>. QED  BY <2>1, NextKept
<1>2. Headless
  BY <1>1 DEF Headless, Kept
<1>3. HeadlessMoves /\ now' >= now /\ order' = order
  BY <1>2, CardMoves
<1>4. HeadlessDoc(order) /\ CardLoads(card, order, now)
  BY <1>2 DEF MakerLoads
<1>5. CardLoads(card', order, now)
  BY <1>3, <1>4, SelectsLoads, SignsLoads, CancelsLoads DEF HeadlessMoves
<1>6. card'.selected # Null => card'.selected.at \in Int
  <2>1. card'.selected # Null => IsIntent(card'.selected)
    BY <1>1, <1>2 DEF Kept, CardWell, HandleWell, Browser, Headless
  <2>. QED  BY <2>1, IntentShape DEF IInv, IntentShaped
<1>7. CardLoads(card', order, now')
  BY <1>1, <1>3, <1>5, <1>6, LoadsLater DEF IInv, Kept
<1>. QED  BY <1>3, <1>4, <1>7

LEMMA MakerLoadsInit ==
    Init => MakerLoads
<1>. SUFFICES ASSUME Init, Headless PROVE HeadlessDoc(order) /\ CardLoads(card, order, now)
  BY DEF MakerLoads
<1>. DEFINE doc == OrderDoc(cast)
<1>1. HeadlessDoc(doc)
  BY HeadlessLists DEF Init, Headless
<1>2. order.order = doc.order /\ order.auth = doc.auth
  BY DEF Init
<1>. HIDE DEF doc
<1>3. HeadlessDoc(order)
  BY <1>1, <1>2 DEF HeadlessDoc
<1>4. CardLoads(card, order, now)
  BY DEF Init, NewCard, CardLoads
<1>. QED  BY <1>3, <1>4

\* The market maker's half of RecordsLoad.
MakerRecordsLoad ==
    cast.maker = "headless" /\ (card.selected = Null \/ card.cancel = Null) =>
        \A acknowledged, released \in BOOLEAN :
            (acknowledged => card.fill # Null) /\ (released => acknowledged) =>
                M!Hydrates(MakerRecord(acknowledged, released))

LEMMA MakerHydrates ==
    ASSUME NullApart, IInv, MakerLoads
    PROVE  MakerRecordsLoad
<1>. SUFFICES ASSUME cast.maker = "headless", card.selected = Null \/ card.cancel = Null,
                     NEW acknowledged \in BOOLEAN, NEW released \in BOOLEAN,
                     acknowledged => card.fill # Null, released => acknowledged
              PROVE  M!Hydrates(MakerRecord(acknowledged, released))
  BY DEF MakerRecordsLoad
<1>. DEFINE chosen == card.selected
            saved == SavedIntent(chosen)
            t1 == card.draft.t1
            t2 == card.draft.t2
            record == MakerRecord(acknowledged, released)
            protocol == record.protocol
<1>1. OrderSigned /\ HeadlessDoc(order) /\ CardLoads(card, order, now)
  BY DEF IInv, MakerLoads, Headless
<1>2. /\ record.id = OpenRow.id /\ record.terms = order.order.terms
      /\ record.token = "makerToken" /\ record.createdAt = 0
      /\ record.preimage = IF chosen = Null THEN Null ELSE t1
      /\ record.hashlock = IF chosen = Null THEN Null ELSE M!sha256(t1)
      /\ record.initiatorTimeout = IF chosen = Null THEN Null ELSE t1
      /\ record.responderTimeout = IF chosen = Null THEN Null ELSE t2
      /\ record.taker = IF chosen = Null THEN Null ELSE chosen.doc.intent.taker
  BY DEF MakerRecord
<1>3. /\ protocol.order = order.order /\ protocol.orderAuth = order.auth
      /\ protocol.orderDigest = order.digest
      /\ protocol.selectedIntent = IF chosen = Null THEN Null ELSE saved
      /\ protocol.fillProof = IF card.fill = Null THEN Null ELSE card.fill.doc
      /\ protocol.cancelProof = IF card.cancel = Null THEN Null ELSE card.cancel.doc
      /\ protocol.fillAcknowledged = acknowledged /\ protocol.releaseObserved = released
  BY DEF MakerRecord, SavedIntent, orderDigest
<1>4. saved.intent.taker = chosen.doc.intent.taker /\ saved # Null
  <2>1. saved = [x \in DOMAIN saved |-> saved[x]]
    BY DEF SavedIntent
  <2>2. saved.intent = chosen.doc.intent
    BY DEF SavedIntent
  <2>. HIDE DEF saved
  <2>. QED  BY <2>1, <2>2, ObjectIs
<1>5. M!sha256(t1) # Null
  <2>1. M!sha256(t1) = [x \in DOMAIN M!sha256(t1) |-> M!sha256(t1)[x]]
    BY DEF M!sha256, M!Text
  <2>. HIDE DEF t1
  <2>. QED  BY <2>1, ObjectIs
<1>6. \A d, e : [fill |-> d, auth |-> e] # Null
  BY DEF NullApart
<1>7. chosen # Null => t1 \in Nat /\ t2 \in Nat /\ t1 # Null /\ t2 # Null
  BY <1>1 DEF CardLoads, NullApart
<1>. HIDE DEF record, protocol, chosen, saved, t1, t2
<1>8. /\ chosen # Null => M!parseSelectedIntent(saved, order.digest, order.auth)
      /\ card.fill # Null =>
            /\ chosen # Null /\ card.cancel = Null
            /\ M!parseFillProof(card.fill.doc, order.order, order.auth, saved)
            /\ card.fill.doc # Null
            /\ card.fill.doc.fill.hashlock = M!sha256(t1)
            /\ card.fill.doc.fill.initiatorTimeout = t1
            /\ card.fill.doc.fill.responderTimeout = t2
      /\ card.cancel # Null /\ card.cancel.doc # Null =>
            M!parseCancelProof(card.cancel.doc, order.order, order.digest, order.auth)
  BY <1>1, <1>6 DEF CardLoads, chosen, saved, t1, t2
<1>9. M!ProtocolOrder(protocol, record)
  BY <1>1, <1>2, <1>3, OrderParses
<1>10. M!ProtocolProofs(protocol)
  BY <1>3, <1>4, <1>8 DEF M!ProtocolProofs
<1>11. M!ProtocolProjection(protocol, record)
  BY <1>2, <1>3, <1>4, <1>5, <1>7, <1>8 DEF M!ProtocolProjection, chosen
<1>12. M!isPersistedOrder(record)
  BY <1>2, <1>7 DEF M!isPersistedOrder
<1>. QED  BY <1>9, <1>10, <1>11, <1>12 DEF M!Hydrates, M!parseProtocol, record, protocol

LEMMA MakerLoadsHolds ==
    Spec => []MakerLoads
<1>1. Init => MakerLoads
  BY MakerLoadsInit
<1>2. IInv /\ MakerLoads /\ [Next]_vars => MakerLoads'
  BY MakerLoadsStep
<1>. QED  BY <1>1, <1>2, IInvHolds, PTL DEF Spec

-----------------------------------------------------------------------------
(* The scripted taker's record.                                            *)

\* The order stands by itself, however late a row of it is read.
OrderLoads == T!verifyMakerOrder(OpenRow, order.auth.issuedAt, TRUE) # Null

\* What verifyMakerOrder() asks of a row, its clock apart.
RowStands(row) ==
    LET auth == row.makerAuth
        digest == T!computeOrderDigest(T!orderBodyFromRow(row), auth)
    IN  /\ auth.expiresAt > auth.issuedAt
        /\ auth.expiresAt - auth.issuedAt <= ORDER_LIFETIME
        /\ auth.makerTokenCommitment # T!Zero
        /\ row.visibility = "public" /\ auth.shareTokenCommitment = T!Zero
        /\ row.allowedTaker = Null
        /\ row.id = T!deriveOrderV1Id(row.maker, auth.nonce)
        /\ row.prelocked =>
              /\ row.hashlock # Null /\ row.initiatorTimeout # Null
              /\ row.initiatorTimeout - auth.issuedAt \in MIN_LISTING .. MAX_LISTING
              /\ auth.expiresAt <= row.initiatorTimeout
        /\ row.orderDigest \in {Null, digest}
        /\ T!verifyOfficialV1Proof(row.maker, auth, digest)
        /\ row.terms # "nothing"

\* What a row says of the order, whatever it says of its answer.
SameListing(row, other) ==
    /\ row.id = other.id /\ row.terms = other.terms /\ row.maker = other.maker
    /\ row.visibility = other.visibility /\ row.allowedTaker = other.allowedTaker
    /\ row.prelocked = other.prelocked /\ row.hashlock = other.hashlock
    /\ row.initiatorTimeout = other.initiatorTimeout
    /\ row.makerAuth = other.makerAuth /\ row.orderDigest = other.orderDigest

LEMMA ListingStands ==
    ASSUME NEW row, NEW other, SameListing(row, other), RowStands(row)
    PROVE  RowStands(other)
<1>1. T!orderBodyFromRow(row) = T!orderBodyFromRow(other)
  BY DEF SameListing, T!orderBodyFromRow, T!PrelockOf
<1>. QED  BY <1>1 DEF SameListing, RowStands

LEMMA VerifiedStands ==
    ASSUME NEW row, NEW n, NEW a \in BOOLEAN, T!verifyMakerOrder(row, n, a) # Null
    PROVE  RowStands(row) /\ row.makerAuth # Null
BY DEF T!verifyMakerOrder, RowStands

LEMMA StandsVerified ==
    ASSUME NullApart, NEW row, RowStands(row), row.makerAuth # Null, ~row.equivocated,
           row.makerAuth.issuedAt \in Int
    PROVE  T!verifyMakerOrder(row, row.makerAuth.issuedAt, TRUE) # Null
<1>. DEFINE auth == row.makerAuth
            body == T!orderBodyFromRow(row)
            digest == T!computeOrderDigest(body, auth)
            out == [signed |-> [order |-> body, auth |-> auth], orderDigest |-> digest]
<1>1. auth.issuedAt <= auth.issuedAt + CLOCK_SKEW
  BY LimitsNat
<1>2. T!verifyMakerOrder(row, auth.issuedAt, TRUE) = out
  BY <1>1 DEF T!verifyMakerOrder, RowStands
<1>3. out = [x \in DOMAIN out |-> out[x]]
  <2>. HIDE DEF body, digest
  <2>. QED  OBVIOUS
<1>. HIDE DEF out
<1>. QED  BY <1>2, <1>3, ObjectIs

\* An open order's row is the listing.
LEMMA OpenListing ==
    ASSUME IInv, status(book) = "open"
    PROVE  SameListing(RowOf(book), OpenRow)
<1>. DEFINE With(x, y, z) == [OpenRow EXCEPT !.status = x, !.released = y, !.equivocated = z]
<1>1. book.fill = Null /\ book.cancel = Null
  BY DEF status
<1>2. RowOf(book) = With(status(book), book.released, book.equivocated)
  BY <1>1 DEF RowOf
<1>3. \A x, y, z : SameListing(With(x, y, z), OpenRow)
  BY DEF SameListing, OpenRow
<1>. HIDE DEF With
<1>. QED  BY <1>2, <1>3

\* The order as the record keeps it is the order as the row shows it.
LEMMA PlainBody ==
    ASSUME OrderSigned, ListedPlain(order), RowStands(OpenRow)
    PROVE  /\ T!orderBodyFromRow(OpenRow) = order.order
           /\ T!computeOrderDigest(order.order, order.auth) = order.digest
           /\ order.order.visibility = "public" /\ order.order.allowedTaker = Null
<1>. DEFINE row == OpenRow
<1>1. /\ row.terms = order.order.terms /\ row.maker = order.order.maker
      /\ row.visibility = order.order.visibility /\ row.allowedTaker = order.order.allowedTaker
      /\ row.prelocked = (prelock # Null) /\ row.makerAuth = order.auth
      /\ prelock # Null => row.hashlock = prelock.hashlock /\ row.initiatorTimeout = prelock.t1
  BY DEF OpenRow
<1>. HIDE DEF row
<1>2. prelock # Null => row.hashlock # Null /\ row.initiatorTimeout # Null
  BY <1>1 DEF RowStands, row
<1>3. T!PrelockOf(row) = prelock
  <2>1. CASE prelock = Null
    BY <1>1, <2>1 DEF T!PrelockOf
  <2>2. CASE prelock # Null
    <3>1. prelock = [hashlock |-> prelock.hashlock, t1 |-> prelock.t1]
      BY <2>2 DEF ListedPlain, prelock
    <3>. QED  BY <1>1, <1>2, <2>2, <3>1 DEF T!PrelockOf
  <2>. QED  BY <2>1, <2>2
<1>4. T!orderBodyFromRow(row) = order.order
  <2>1. order.order = [f \in {"terms", "maker", "visibility", "allowedTaker", "prelock"} |-> order.order[f]]
    BY DEF ListedPlain
  <2>2. T!orderBodyFromRow(row) =
           [terms |-> order.order.terms, maker |-> order.order.maker,
            visibility |-> order.order.visibility, allowedTaker |-> order.order.allowedTaker,
            prelock |-> order.order.prelock]
    BY <1>1, <1>3 DEF T!orderBodyFromRow, prelock
  <2>. QED  BY <2>1, <2>2
<1>5. T!verifyOfficialV1Proof(row.maker, row.makerAuth,
                              T!computeOrderDigest(T!orderBodyFromRow(row), row.makerAuth))
      /\ row.visibility = "public" /\ row.allowedTaker = Null
  BY DEF RowStands, row
<1>6. Signature(order.order.maker, T!computeOrderDigest(order.order, order.auth))
        = Signature(order.order.maker, order.digest)
  BY <1>1, <1>4, <1>5, WireAgrees DEF T!verifyOfficialV1Proof, verifyMessageForSigner, OrderSigned
<1>7. T!computeOrderDigest(order.order, order.auth) = order.digest
  BY <1>6, SignatureNames
<1>. QED  BY <1>1, <1>4, <1>5, <1>7 DEF row

\* The taker's own proposal, as it comes back from the disk.
OwnStands(i) ==
    LET intent == i.doc.intent  auth == i.doc.auth IN
    /\ T!parseFillIntentBody(intent) /\ T!parseProtocolAuth(auth)
    /\ T!computeReleaseCommitment(order.digest, auth.nonce, <<"secret", i.who, i.at>>)
          = intent.releaseCommitment
    /\ intent.orderDigest = order.digest /\ intent.taker = Address("alice")
    /\ T!verifyOwnIntent([intent |-> intent, auth |-> auth], order.digest, order.auth,
                         auth.issuedAt, TRUE)

LEMMA OwnLoads ==
    ASSUME OrderSigned, cast.taker = "headless", NEW i, IsIntent(i), i.who = "alice"
    PROVE  OwnStands(i)
<1>. DEFINE doc == i.doc
            nonce == Nonce(<<"alice", i.at>>)
            secret == <<"secret", "alice", i.at>>
            plain == T!normalizeOrderBody(order.order)
            digest == T!computeOrderDigest(plain, order.auth)
            ends == T!Least(i.at + INTENT_LIFETIME, order.auth.expiresAt)
            intent == [orderDigest |-> digest, taker |-> Address("alice"),
                       releaseCommitment |-> T!computeReleaseCommitment(digest, T!Lower(nonce), secret)]
            unsigned == [issuedAt |-> i.at, expiresAt |-> ends, nonce |-> T!Lower(nonce)]
            payload == T!buildFillIntentV1Payload(intent, unsigned)
<1>0. IntentShaped(i) /\ i.at \in Nat
  BY IntentShape DEF IntentShaped
<1>1. doc = T!signFillIntentV1(Address("alice"), order, secret, nonce, i.at) /\ doc # Null
  <2>1. doc # Null
    BY DEF IsIntent
  <2>2. i = Intent("alice", i.at)
    BY <1>0 DEF IntentShaped
  <2>3. Intent("alice", i.at).doc = T!signFillIntentV1(Address("alice"), order, secret, nonce, i.at)
    BY DEF Intent
  <2>. HIDE DEF secret, nonce
  <2>. QED  BY <2>1, <2>2, <2>3
<1>. HIDE DEF doc, nonce
<1>2. /\ doc = [intent |-> intent, auth |-> T!Signed(unsigned, Address("alice"), payload)]
      /\ T!verifyOfficialV1Proof(plain.maker, order.auth, digest)
      /\ i.at >= order.auth.issuedAt
      /\ ends > i.at /\ ends - i.at <= INTENT_LIFETIME
      /\ payload # Null
  BY <1>1 DEF T!signFillIntentV1
<1>3. digest = order.digest
  <2>1. order.auth.signature = Signature(plain.maker, digest)
    BY <1>2, WireAgrees DEF T!verifyOfficialV1Proof, verifyMessageForSigner
  <2>2. Signature(plain.maker, digest) = Signature(order.order.maker, order.digest)
    BY <2>1 DEF OrderSigned
  <2>. HIDE DEF plain, digest
  <2>. QED  BY <2>2, SignatureNames
<1>4. doc.intent = intent /\ doc.auth = SignedAuth(unsigned, Signature(Address("alice"), payload))
  <2>. HIDE DEF intent, unsigned, payload
  <2>. QED  BY <1>2, TakerAuth
<1>5. /\ doc.auth.issuedAt = i.at /\ doc.auth.expiresAt = ends /\ doc.auth.nonce = T!Lower(nonce)
      /\ doc.auth.signature = Signature(Address("alice"), payload)
  <2>. HIDE DEF payload, intent, ends
  <2>. QED  BY <1>4, AuthFields
<1>6. /\ intent.orderDigest = digest /\ intent.taker = Address("alice")
      /\ intent.releaseCommitment = T!computeReleaseCommitment(digest, T!Lower(nonce), secret)
      /\ unsigned.issuedAt = i.at /\ unsigned.expiresAt = ends /\ unsigned.nonce = T!Lower(nonce)
  <2>. HIDE DEF digest, ends, nonce, secret
  <2>. QED  OBVIOUS
<1>7. ends \in Int /\ ends <= order.auth.expiresAt /\ ends >= 0
  <2>1. order.auth.expiresAt \in Int /\ i.at + INTENT_LIFETIME \in Int
    BY <1>0, LimitsNat DEF OrderSigned
  <2>2. ends \in Int /\ ends <= order.auth.expiresAt
    BY <2>1 DEF T!Least
  <2>. HIDE DEF ends
  <2>. QED  BY <1>0, <1>2, <2>2
<1>8. payload = T!buildFillIntentV1Payload(doc.intent, doc.auth)
  <2>. HIDE DEF intent, unsigned
  <2>. QED  BY <1>4, <1>5, <1>6 DEF payload, T!buildFillIntentV1Payload
<1>9. /\ T!Canonical(Address("alice")) /\ T!Canonical(T!Lower(nonce))
      /\ T!Canonical(T!computeReleaseCommitment(digest, T!Lower(nonce), secret))
  <2>. HIDE DEF digest, nonce, secret
  <2>. QED  BY DEF T!Canonical, Address, Text, T!Lower, T!Text, T!computeReleaseCommitment
<1>. HIDE DEF intent, unsigned, payload, digest, ends, plain
<1>10. T!verifyOfficialV1Proof(doc.intent.taker, doc.auth,
                               T!buildFillIntentV1Payload(doc.intent, doc.auth))
  BY <1>2, <1>4, <1>5, <1>6, <1>8, WireAgrees DEF T!verifyOfficialV1Proof, verifyMessageForSigner
<1>11. T!verifyOwnIntent([intent |-> doc.intent, auth |-> doc.auth], order.digest, order.auth,
                         doc.auth.issuedAt, TRUE)
  <2>1. doc.auth.issuedAt <= doc.auth.issuedAt + CLOCK_SKEW
    BY <1>0, <1>5, LimitsNat
  <2>2. /\ doc.intent.orderDigest = order.digest /\ doc.auth.expiresAt > doc.auth.issuedAt
        /\ doc.auth.expiresAt - doc.auth.issuedAt <= INTENT_LIFETIME
        /\ doc.auth.issuedAt >= order.auth.issuedAt /\ doc.auth.expiresAt <= order.auth.expiresAt
    BY <1>2, <1>3, <1>4, <1>5, <1>6, <1>7
  <2>. QED  BY <1>10, <2>1, <2>2 DEF T!verifyOwnIntent
<1>12. T!parseFillIntentBody(doc.intent) /\ T!parseProtocolAuth(doc.auth)
  BY <1>0, <1>4, <1>5, <1>6, <1>7, <1>9 DEF T!parseFillIntentBody, T!parseProtocolAuth
<1>. QED  BY <1>3, <1>4, <1>5, <1>6, <1>11, <1>12 DEF OwnStands, doc, secret

\* A fill the taker holds, with the proposal of its own that it answers.
FillBound(f, asked) ==
    LET doc == f.doc  fill == f.doc.fill  auth == f.doc.auth IN
    /\ f.for \in asked
    /\ doc = [fill |-> fill, auth |-> auth]
    /\ T!parseFillBody(fill) /\ T!parseProtocolAuth(auth)
    /\ fill.orderDigest = order.digest
    /\ fill.intentDigest = T!computeFillIntentDigest(f.for.doc.intent, f.for.doc.auth)
    /\ T!fillBindingIsValid(fill, auth, order.auth, TakerRecovery(f.for.doc), order.order.prelock)
    /\ T!verifyOfficialV1Proof(order.order.maker, auth,
                               T!buildFillV1Payload(fill, order.auth, auth))

LEMMA TakerBinds ==
    ASSUME OrderSigned, NEW row, NEW i, NEW asked, i \in asked, NEW n, RowGood(row),
           T!parseBookOrderRow(row), T!verifyMakerFill(row, TakerRecovery(i.doc), n) = "fund"
    PROVE  FillBound(FillIn(row, i), asked)
<1>. DEFINE rec == TakerRecovery(i.doc)
            fill == row.fill
            auth == row.fillAuth
            f == FillIn(row, i)
            lock == T!PrelockOf(row)
<1>1. T!FillComplete(row) /\ T!FillAuthentic(row, rec, n)
  BY DEF T!verifyMakerFill
<1>2. row.fill # Null /\ row.fillAuth # Null
  BY <1>1 DEF T!FillComplete
<1>3. /\ T!verifyMakerOrder(row, n, TRUE) # Null
      /\ T!fillTermsAreValid(row, rec, n)
      /\ T!verifyOfficialV1Proof(row.maker, auth, T!buildFillV1Payload(fill, row.makerAuth, auth))
      /\ row.hashlock = fill.hashlock
  BY <1>1 DEF T!FillAuthentic
<1>4. /\ rec.orderDigest = order.digest
      /\ rec.intentDigest = T!computeFillIntentDigest(i.doc.intent, i.doc.auth)
  BY DEF TakerRecovery, orderDigest
<1>5. T!parseFillBody(fill) /\ T!parseProtocolAuth(auth)
  BY <1>2 DEF T!parseBookOrderRow
<1>6. /\ OfOrder(row) /\ FillTyped(fill, auth)
      /\ row.makerAuth = order.auth /\ row.maker = order.order.maker
      /\ row.prelocked = (prelock # Null)
  BY <1>2 DEF RowGood, OfOrder
<1>. HIDE DEF rec
<1>7. /\ row.prelocked => lock # Null
      /\ T!fillBindingIsValid(fill, auth, order.auth, rec, lock)
  BY <1>3, <1>6 DEF T!fillTermsAreValid
<1>8. prelock # Null =>
          /\ row.hashlock # Null /\ row.initiatorTimeout # Null
          /\ prelock.t1 = row.initiatorTimeout /\ prelock.hashlock = T!Lower(row.hashlock)
  BY <1>3, <1>6, TakerOrder
<1>9. prelock # Null => /\ lock # Null
                        /\ lock.hashlock = prelock.hashlock /\ lock.t1 = prelock.t1
  <2>1. T!Lower(fill.hashlock) = fill.hashlock
    <3>1. IsText(fill.hashlock) /\ Canonical(fill.hashlock)
      BY <1>5, <1>6 DEF FillTyped, T!parseFillBody, T!Canonical, Canonical
    <3>. QED  BY <3>1, LowerOfCanonical
  <2>2. prelock # Null => lock = [hashlock |-> row.hashlock, t1 |-> row.initiatorTimeout] /\ lock # Null
    BY <1>6, <1>7, <1>8 DEF T!PrelockOf
  <2>. HIDE DEF lock
  <2>. QED  BY <1>3, <1>8, <2>1, <2>2
<1>10. prelock = Null => lock = Null
  BY <1>6 DEF T!PrelockOf
<1>. HIDE DEF lock
<1>11. T!fillBindingIsValid(fill, auth, order.auth, rec, prelock)
  <2>1. CASE prelock = Null
    BY <1>7, <1>10, <2>1
  <2>2. CASE prelock # Null
    BY <1>7, <1>9, <2>2 DEF T!fillBindingIsValid
  <2>. QED  BY <2>1, <2>2
<1>12. fill.orderDigest = rec.orderDigest /\ fill.intentDigest = rec.intentDigest
  BY <1>7 DEF T!fillBindingIsValid
<1>13. f.for = i /\ f.doc.fill = fill /\ f.doc.auth = auth /\ f.doc = [fill |-> fill, auth |-> auth]
  BY DEF FillIn
<1>. HIDE DEF f, fill, auth
<1>14. FillBound(f, asked)
  BY <1>3, <1>4, <1>5, <1>6, <1>11, <1>12, <1>13 DEF FillBound, rec, prelock, fill, auth
<1>. QED  BY <1>14 DEF f

\* What the scripted taker has saved.
TakeLoads(take) ==
    /\ take.phase # "signing"
    /\ \A i \in take.asked : i.who = "alice"
    /\ take.asked # {} =>
          OrderLoads /\ T!MayUpsert(TakerRecord(take), Address("alice"), cast.retained)
    /\ take.phase \in {"idle", "asked"} => take.fill = Null
    /\ take.fill # Null => FillBound(take.fill, take.asked)

TakerLoads == ListedPlain(order) /\ (cast.taker = "headless" => TakeLoads(alice))

LEMMA RecordFields ==
    ASSUME NEW take
    PROVE  LET record == TakerRecord(take)
               doc == take.fill.doc
               none == take.fill = Null
           IN  /\ record.orderId = OpenRow.id /\ record.orderDigest = order.digest
               /\ record.order = order.order /\ record.orderAuth = order.auth
               /\ record.taker = Address("alice")
               /\ record.intents = {IntentEntry(take, i) : i \in take.asked}
               /\ record.selectedIntentDigest = IF none THEN Null ELSE doc.fill.intentDigest
               /\ record.fill = IF none THEN Null ELSE doc
               /\ record.fillAcknowledged = ~none
               /\ record.fillDigest = IF none THEN Null
                                      ELSE T!computeFillDigest(doc.fill, order.auth, doc.auth)
BY DEF TakerRecord, T!newTakerSwapRecord, orderDigest

LEMMA EntryFields ==
    ASSUME NEW take, NEW i
    PROVE  LET entry == IntentEntry(take, i) IN
           /\ entry.intentDigest = T!computeFillIntentDigest(i.doc.intent, i.doc.auth)
           /\ entry.intent = i.doc.intent /\ entry.auth = i.doc.auth
           /\ entry.releaseSecret = <<"secret", i.who, i.at>> /\ entry.submittedAt = i.at
           /\ entry.releasedAt \in {i.at, Null}
BY DEF IntentEntry

LEMMA EntryStands ==
    ASSUME IInv, cast.taker = "headless", TakeLoads(alice), NEW i \in alice.asked,
           NEW record, record = TakerRecord(alice), NEW entry, entry = IntentEntry(alice, i)
    PROVE  T!parseIntentRecord(entry) /\ T!IntentStands(entry, record)
<1>1. IsIntent(i) /\ i.who = "alice" /\ OrderSigned
  BY DEF IInv, TakeWell, TakeLoads
<1>2. OwnStands(i) /\ i.at >= 0
  BY <1>1, OwnLoads, IntentShape DEF IntentShaped
<1>3. /\ entry.intentDigest = T!computeFillIntentDigest(i.doc.intent, i.doc.auth)
      /\ entry.intent = i.doc.intent /\ entry.auth = i.doc.auth
      /\ entry.releaseSecret = <<"secret", i.who, i.at>> /\ entry.submittedAt = i.at
      /\ entry.releasedAt \in {i.at, Null}
  BY EntryFields
<1>4. /\ record.orderDigest = order.digest /\ record.orderAuth = order.auth
      /\ record.taker = Address("alice")
  BY RecordFields
<1>5. T!parseIntentRecord(entry)
  BY <1>2, <1>3 DEF OwnStands, T!parseIntentRecord, T!UintOrNull
<1>6. T!IntentStands(entry, record)
  BY <1>2, <1>3, <1>4 DEF OwnStands, T!IntentStands, T!signedIntentOf
<1>. QED  BY <1>5, <1>6

LEMMA FillStandsAlone ==
    ASSUME IInv, TakeLoads(alice), alice.fill # Null, NEW record, record = TakerRecord(alice)
    PROVE  /\ T!FillStands(record) /\ T!selectedIntents(record) # {}
           /\ record.fill = [fill |-> record.fill.fill, auth |-> record.fill.auth]
<1>. DEFINE f == alice.fill
            doc == alice.fill.doc
            fill == alice.fill.doc.fill
            auth == alice.fill.doc.auth
            i == alice.fill.for
            entry == IntentEntry(alice, i)
            rec == [orderDigest |-> record.orderDigest, intent |-> T!signedIntentOf(entry),
                    intentDigest |-> entry.intentDigest]
<1>1. /\ i \in alice.asked /\ doc = [fill |-> fill, auth |-> auth]
      /\ T!parseFillBody(fill) /\ T!parseProtocolAuth(auth)
      /\ fill.orderDigest = order.digest
      /\ fill.intentDigest = T!computeFillIntentDigest(i.doc.intent, i.doc.auth)
      /\ T!fillBindingIsValid(fill, auth, order.auth, TakerRecovery(i.doc), order.order.prelock)
      /\ T!verifyOfficialV1Proof(order.order.maker, auth,
                                 T!buildFillV1Payload(fill, order.auth, auth))
  BY DEF TakeLoads, FillBound
<1>2. /\ record.orderDigest = order.digest
      /\ record.order = order.order /\ record.orderAuth = order.auth
      /\ record.intents = {IntentEntry(alice, j) : j \in alice.asked}
      /\ record.selectedIntentDigest = fill.intentDigest
      /\ record.fill = doc
      /\ record.fillDigest = T!computeFillDigest(fill, order.auth, auth)
  BY RecordFields
<1>3. /\ entry.intentDigest = fill.intentDigest
      /\ entry.intent = i.doc.intent /\ entry.auth = i.doc.auth
  BY <1>1, EntryFields
<1>. HIDE DEF entry
<1>4. entry \in T!selectedIntents(record)
  <2>1. entry \in record.intents
    BY <1>1, <1>2 DEF entry
  <2>. QED  BY <1>2, <1>3, <2>1 DEF T!selectedIntents
<1>5. T!fillBindingIsValid(fill, auth, order.auth, rec, order.order.prelock)
  <2>. DEFINE own == TakerRecovery(i.doc)
  <2>1. /\ own.orderDigest = order.digest
        /\ own.intentDigest = T!computeFillIntentDigest(i.doc.intent, i.doc.auth)
        /\ own.intent.intent = i.doc.intent /\ own.intent.auth = i.doc.auth
    BY DEF TakerRecovery, orderDigest
  <2>2. /\ rec.orderDigest = order.digest
        /\ rec.intentDigest = T!computeFillIntentDigest(i.doc.intent, i.doc.auth)
        /\ rec.intent.intent = i.doc.intent /\ rec.intent.auth = i.doc.auth
    BY <1>1, <1>2, <1>3 DEF T!signedIntentOf
  <2>. HIDE DEF own, rec, fill, auth, i
  <2>. QED  BY <1>1, <2>1, <2>2 DEF T!fillBindingIsValid, own
<1>. HIDE DEF rec, i, fill, auth, doc
<1>6. T!FillStands(record)
  <2>1. record.fill.fill = fill /\ record.fill.auth = auth
    BY <1>1, <1>2
  <2>. QED  BY <1>1, <1>2, <1>4, <1>5, <2>1 DEF T!FillStands, rec
<1>7. record.fill = [fill |-> record.fill.fill, auth |-> record.fill.auth]
  BY <1>1, <1>2
<1>. QED  BY <1>4, <1>6, <1>7

\* The scripted taker's half of RecordsLoad.
TakerRecordsLoad ==
    cast.taker = "headless" /\ alice.asked # {} =>
        T!Hydrates(TakerRecord(alice), Address("alice"), cast.retained)

LEMMA TakerHydrates ==
    ASSUME NullApart, IInv, TakerLoads
    PROVE  TakerRecordsLoad
<1>. SUFFICES ASSUME cast.taker = "headless", alice.asked # {}
              PROVE  T!Hydrates(TakerRecord(alice), Address("alice"), cast.retained)
  BY DEF TakerRecordsLoad
<1>. DEFINE record == TakerRecord(alice)
            row == T!recordOrderRow(record)
<1>1. /\ OrderSigned /\ ListedPlain(order) /\ TakeLoads(alice) /\ OrderLoads
      /\ T!MayUpsert(record, Address("alice"), cast.retained)
  BY DEF IInv, TakerLoads, TakeLoads
<1>2. /\ record.orderId = OpenRow.id /\ record.orderDigest = order.digest
      /\ record.order = order.order /\ record.orderAuth = order.auth
      /\ record.taker = Address("alice")
      /\ record.intents = {IntentEntry(alice, i) : i \in alice.asked}
      /\ record.selectedIntentDigest # Null => alice.fill # Null
      /\ record.fill # Null => alice.fill # Null
      /\ record.fillAcknowledged => alice.fill # Null
  BY RecordFields
<1>. HIDE DEF record
<1>3. RowStands(OpenRow) /\ OpenRow.makerAuth # Null
  BY <1>1, VerifiedStands DEF OrderLoads
<1>4. /\ T!computeOrderDigest(order.order, order.auth) = order.digest
      /\ order.order.visibility = "public" /\ order.order.allowedTaker = Null
  BY <1>1, <1>3, PlainBody
<1>5. T!parseCanonicalOrder(record.order)
  <2>1. T!Canonical(order.order.maker)
    BY <1>1 DEF OrderSigned, Address, Text, T!Canonical
  <2>. QED  BY <1>1, <1>2, <1>4, <2>1, MakerWire DEF ListedPlain, T!parseCanonicalOrder
<1>6. T!parseMakerOrderAuth(record.orderAuth)
  BY <1>1, <1>2, MakerWire DEF ListedPlain, OrderSigned, T!parseMakerOrderAuth, T!parseProtocolAuth
<1>7. record.orderId = T!deriveOrderV1Id(record.order.maker, record.orderAuth.nonce)
  BY <1>2 DEF OpenRow, deriveOrderV1Id, T!deriveOrderV1Id
<1>8. \A entry \in record.intents : T!parseIntentRecord(entry) /\ T!IntentStands(entry, record)
  BY <1>1, <1>2, EntryStands DEF record
<1>9. alice.fill # Null => /\ T!FillStands(record) /\ T!selectedIntents(record) # {}
                           /\ record.fill # Null
  <2>. SUFFICES ASSUME alice.fill # Null
                PROVE  T!FillStands(record) /\ T!selectedIntents(record) # {} /\ record.fill # Null
    OBVIOUS
  <2>1. /\ T!FillStands(record) /\ T!selectedIntents(record) # {}
        /\ record.fill = [fill |-> record.fill.fill, auth |-> record.fill.auth]
    BY <1>1, FillStandsAlone DEF record
  <2>2. record.fill = [x \in DOMAIN record.fill |-> record.fill[x]]
    BY <2>1
  <2>. QED  BY <2>1, <2>2, ObjectIs
<1>10. T!Canonical(record.taker)
  BY <1>2 DEF Address, Text, T!Canonical
<1>11. T!parseTakerSwapRecord(record, cast.retained)
  BY <1>1, <1>2, <1>4, <1>5, <1>6, <1>7, <1>8, <1>9, <1>10
     DEF T!parseTakerSwapRecord, T!MayUpsert
<1>12. T!verifyMakerOrder(row, record.orderAuth.issuedAt, TRUE) # Null
  <2>1. /\ SameListing(OpenRow, row) /\ row.makerAuth = order.auth /\ ~row.equivocated
    BY <1>2, <1>4 DEF T!recordOrderRow, SameListing, OpenRow, prelock, orderDigest
  <2>2. RowStands(row)
    BY <1>3, <2>1, ListingStands
  <2>3. row.makerAuth # Null /\ row.makerAuth.issuedAt \in Int
    BY <1>1, <1>3, <2>1 DEF OpenRow, OrderSigned
  <2>. HIDE DEF row
  <2>. QED  BY <1>2, <2>1, <2>2, <2>3, StandsVerified
<1>13. T!assertIdentity(record, Address("alice"))
  BY <1>2 DEF T!assertIdentity
<1>. QED  BY <1>11, <1>12, <1>13 DEF T!Hydrates, row, record

-----------------------------------------------------------------------------
(* The steps of the scripted taker.                                        *)

LEMMA StoresWell ==
    ASSUME NEW take, Stores(take)
    PROVE  alice' = take /\ T!MayUpsert(TakerRecord(take), Address("alice"), cast.retained)
BY DEF Stores

LEMMA GoneLoads ==
    TakeLoads(NoTake("gone"))
BY DEF TakeLoads, NoTake

LEMMA ProposesLoads ==
    ASSUME NullApart, IInv, TakeLoads(alice), NEW delivery, Proposes(delivery)
    PROVE  TakeLoads(alice')
<1>. DEFINE i == Intent("alice", now)
            kept == Retained(i)
            take == [alice EXCEPT !.phase = "asked", !.asked = kept]
<1>1. /\ status(book) = "open" /\ T!verifyMakerOrder(RowOf(book), now, FALSE) # Null
      /\ alice.phase \in {"idle", "asked"} /\ Stores(take)
  BY DEF Proposes, MayBegin
<1>2. i.who = "alice"
  BY DEF Intent
<1>. HIDE DEF i
<1>3. kept \subseteq alice.asked \cup {i}
  BY DEF Retained, Own
<1>. HIDE DEF kept
<1>4. take.phase = "asked" /\ take.asked = kept /\ take.fill = alice.fill
  BY DEF IInv, TakeWell
<1>. HIDE DEF take
<1>5. alice' = take /\ T!MayUpsert(TakerRecord(take), Address("alice"), cast.retained)
  BY <1>1, StoresWell
<1>6. alice.fill = Null /\ \A j \in alice.asked : j.who = "alice"
  BY <1>1 DEF TakeLoads
<1>7. OrderLoads
  <2>1. RowStands(RowOf(book))
    BY <1>1, VerifiedStands
  <2>2. SameListing(RowOf(book), OpenRow)
    BY <1>1, OpenListing
  <2>3. RowStands(OpenRow)
    BY <2>1, <2>2, ListingStands
  <2>4. OpenRow.makerAuth # Null /\ OpenRow.makerAuth = order.auth
    <3>1. RowOf(book).makerAuth # Null
      BY <1>1, VerifiedStands
    <3>. QED  BY <2>2, <3>1 DEF SameListing, OpenRow
  <2>5. ~OpenRow.equivocated /\ OpenRow.makerAuth.issuedAt \in Int
    BY <2>4 DEF OpenRow, IInv, OrderSigned
  <2>. QED  BY <2>3, <2>4, <2>5, StandsVerified DEF OrderLoads
<1>. QED  BY <1>2, <1>3, <1>4, <1>5, <1>6, <1>7 DEF TakeLoads

LEMMA ReleasesLoads ==
    ASSUME IInv, TakeLoads(alice), NEW delivery, Releases(delivery)
    PROVE  TakeLoads(alice')
<1>. DEFINE take == [alice EXCEPT !.released = TRUE]
<1>1. alice' = NoTake("gone") \/ Stores(take)
  BY DEF Releases, Quits
<1>2. take.phase = alice.phase /\ take.asked = alice.asked /\ take.fill = alice.fill
  BY DEF IInv, TakeWell
<1>. HIDE DEF take
<1>3. CASE Stores(take)
  <2>1. alice' = take /\ T!MayUpsert(TakerRecord(take), Address("alice"), cast.retained)
    BY <1>3, StoresWell
  <2>. QED  BY <1>2, <2>1 DEF TakeLoads
<1>. QED  BY <1>1, <1>3, GoneLoads

LEMMA AcknowledgesLoads ==
    ASSUME IInv, TakeLoads(alice), StepAcknowledges
    PROVE  TakeLoads(alice')
<1>1. PICK row \in Filled : \E i \in OwnSelected(row) :
        /\ VerdictOn(row, i) = "fund"
        /\ Stores([alice EXCEPT !.phase = "ready", !.fill = FillIn(row, i)])
  BY DEF StepAcknowledges
<1>2. PICK i \in OwnSelected(row) :
        /\ VerdictOn(row, i) = "fund"
        /\ Stores([alice EXCEPT !.phase = "ready", !.fill = FillIn(row, i)])
  BY <1>1
<1>3. i \in alice.asked /\ IsIntent(i) /\ OrderSigned
  BY DEF OwnSelected, Own, IInv, TakeWell
<1>4. row \in Served(Latest) /\ T!parseBookOrderRow(row)
  BY DEF Filled
<1>5. RowGood(row)
  BY <1>3, <1>4, LatestOwn, ServedGood DEF Own
<1>6. T!verifyMakerFill(row, TakerRecovery(i.doc), now) = "fund"
  <2>1. RecoveryOf(i) = TakerRecovery(i.doc)
    BY DEF RecoveryOf, TakerRecovery, StepAcknowledges
  <2>. QED  BY <1>2, <2>1 DEF VerdictOn
<1>. DEFINE f == FillIn(row, i)
            take == [alice EXCEPT !.phase = "ready", !.fill = f]
<1>7. FillBound(f, alice.asked)
  BY <1>3, <1>4, <1>5, <1>6, TakerBinds
<1>8. Stores(take)
  BY <1>2
<1>. HIDE DEF f
<1>9. take.phase = "ready" /\ take.asked = alice.asked /\ take.fill = f
  BY DEF IInv, TakeWell
<1>. HIDE DEF take
<1>10. alice' = take /\ T!MayUpsert(TakerRecord(take), Address("alice"), cast.retained)
  BY <1>8, StoresWell
<1>. QED  BY <1>7, <1>9, <1>10 DEF TakeLoads

LEMMA FundsLoads ==
    ASSUME IInv, TakeLoads(alice), AliceFunds
    PROVE  TakeLoads(alice')
<1>. DEFINE take == [alice EXCEPT !.phase = "funded"]
<1>1. alice' = take
  BY DEF AliceFunds
<1>2. /\ take.phase = "funded" /\ take.asked = alice.asked /\ take.fill = alice.fill
      /\ take.released = alice.released
  BY DEF IInv, TakeWell
<1>. HIDE DEF take
<1>3. \A i : IntentEntry(take, i) = IntentEntry(alice, i)
  BY <1>2 DEF IntentEntry, selectedOwn
<1>4. TakerRecord(take) = TakerRecord(alice)
  <2>. DEFINE all == {IntentEntry(take, i) : i \in take.asked}
              same == {IntentEntry(alice, i) : i \in alice.asked}
  <2>1. all = same
    BY <1>2, <1>3
  <2>. HIDE DEF all, same
  <2>. QED  BY <1>2, <2>1 DEF TakerRecord, all, same
<1>. QED  BY <1>1, <1>2, <1>4 DEF TakeLoads

LEMMA TakeMoves ==
    ASSUME NullApart, IInv, cast.taker = "headless", TakeLoads(alice), [Next]_vars
    PROVE  TakeLoads(alice')
<1>1. CASE UNCHANGED alice
  BY <1>1
<1>2. ASSUME NEW delivery, MakerActs(delivery) PROVE UNCHANGED alice
  BY <1>2 DEF MakerActs, ApproveFill, RetryFill, ClickCancel, ApproveCancel, HeadlessSigns,
     HeadlessCancels
<1>3. ASSUME NEW delivery, TakerActs(delivery) PROVE TakeLoads(alice')
  <2>1. ~AliceAsks(delivery) /\ ~AlicePolls(delivery) /\ ~AliceLeaves(delivery)
    BY DEF AliceAsks, AlicePolls, AliceLeaves, TakeLoads
  <2>. QED  BY <1>3, <2>1, ProposesLoads, ReleasesLoads DEF TakerActs, Abandons, StepReleases
<1>4. CASE \/ StartSignedSwap \/ RejectFill \/ RejectCancel \/ Poll \/ CloseFinished \/ Reload
           \/ HeadlessSelects \/ HeadlessRepublishes \/ RivalAsks \/ Tick
  <2>1. UNCHANGED alice
    BY <1>4 DEF StartSignedSwap, RejectFill, RejectCancel, Poll, CloseFinished, Reload,
       HeadlessSelects, HeadlessRepublishes, RivalAsks, Tick
  <2>. QED  BY <1>1, <2>1
<1>5. CASE AliceSigns \/ AliceReplays
  BY <1>5 DEF AliceSigns, AliceReplays
<1>6. CASE StepEnds
  BY <1>6, GoneLoads DEF StepEnds, Quits
<1>7. CASE StepAcknowledges \/ AliceFunds
  BY <1>7, AcknowledgesLoads, FundsLoads
<1>8. CASE UNCHANGED vars
  BY <1>1, <1>8 DEF vars
<1>. QED  BY <1>1, <1>2, <1>3, <1>4, <1>5, <1>6, <1>7, <1>8 DEF Next

\* The order never changes, so a record means the same after a step.
LEMMA SteadyTake ==
    ASSUME cast' = cast, order' = order
    PROVE  \A take : TakeLoads(take)' <=> TakeLoads(take)
<1>1. OpenRow' = OpenRow
  BY DEF OpenRow, prelock, orderDigest
<1>2. OrderLoads' <=> OrderLoads
  BY <1>1 DEF OrderLoads
<1>3. \A take : TakerRecord(take)' = TakerRecord(take)
  BY <1>1 DEF TakerRecord, IntentEntry, selectedOwn, orderDigest
<1>4. \A f, asked : FillBound(f, asked)' <=> FillBound(f, asked)
  BY DEF FillBound, TakerRecovery, orderDigest
<1>. QED  BY <1>2, <1>3, <1>4 DEF TakeLoads

LEMMA TakerLoadsStep ==
    ASSUME NullApart, IInv, TakerLoads, [Next]_vars
    PROVE  TakerLoads'
<1>1. cast' = cast /\ order' = order
  <2>1. CASE UNCHANGED vars
    BY <2>1 DEF vars
  <2>2. CASE Next
    <3>1. Kept
      BY <2>2, NextKept
    <3>. QED  BY <3>1 DEF Kept
  <2>. QED  BY <2>1, <2>2
<1>2. cast.taker = "headless" => TakeLoads(alice')
  BY TakeMoves DEF TakerLoads
<1>3. cast.taker = "headless" => TakeLoads(alice)'
  BY <1>1, <1>2, SteadyTake
<1>. QED  BY <1>1, <1>3 DEF TakerLoads

LEMMA TakerLoadsInit ==
    Init => TakerLoads
<1>. SUFFICES ASSUME Init PROVE TakerLoads
  OBVIOUS
<1>. DEFINE doc == OrderDoc(cast)
<1>1. ListedPlain(doc)
  BY BrowserLists, HeadlessLists DEF Init
<1>2. order.order = doc.order /\ order.auth = doc.auth
  BY DEF Init
<1>. HIDE DEF doc
<1>3. ListedPlain(order)
  BY <1>1, <1>2 DEF ListedPlain
<1>4. TakeLoads(alice)
  BY DEF Init, NoTake, TakeLoads
<1>. QED  BY <1>3, <1>4 DEF TakerLoads

\* StateFile and TakerStateFile: whatever the market maker or the scripted
\* taker has written, and whenever it starts again, its constructor
\* authenticates the record: what a signer let through the parsers of the
\* state file, which state every limit again, let through as well.  Null
\* stands for what is absent, so it is no number and no object.
THEOREM RecordsAlwaysLoad ==
    ASSUME NullApart
    PROVE  Spec => []RecordsLoad
<1>1. Init => TakerLoads
  BY TakerLoadsInit
<1>2. IInv /\ TakerLoads /\ [Next]_vars => TakerLoads'
  BY TakerLoadsStep
<1>3. Spec => []TakerLoads
  BY <1>1, <1>2, IInvHolds, PTL DEF Spec
<1>4. IInv /\ MakerLoads /\ TakerLoads => RecordsLoad
  <2>. SUFFICES ASSUME IInv, MakerLoads, TakerLoads PROVE RecordsLoad
    OBVIOUS
  <2>1. MakerRecordsLoad /\ TakerRecordsLoad
    BY MakerHydrates, TakerHydrates
  <2>. QED  BY <2>1 DEF MakerRecordsLoad, TakerRecordsLoad, RecordsLoad
<1>. QED  BY <1>3, <1>4, IInvHolds, MakerLoadsHolds, PTL

-----------------------------------------------------------------------------
(* What is signed is accepted: the order.                                  *)

\* The book would take the order as it was signed.
ListedSound(doc) ==
    /\ S!verifyOrderV1(doc.order, doc.auth, doc.auth.issuedAt, FALSE)
    /\ doc.order.terms = "agreed"
    /\ doc.auth = [x \in DOMAIN doc.auth |-> doc.auth[x]]
    /\ IsText(doc.auth.makerTokenCommitment) /\ IsText(doc.auth.shareTokenCommitment)

\* What a signer of orders looks at beyond the form of its document.
ListedTimes(doc) ==
    LET listed == doc.order  auth == doc.auth IN
    /\ auth.issuedAt = 0 /\ auth.expiresAt \in MIN_LIFETIME .. ORDER_LIFETIME
    /\ listed.prelock # Null => /\ listed.prelock.t1 \in MIN_LISTING .. MAX_LISTING
                                /\ auth.expiresAt <= listed.prelock.t1
    /\ listed.visibility \in {"public", "private"}
    /\ listed.allowedTaker # Null => listed.visibility = "private" /\ Canonical(listed.allowedTaker)
    /\ auth.makerTokenCommitment # Zero
    /\ (listed.visibility = "public") = (auth.shareTokenCommitment = Zero)

LEMMA TimesSound ==
    ASSUME NEW doc, ListedWell(doc), ListedPlain(doc), ListedTimes(doc)
    PROVE  S!verifyOrderV1(doc.order, doc.auth, doc.auth.issuedAt, FALSE)
<1>. DEFINE body == doc.order
            auth == doc.auth
<1>1. \A t : S!Canonical(t) <=> Canonical(t)
  BY DEF S!Canonical, Canonical
<1>2. S!Zero = Zero
  BY DEF S!Zero, Zero, S!Text, Text
<1>3. Canonical(body.maker)
  BY DEF ListedWell, Canonical, Address, Text
<1>4. S!canonicalOrderBody(body)
  BY <1>1, <1>3 DEF S!canonicalOrderBody, ListedTimes, ListedPlain
<1>5. S!parseMakerOrderAuth(auth)
  BY <1>1 DEF S!parseMakerOrderAuth, S!parseAuth, ListedPlain, ListedWell
<1>6. /\ auth.expiresAt > auth.issuedAt /\ auth.expiresAt - auth.issuedAt <= ORDER_LIFETIME
      /\ auth.issuedAt <= auth.issuedAt + CLOCK_SKEW
      /\ auth.expiresAt >= auth.issuedAt + MIN_LIFETIME
  BY LimitsNat, WireAssumption DEF ListedTimes
<1>7. S!PrelockWindow(body, auth)
  <2>1. body.prelock # Null => body.prelock.t1 - auth.issuedAt = body.prelock.t1
    BY DEF ListedTimes, ListedWell
  <2>. QED  BY <2>1 DEF S!PrelockWindow, ListedTimes
<1>8. S!verifyProof(body.maker, auth, S!buildOrderV1Payload(body, auth))
  BY WireAgrees DEF S!verifyProof, verifyMessageForSigner, ListedWell, S!orderDigest
<1>9. /\ auth.makerTokenCommitment # S!Zero
      /\ (body.visibility = "public") = (auth.shareTokenCommitment = S!Zero)
  BY <1>2 DEF ListedTimes
<1>. HIDE DEF body, auth
<1>. QED  BY <1>4, <1>5, <1>6, <1>7, <1>8, <1>9 DEF S!verifyOrderV1, body, auth

LEMMA BrowserSound ==
    ASSUME NEW c \in Casts, c.maker # "headless"
    PROVE  ListedSound(OrderDoc(c))
<1>. DEFINE body == OrderBody(c)
            share == IF c.listing = "private" THEN "shareToken" ELSE Null
            full == B!normalizeOrderBody(body)
            ends == IF full.prelock = Null THEN 0 + ORDER_LIFETIME
                    ELSE B!Earliest(0 + ORDER_LIFETIME, full.prelock.t1)
            mt == B!capabilityCommitment("Maker", "makerToken")
            st == IF full.visibility = "private" THEN B!capabilityCommitment("Share", share) ELSE B!Zero
            unsigned == [issuedAt |-> 0, expiresAt |-> ends, nonce |-> Nonce("order"),
                         makerTokenCommitment |-> mt, shareTokenCommitment |-> st]
            payload == B!orderDigest(full, unsigned)
            doc == OrderDoc(c)
<1>1. doc # Null
  BY ListingAssumption
<1>2. doc = B!signOrderV1(body, "makerToken", share, Nonce("order"), 0)
  BY <1>1 DEF OrderDoc
<1>3. /\ doc = [order |-> full, auth |-> B!signProtocolAuth(body.maker, unsigned, payload)]
      /\ payload # Null
      /\ full.prelock # Null => full.prelock.t1 - 0 \in MIN_LISTING .. MAX_LISTING
      /\ ends - 0 >= MIN_LIFETIME
  BY <1>1, <1>2 DEF B!signOrderV1
<1>4. ListedWell(doc) /\ ListedPlain(doc)
  BY BrowserLists
<1>5. /\ full.terms = "agreed" /\ full.visibility = body.visibility
      /\ full.allowedTaker = IF body.allowedTaker = Null THEN Null ELSE B!Lower(body.allowedTaker)
  BY DEF B!normalizeOrderBody, OrderBody
<1>6. /\ full.visibility \in {"public", "private"}
      /\ full.allowedTaker # Null => full.visibility = "private" /\ Canonical(full.allowedTaker)
  <2>1. /\ body.visibility \in {"public", "private"}
        /\ body.allowedTaker # Null => body.visibility = "private"
    BY DEF OrderBody
  <2>2. \A t : Canonical(B!Lower(t))
    BY DEF Canonical, B!Lower, B!Text
  <2>. HIDE DEF body, full
  <2>. QED  BY <1>5, <2>1, <2>2
<1>7. mt # Zero /\ ((full.visibility = "public") = (st = Zero)) /\ IsText(mt) /\ IsText(st)
  <2>1. B!Zero = Zero
    BY DEF B!Zero, Zero, B!Text, Text
  <2>2. \A d, t : /\ B!capabilityCommitment(d, t) # Zero /\ IsText(B!capabilityCommitment(d, t))
    BY DEF B!capabilityCommitment, B!Text, Zero, Text, IsText
  <2>3. IsText(Zero)
    BY DEF Zero, IsText, Text
  <2>. HIDE DEF full, share
  <2>. QED  BY <1>6, <2>1, <2>2, <2>3
<1>8. doc.order = full /\ \E signature : doc.auth = SignedAuth(unsigned, signature)
  <2>. HIDE DEF full, unsigned, payload, doc
  <2>. QED  BY <1>3, BrowserAuth
<1>. HIDE DEF mt, st, ends, full
<1>9. /\ doc.auth.issuedAt = 0 /\ doc.auth.expiresAt = ends
      /\ doc.auth.makerTokenCommitment = mt /\ doc.auth.shareTokenCommitment = st
  <2>. HIDE DEF doc
  <2>. QED  BY <1>8, OrderAuthFields
<1>10. doc.auth = [x \in DOMAIN doc.auth |-> doc.auth[x]]
  <2>. HIDE DEF doc, unsigned
  <2>. QED  BY <1>8 DEF SignedAuth
<1>. HIDE DEF doc, payload, unsigned
<1>11. doc.auth.expiresAt \in Int /\ (doc.order.prelock # Null => doc.order.prelock.t1 \in Int)
  BY <1>4 DEF ListedWell
<1>12. ends \in MIN_LIFETIME .. ORDER_LIFETIME
       /\ (full.prelock # Null => full.prelock.t1 \in MIN_LISTING .. MAX_LISTING /\ ends <= full.prelock.t1)
  BY <1>3, <1>8, <1>9, <1>11, LimitsNat DEF ends, B!Earliest
<1>13. ListedTimes(doc)
  BY <1>6, <1>7, <1>8, <1>9, <1>12 DEF ListedTimes
<1>. QED  BY <1>4, <1>5, <1>7, <1>8, <1>9, <1>10, <1>13, TimesSound DEF ListedSound, doc

LEMMA HeadlessSound ==
    ASSUME NEW c \in Casts, c.maker = "headless"
    PROVE  ListedSound(OrderDoc(c))
<1>. DEFINE doc == OrderDoc(c)
            full == [terms |-> "agreed", maker |-> Address(Maker), visibility |-> "public",
                     allowedTaker |-> Null, prelock |-> Null]
            mt == capabilityCommitment("Maker", "makerToken")
            unsigned == [issuedAt |-> 0, expiresAt |-> ORDER_LIFETIME, nonce |-> Nonce("order"),
                         makerTokenCommitment |-> mt, shareTokenCommitment |-> Zero]
<1>1. ListedWell(doc) /\ ListedPlain(doc) /\ HeadlessDoc(doc)
  BY HeadlessLists
<1>2. MIN_LIFETIME <= ORDER_LIFETIME
  <2>1. doc # Null /\ c.listing = "public"
    BY ListingAssumption, HandshakeAssumption
  <2>2. doc = T!signOrderV1(Address(Maker), OrderBody(c), "makerToken", Nonce("order"), 0, Null)
    BY DEF OrderDoc
  <2>3. OrderBody(c) = [terms |-> "agreed", maker |-> Wallet(Maker), visibility |-> "public",
                        allowedTaker |-> Null, prelock |-> Null]
    BY <2>1 DEF OrderBody
  <2>4. T!normalizeOrderBody(OrderBody(c)).prelock = Null
    <3>1. T!normalizeOrderBody(OrderBody(c))
            = [terms |-> "agreed", maker |-> T!Lower(Wallet(Maker)), visibility |-> "public",
               allowedTaker |-> Null, prelock |-> Null]
      BY <2>3, TakerNormalizes
    <3>. QED  BY <3>1
  <2>. HIDE DEF doc
  <2>5. T!OrderLifetimeOk(T!normalizeOrderBody(OrderBody(c)), 0, 0 + ORDER_LIFETIME)
    BY <2>1, <2>2, <2>4 DEF T!signOrderV1
  <2>. QED  BY <2>5, LimitsNat DEF T!OrderLifetimeOk
<1>. HIDE DEF doc
<1>3. doc.order = full /\ \E signature : doc.auth = SignedAuth(unsigned, signature)
  BY <1>1 DEF HeadlessDoc
<1>4. /\ full.prelock = Null /\ full.visibility = "public" /\ full.allowedTaker = Null
      /\ full.terms = "agreed"
  OBVIOUS
<1>5. mt # Zero /\ IsText(mt) /\ IsText(Zero)
  BY DEF capabilityCommitment, Zero, Text, IsText
<1>. HIDE DEF full, mt
<1>6. /\ doc.auth.issuedAt = 0 /\ doc.auth.expiresAt = ORDER_LIFETIME
      /\ doc.auth.makerTokenCommitment = mt /\ doc.auth.shareTokenCommitment = Zero
  BY <1>3, OrderAuthFields
<1>7. doc.auth = [x \in DOMAIN doc.auth |-> doc.auth[x]]
  <2>. HIDE DEF unsigned
  <2>. QED  BY <1>3 DEF SignedAuth
<1>8. ListedTimes(doc)
  BY <1>2, <1>3, <1>4, <1>5, <1>6, LimitsNat DEF ListedTimes
<1>. QED  BY <1>1, <1>3, <1>4, <1>5, <1>6, <1>7, <1>8, TimesSound DEF ListedSound, doc

OrderSound == ListedSound(order) /\ ListedPlain(order)

LEMMA OrderSoundHolds ==
    Spec => []OrderSound
<1>1. Init => OrderSound
  <2>. SUFFICES ASSUME Init PROVE OrderSound
    OBVIOUS
  <2>. DEFINE doc == OrderDoc(cast)
  <2>1. ListedSound(doc) /\ ListedPlain(doc)
    BY BrowserSound, HeadlessSound, BrowserLists, HeadlessLists DEF Init
  <2>2. order.order = doc.order /\ order.auth = doc.auth
    BY DEF Init
  <2>. HIDE DEF doc
  <2>. QED  BY <2>1, <2>2 DEF OrderSound, ListedSound, ListedPlain
<1>2. IInv /\ OrderSound /\ [Next]_vars => OrderSound'
  <2>. SUFFICES ASSUME IInv, OrderSound, [Next]_vars PROVE OrderSound'
    OBVIOUS
  <2>1. order' = order
    <3>1. CASE UNCHANGED vars
      BY <3>1 DEF vars
    <3>. QED  BY <3>1, NextKept DEF Kept
  <2>. QED  BY <2>1 DEF OrderSound, ListedSound, ListedPlain
<1>. QED  BY <1>1, <1>2, IInvHolds, PTL DEF Spec

-----------------------------------------------------------------------------
(* The order, read back from a row of the book.                            *)

\* A row that shows the order as it was signed.
Shows(row) ==
    /\ row.id = deriveOrderV1Id(order.order.maker, order.auth.nonce)
    /\ row.terms = order.order.terms /\ row.maker = order.order.maker
    /\ row.visibility = order.order.visibility /\ row.allowedTaker = order.order.allowedTaker
    /\ row.prelocked = (prelock # Null)
    /\ row.makerAuth = order.auth /\ row.orderDigest = order.digest
    /\ prelock # Null => row.hashlock = prelock.hashlock /\ row.initiatorTimeout = prelock.t1

\* What the signature of the order and its limits come to.
LEMMA SoundParts ==
    ASSUME NullApart, OrderSigned, OrderSound
    PROVE  LET body == order.order  auth == order.auth IN
           /\ body = [f \in {"terms", "maker", "visibility", "allowedTaker", "prelock"} |-> body[f]]
           /\ auth # Null /\ body.terms = "agreed"
           /\ body.maker = Address(Maker) /\ Canonical(body.maker)
           /\ body.visibility \in {"public", "private"}
           /\ body.allowedTaker # Null => body.visibility = "private" /\ Canonical(body.allowedTaker)
           /\ auth.issuedAt = 0 /\ auth.expiresAt \in Int /\ auth.expiresAt > 0
           /\ auth.expiresAt <= ORDER_LIFETIME
           /\ IsText(auth.nonce) /\ Canonical(auth.nonce)
           /\ IsText(auth.makerTokenCommitment) /\ Canonical(auth.makerTokenCommitment)
           /\ IsText(auth.shareTokenCommitment) /\ Canonical(auth.shareTokenCommitment)
           /\ auth.makerTokenCommitment # Zero
           /\ (body.visibility = "public") = (auth.shareTokenCommitment = Zero)
           /\ prelock # Null =>
                 /\ prelock = [hashlock |-> prelock.hashlock, t1 |-> prelock.t1]
                 /\ prelock.hashlock # Null /\ prelock.t1 # Null
                 /\ IsText(prelock.hashlock) /\ Canonical(prelock.hashlock)
                 /\ prelock.t1 \in MIN_LISTING .. MAX_LISTING /\ auth.expiresAt <= prelock.t1
           /\ order.digest = S!orderDigest(body, auth) /\ order.digest # Null
           /\ verifyMessageForSigner(body.maker, auth.signature, order.digest)
<1>. DEFINE body == order.order
            auth == order.auth
<1>1. /\ ListedPlain(order) /\ auth = [x \in DOMAIN auth |-> auth[x]] /\ body.terms = "agreed"
      /\ IsText(auth.makerTokenCommitment) /\ IsText(auth.shareTokenCommitment)
      /\ S!verifyOrderV1(body, auth, auth.issuedAt, FALSE)
  BY DEF OrderSound, ListedSound
<1>2. auth # Null
  BY <1>1, ObjectIs
<1>3. /\ S!canonicalOrderBody(body) /\ auth.expiresAt > auth.issuedAt
      /\ auth.expiresAt - auth.issuedAt <= ORDER_LIFETIME
      /\ S!PrelockWindow(body, auth) /\ auth.makerTokenCommitment # S!Zero
      /\ (body.visibility = "public") = (auth.shareTokenCommitment = S!Zero)
  BY <1>1 DEF S!verifyOrderV1
<1>4. S!Zero = Zero /\ \A t : S!Canonical(t) <=> Canonical(t)
  BY DEF S!Zero, Zero, S!Text, Text, S!Canonical, Canonical
<1>5. /\ body.visibility \in {"public", "private"}
      /\ body.allowedTaker # Null => body.visibility = "private" /\ Canonical(body.allowedTaker)
  BY <1>3, <1>4 DEF S!canonicalOrderBody
<1>6. auth.issuedAt = 0 /\ auth.expiresAt \in Int /\ auth.expiresAt > 0 /\ auth.expiresAt <= ORDER_LIFETIME
  BY <1>1, <1>3, LimitsNat DEF ListedPlain, OrderSigned
<1>7. prelock # Null =>
         /\ prelock = [hashlock |-> prelock.hashlock, t1 |-> prelock.t1]
         /\ prelock.hashlock # Null /\ prelock.t1 # Null
         /\ IsText(prelock.hashlock) /\ Canonical(prelock.hashlock)
         /\ prelock.t1 \in MIN_LISTING .. MAX_LISTING /\ auth.expiresAt <= prelock.t1
  <2>. SUFFICES ASSUME prelock # Null PROVE
         /\ prelock = [hashlock |-> prelock.hashlock, t1 |-> prelock.t1]
         /\ prelock.hashlock # Null /\ prelock.t1 # Null
         /\ IsText(prelock.hashlock) /\ Canonical(prelock.hashlock)
         /\ prelock.t1 \in MIN_LISTING .. MAX_LISTING /\ auth.expiresAt <= prelock.t1
    OBVIOUS
  <2>1. /\ prelock = [hashlock |-> prelock.hashlock, t1 |-> prelock.t1]
        /\ Canonical(prelock.hashlock) /\ IsText(prelock.hashlock) /\ prelock.t1 \in Int
    BY <1>1 DEF ListedPlain, OrderSigned, prelock
  <2>2. prelock.hashlock # Null
    <3>1. \A v, c : Text(v, c) # Null
      <4>. SUFFICES ASSUME NEW v, NEW c PROVE Text(v, c) # Null
        OBVIOUS
      <4>1. Text(v, c) = [x \in DOMAIN Text(v, c) |-> Text(v, c)[x]]
        BY DEF Text
      <4>. QED  BY <4>1, ObjectIs
    <3>. QED  BY <2>1, <3>1 DEF IsText
  <2>3. prelock.t1 # Null
    BY <2>1 DEF NullApart
  <2>4. prelock.t1 - auth.issuedAt \in MIN_LISTING .. MAX_LISTING /\ auth.expiresAt <= prelock.t1
    BY <1>3 DEF S!PrelockWindow, prelock
  <2>. QED  BY <1>6, <2>1, <2>2, <2>3, <2>4
<1>8. verifyMessageForSigner(body.maker, auth.signature, order.digest)
  BY DEF OrderSigned, verifyMessageForSigner
<1>. HIDE DEF body, auth
<1>. QED  BY <1>1, <1>2, <1>3, <1>4, <1>5, <1>6, <1>7, <1>8
     DEF OrderSigned, ListedPlain, Canonical, Address, Text, body, auth

LEMMA ShownPrelock ==
    ASSUME NullApart, OrderSigned, OrderSound, NEW row, Shows(row)
    PROVE  T!PrelockOf(row) = prelock /\ (row.prelocked => T!PrelockOf(row) # Null)
BY SoundParts DEF Shows, T!PrelockOf

LEMMA ShownWindow ==
    ASSUME NullApart, OrderSigned, OrderSound, NEW row, Shows(row), row.prelocked
    PROVE  /\ row.hashlock # Null /\ Canonical(row.hashlock) /\ row.initiatorTimeout # Null
           /\ row.initiatorTimeout - order.auth.issuedAt \in MIN_LISTING .. MAX_LISTING
           /\ order.auth.expiresAt <= row.initiatorTimeout
<1>1. prelock # Null /\ row.hashlock = prelock.hashlock /\ row.initiatorTimeout = prelock.t1
  BY DEF Shows
<1>2. /\ prelock.hashlock # Null /\ Canonical(prelock.hashlock) /\ prelock.t1 # Null
      /\ prelock.t1 \in MIN_LISTING .. MAX_LISTING /\ order.auth.expiresAt <= prelock.t1
      /\ order.auth.issuedAt = 0
  BY <1>1, SoundParts
<1>3. prelock.t1 - order.auth.issuedAt = prelock.t1
  BY <1>2, LimitsNat
<1>. QED  BY <1>1, <1>2, <1>3

LEMMA ShownBody ==
    ASSUME NullApart, OrderSigned, OrderSound, NEW row, Shows(row)
    PROVE  B!orderBodyFromView(row) = order.order /\ T!orderBodyFromRow(row) = order.order
<1>. DEFINE body == order.order
            lock == body.prelock
<1>1. /\ body = [f \in {"terms", "maker", "visibility", "allowedTaker", "prelock"} |-> body[f]]
      /\ lock # Null => lock = [hashlock |-> lock.hashlock, t1 |-> lock.t1]
  BY SoundParts DEF prelock
<1>2. body = [terms |-> body.terms, maker |-> body.maker, visibility |-> body.visibility,
              allowedTaker |-> body.allowedTaker, prelock |-> lock]
  <2>. HIDE DEF body
  <2>. QED  BY <1>1
<1>3. B!orderBodyFromView(row)
        = [terms |-> body.terms, maker |-> body.maker, visibility |-> body.visibility,
           allowedTaker |-> body.allowedTaker, prelock |-> lock]
  BY <1>1 DEF B!orderBodyFromView, Shows, prelock
<1>4. T!orderBodyFromRow(row)
        = [terms |-> body.terms, maker |-> body.maker, visibility |-> body.visibility,
           allowedTaker |-> body.allowedTaker, prelock |-> lock]
  BY ShownPrelock DEF T!orderBodyFromRow, Shows, prelock
<1>. QED  BY <1>2, <1>3, <1>4

LEMMA BrowserTakesOrder ==
    ASSUME NullApart, OrderSigned, OrderSound, NEW row, Shows(row), NEW n \in Int,
           order.auth.issuedAt <= n, n < order.auth.expiresAt
    PROVE  B!verifyOrderV1Auth(row, n, FALSE) /\ B!verifiedOrderDigest(row, n, FALSE) = order.digest
<1>. DEFINE auth == row.makerAuth
<1>1. auth = order.auth
  BY DEF Shows
<1>2. B!Zero = Zero /\ (\A t : B!Canonical(t) <=> Canonical(t))
      /\ \A m, k : B!deriveOrderV1Id(m, k) = deriveOrderV1Id(m, k)
  BY DEF B!Zero, Zero, B!Text, Text, B!Canonical, Canonical, B!deriveOrderV1Id, deriveOrderV1Id
<1>3. B!OrderAuthShape(row, n, FALSE)
  <2>1. auth.issuedAt <= n + CLOCK_SKEW
    BY <1>1, SoundParts, LimitsNat
  <2>. QED  BY <1>1, <1>2, <2>1, SoundParts DEF B!OrderAuthShape, Shows
<1>4. (row.visibility = "private") = (auth.shareTokenCommitment # Zero)
  BY <1>1, SoundParts DEF Shows
<1>5. row.allowedTaker # Null => Canonical(row.allowedTaker) /\ row.visibility # "public"
  BY SoundParts DEF Shows
<1>6. row.prelocked =>
         /\ row.hashlock # Null /\ Canonical(row.hashlock) /\ row.initiatorTimeout # Null
         /\ row.initiatorTimeout - auth.issuedAt \in MIN_LISTING .. MAX_LISTING
         /\ auth.expiresAt <= row.initiatorTimeout
  BY <1>1, ShownWindow
<1>7. B!orderDigest(B!orderBodyFromView(row), auth) = order.digest
  BY <1>1, ShownBody, SoundParts, TermsAgree
<1>8. B!protocolProofIsValid(row.maker, auth, B!orderDigest(B!orderBodyFromView(row), auth))
  BY <1>1, <1>7, SoundParts, WireAgrees DEF B!protocolProofIsValid, Shows
<1>9. auth # Null
  BY <1>1, SoundParts
<1>. HIDE DEF auth
<1>10. B!verifyOrderV1Auth(row, n, FALSE)
  BY <1>2, <1>3, <1>4, <1>5, <1>6, <1>8, <1>9 DEF B!verifyOrderV1Auth, auth
<1>. QED  BY <1>7, <1>10 DEF B!verifiedOrderDigest, auth

LEMMA TakerBody ==
    ASSUME NullApart, OrderSigned, OrderSound, order.order.visibility = "public"
    PROVE  /\ T!normalizeOrderBody(order.order) = order.order
           /\ T!computeOrderDigest(order.order, order.auth) = order.digest
<1>. DEFINE body == order.order
            auth == order.auth
            lock == body.prelock
            low == T!normalizeOrderBody(body)
<1>1. /\ body = [f \in {"terms", "maker", "visibility", "allowedTaker", "prelock"} |-> body[f]]
      /\ body.allowedTaker = Null /\ body.maker = Address(Maker)
      /\ lock # Null => /\ lock = [hashlock |-> lock.hashlock, t1 |-> lock.t1]
                        /\ IsText(lock.hashlock) /\ Canonical(lock.hashlock)
  BY SoundParts DEF prelock
<1>2. T!Lower(body.maker) = body.maker
  BY <1>1 DEF T!Lower, T!Text, Address, Text
<1>3. lock # Null => [hashlock |-> T!Lower(lock.hashlock), t1 |-> lock.t1] = lock
  BY <1>1, LowerOfCanonical
<1>4. low = body
  <2>1. \A b \in [{"terms", "maker", "visibility", "allowedTaker", "prelock"} -> {body[f] : f \in {"terms", "maker", "visibility", "allowedTaker", "prelock"}}] :
          b.maker = T!Lower(b.maker) /\ b.allowedTaker = Null
          /\ (b.prelock # Null => [hashlock |-> T!Lower(b.prelock.hashlock), t1 |-> b.prelock.t1] = b.prelock)
          => T!normalizeOrderBody(b) = b
    BY DEF T!normalizeOrderBody
  <2>2. body \in [{"terms", "maker", "visibility", "allowedTaker", "prelock"} -> {body[f] : f \in {"terms", "maker", "visibility", "allowedTaker", "prelock"}}]
    <3>. HIDE DEF body
    <3>. QED  BY <1>1
  <2>. HIDE DEF body
  <2>. QED  BY <1>1, <1>2, <1>3, <2>1, <2>2
<1>5. /\ T!Lower(auth.nonce) = auth.nonce
      /\ T!Lower(auth.makerTokenCommitment) = auth.makerTokenCommitment
      /\ T!Lower(auth.shareTokenCommitment) = auth.shareTokenCommitment
  BY SoundParts, LowerOfCanonical
<1>6. T!orderMessage(body, auth) = S!SignedOrderTerms(body, auth)
  <2>. HIDE DEF body, auth
  <2>. QED  BY <1>5 DEF T!orderMessage, S!SignedOrderTerms, T!Zero, S!Zero, T!Absent, S!Absent, T!Text, S!Text
<1>7. T!computeOrderDigest(body, auth) = S!orderDigest(body, auth)
  BY <1>4, <1>6, WireAgrees DEF T!computeOrderDigest, T!buildOrderV1Payload, S!orderDigest,
     S!buildOrderV1Payload
<1>. QED  BY <1>4, <1>7, SoundParts

LEMMA TakerTakesOrder ==
    ASSUME NullApart, OrderSigned, OrderSound, order.order.visibility = "public",
           NEW row, Shows(row), ~row.equivocated, NEW n \in Int, order.auth.issuedAt <= n
    PROVE  /\ T!verifyMakerOrder(row, n, TRUE) # Null
           /\ T!verifyMakerOrder(row, n, TRUE).orderDigest = order.digest
<1>. DEFINE auth == row.makerAuth
            body == T!orderBodyFromRow(row)
            digest == T!computeOrderDigest(body, auth)
            out == [signed |-> [order |-> body, auth |-> auth], orderDigest |-> digest]
<1>1. auth = order.auth /\ body = order.order
  BY ShownBody DEF Shows
<1>2. digest = order.digest
  BY <1>1, TakerBody
<1>3. T!Zero = Zero /\ \A m, k : T!deriveOrderV1Id(m, k) = deriveOrderV1Id(m, k)
  BY DEF T!Zero, Zero, T!Text, Text, T!deriveOrderV1Id, deriveOrderV1Id
<1>4. /\ auth # Null /\ auth.expiresAt > auth.issuedAt /\ auth.expiresAt - auth.issuedAt <= ORDER_LIFETIME
      /\ auth.issuedAt <= n + CLOCK_SKEW /\ auth.makerTokenCommitment # Zero
  BY <1>1, SoundParts, LimitsNat
<1>5. /\ row.visibility = "public" /\ auth.shareTokenCommitment = Zero /\ row.allowedTaker = Null
      /\ row.terms # "nothing"
  BY <1>1, SoundParts DEF Shows
<1>6. row.id = deriveOrderV1Id(row.maker, auth.nonce)
  BY <1>1 DEF Shows
<1>7. row.prelocked =>
         /\ row.hashlock # Null /\ row.initiatorTimeout # Null
         /\ row.initiatorTimeout - auth.issuedAt \in MIN_LISTING .. MAX_LISTING
         /\ auth.expiresAt <= row.initiatorTimeout
  BY <1>1, ShownWindow
<1>8. row.orderDigest = digest
  BY <1>2 DEF Shows
<1>9. T!verifyOfficialV1Proof(row.maker, auth, digest)
  BY <1>1, <1>2, SoundParts, WireAgrees DEF T!verifyOfficialV1Proof, Shows
<1>. HIDE DEF auth, body, digest
<1>10. T!verifyMakerOrder(row, n, TRUE) = out
  BY <1>3, <1>4, <1>5, <1>6, <1>7, <1>8, <1>9 DEF T!verifyMakerOrder, auth, body, digest
<1>11. out = [x \in DOMAIN out |-> out[x]] /\ out.orderDigest = digest
  OBVIOUS
<1>. HIDE DEF out
<1>. QED  BY <1>2, <1>10, <1>11, ObjectIs

-----------------------------------------------------------------------------
(* The proposal, and the fill that answers it.                             *)

\* A proposal that may be answered at time n.
IntentFits(doc, n) ==
    LET intent == doc.intent  auth == doc.auth IN
    /\ IntentTyped(doc)
    /\ Canonical(intent.taker) /\ Canonical(intent.releaseCommitment) /\ Canonical(auth.nonce)
    /\ intent.orderDigest = order.digest
    /\ auth.issuedAt >= 0 /\ auth.issuedAt <= n /\ n < auth.expiresAt
    /\ auth.expiresAt - auth.issuedAt <= INTENT_LIFETIME
    /\ auth.issuedAt >= order.auth.issuedAt /\ auth.expiresAt <= order.auth.expiresAt
    /\ order.order.allowedTaker \in {Null, intent.taker}
    /\ verifyMessageForSigner(intent.taker, auth.signature, S!intentDigest(intent, auth))

LEMMA BrowserFindsFit ==
    ASSUME OrderSigned, NEW i, IsIntent(i), NEW row, OfOrder(row),
           row.allowedTaker = order.order.allowedTaker, NEW n \in Int,
           i.doc.auth.issuedAt <= n,
           B!verifyFillIntentV1(i.doc.intent, i.doc.auth, row, n, FALSE)
    PROVE  IntentFits(i.doc, n)
<1>. DEFINE intent == i.doc.intent
            auth == i.doc.auth
<1>1. \A t : B!Canonical(t) <=> Canonical(t)
  BY DEF B!Canonical, Canonical
<1>2. IntentTyped(i.doc)
  BY IntentShape DEF IntentShaped
<1>3. row.makerAuth = order.auth
  BY DEF OfOrder
<1>4. B!verifyOrderV1Auth(row, n, FALSE) \/ B!verifiedOrderDigest(row, n, FALSE) = Null
  BY DEF B!verifiedOrderDigest
<1>5. /\ B!verifiedOrderDigest(row, n, FALSE) # Null
      /\ B!fillIntentBodyIsCanonical(intent) /\ B!authShapeIsValid(auth, n, 1, INTENT_LIFETIME, FALSE)
      /\ intent.orderDigest = B!verifiedOrderDigest(row, n, FALSE)
      /\ auth.issuedAt >= order.auth.issuedAt /\ auth.expiresAt <= order.auth.expiresAt
      /\ B!privateTakerMatches(row, intent)
      /\ B!protocolProofIsValid(intent.taker, auth, B!intentDigest(intent, auth))
  BY <1>3 DEF B!verifyFillIntentV1
<1>6. intent.orderDigest = order.digest
  BY <1>4, <1>5, BrowserOrder
<1>7. Canonical(intent.taker) /\ Canonical(intent.releaseCommitment) /\ Canonical(auth.nonce)
  BY <1>1, <1>5 DEF B!fillIntentBodyIsCanonical, B!authShapeIsValid
<1>8. /\ auth.issuedAt >= 0 /\ n < auth.expiresAt /\ auth.expiresAt - auth.issuedAt <= INTENT_LIFETIME
  BY <1>2, <1>5, LimitsNat DEF B!authShapeIsValid, IntentTyped
<1>9. order.order.allowedTaker \in {Null, intent.taker}
  BY <1>5 DEF B!privateTakerMatches
<1>10. verifyMessageForSigner(intent.taker, auth.signature, S!intentDigest(intent, auth))
  BY <1>5, WireAgrees, TermsAgree DEF B!protocolProofIsValid
<1>. QED  BY <1>2, <1>5, <1>6, <1>7, <1>8, <1>9, <1>10 DEF IntentFits

LEMMA HeadlessFindsFit ==
    ASSUME OrderSigned, order.order.allowedTaker = Null, NEW i, IsIntent(i), NEW n \in Int, i.at <= n,
           n < i.doc.auth.expiresAt,
           T!verifyFillIntentV1(i.doc.intent, i.doc.auth, order.digest, n, order.auth)
    PROVE  IntentFits(i.doc, n)
<1>. DEFINE intent == i.doc.intent
            auth == i.doc.auth
<1>1. IntentTyped(i.doc) /\ auth.issuedAt = i.at
  BY IntentShape, IntentParts DEF IntentShaped
<1>2. /\ T!fillIntentBodyIsCanonical(intent) /\ T!protocolAuthIsCanonical(auth, n)
      /\ intent.orderDigest = order.digest
      /\ auth.issuedAt >= order.auth.issuedAt /\ auth.expiresAt <= order.auth.expiresAt
      /\ T!verifyOfficialV1Proof(intent.taker, auth, T!buildFillIntentV1Payload(intent, auth))
  BY DEF T!verifyFillIntentV1
<1>3. /\ Canonical(intent.taker) /\ Canonical(intent.releaseCommitment) /\ Canonical(auth.nonce)
      /\ auth.issuedAt >= 0 /\ auth.expiresAt > auth.issuedAt
      /\ auth.expiresAt - auth.issuedAt <= INTENT_LIFETIME
  BY <1>2, MakerWire DEF T!fillIntentBodyIsCanonical, T!protocolAuthIsCanonical, T!Windowed
<1>4. T!buildFillIntentV1Payload(intent, auth) = S!intentDigest(intent, auth)
  <2>. HIDE DEF intent, auth
  <2>1. /\ IsText(intent.taker) /\ IsText(intent.releaseCommitment) /\ IsText(auth.nonce)
        /\ auth.issuedAt \in Int /\ auth.expiresAt \in Int
    BY <1>1 DEF IntentTyped, intent, auth
  <2>. QED  BY <1>3, <2>1, TakerIntentBytes DEF T!computeFillIntentDigest
<1>5. verifyMessageForSigner(intent.taker, auth.signature, S!intentDigest(intent, auth))
  BY <1>2, <1>4, WireAgrees DEF T!verifyOfficialV1Proof
<1>. QED  BY <1>1, <1>2, <1>3, <1>5 DEF IntentFits

LEMMA BookTakesIntent ==
    ASSUME NullApart, OrderSigned, OrderSound, NEW doc, NEW n \in Int, IntentFits(doc, n)
    PROVE  S!verifyFillIntentV1(doc.intent, doc.auth, order, n, FALSE)
<1>. DEFINE intent == doc.intent
            auth == doc.auth
<1>1. \A t : S!Canonical(t) <=> Canonical(t)
  BY DEF S!Canonical, Canonical
<1>2. /\ auth.issuedAt \in Int /\ auth.expiresAt \in Int
      /\ order.auth.issuedAt \in Int /\ order.auth.expiresAt \in Int
  BY DEF IntentFits, IntentTyped, OrderSigned
<1>3. S!canonicalFillIntentBody(intent) /\ S!parseAuth(auth)
  BY <1>1, <1>2 DEF S!canonicalFillIntentBody, S!parseAuth, IntentFits
<1>4. S!assertOrderValidity(order.auth, auth.issuedAt, n, FALSE)
  BY <1>2 DEF S!assertOrderValidity, IntentFits
<1>5. S!assertInitialAcceptance(auth, n, FALSE)
  BY <1>2, LimitsNat DEF S!assertInitialAcceptance, IntentFits
<1>6. S!assertAllowedTaker(order.order, intent.taker)
  BY DEF S!assertAllowedTaker, IntentFits
<1>7. S!verifyProof(intent.taker, auth, S!intentDigest(intent, auth))
  BY WireAgrees DEF S!verifyProof, IntentFits
<1>8. /\ intent.orderDigest = S!orderDigest(order.order, order.auth)
      /\ auth.expiresAt > auth.issuedAt /\ auth.expiresAt - auth.issuedAt <= INTENT_LIFETIME
      /\ auth.expiresAt <= order.auth.expiresAt
  BY <1>2 DEF IntentFits, OrderSigned
<1>. QED  BY <1>3, <1>4, <1>5, <1>6, <1>7, <1>8 DEF S!verifyFillIntentV1

LEMMA BrowserTakesIntent ==
    ASSUME NullApart, OrderSigned, OrderSound, NEW row, Shows(row),
           NEW doc, NEW n \in Int, IntentFits(doc, n)
    PROVE  B!verifyFillIntentV1(doc.intent, doc.auth, row, n, FALSE)
<1>. DEFINE intent == doc.intent
            auth == doc.auth
<1>1. \A t : B!Canonical(t) <=> Canonical(t)
  BY DEF B!Canonical, Canonical
<1>2. /\ auth.issuedAt \in Int /\ auth.expiresAt \in Int
      /\ order.auth.issuedAt \in Int /\ order.auth.expiresAt \in Int
  BY DEF IntentFits, IntentTyped, OrderSigned
<1>3. B!verifiedOrderDigest(row, n, FALSE) = order.digest /\ order.digest # Null
  <2>1. order.auth.issuedAt <= n /\ n < order.auth.expiresAt
    BY <1>2 DEF IntentFits
  <2>. QED  BY <2>1, BrowserTakesOrder DEF OrderSigned
<1>4. B!fillIntentBodyIsCanonical(intent)
  BY <1>1 DEF B!fillIntentBodyIsCanonical, IntentFits
<1>5. B!authShapeIsValid(auth, n, 1, INTENT_LIFETIME, FALSE)
  BY <1>1, <1>2, LimitsNat DEF B!authShapeIsValid, IntentFits
<1>6. /\ row.makerAuth = order.auth
      /\ B!privateTakerMatches(row, intent)
  BY DEF B!privateTakerMatches, IntentFits, Shows
<1>7. B!protocolProofIsValid(intent.taker, auth, B!intentDigest(intent, auth))
  BY WireAgrees, TermsAgree DEF B!protocolProofIsValid, IntentFits
<1>8. /\ intent.orderDigest = order.digest
      /\ auth.issuedAt >= order.auth.issuedAt /\ auth.expiresAt <= order.auth.expiresAt
  BY DEF IntentFits
<1>. QED  BY <1>3, <1>4, <1>5, <1>6, <1>7, <1>8 DEF B!verifyFillIntentV1

\* The record of a proposal, in the words of either taker.
LEMMA TakerTakesIntent ==
    ASSUME OrderSigned, NEW doc, NEW n \in Int, IntentFits(doc, n)
    PROVE  /\ T!verifyOwnIntent(doc, order.digest, order.auth, n, TRUE)
           /\ T!computeFillIntentDigest(doc.intent, doc.auth) = S!intentDigest(doc.intent, doc.auth)
<1>. DEFINE intent == doc.intent
            auth == doc.auth
<1>1. /\ auth.issuedAt \in Int /\ auth.expiresAt \in Int /\ auth.expiresAt > auth.issuedAt
      /\ IsText(intent.taker) /\ IsText(intent.releaseCommitment) /\ IsText(auth.nonce)
      /\ Canonical(intent.taker) /\ Canonical(intent.releaseCommitment) /\ Canonical(auth.nonce)
  BY DEF IntentFits, IntentTyped
<1>2. T!computeFillIntentDigest(intent, auth) = S!intentDigest(intent, auth)
  <2>. HIDE DEF intent, auth
  <2>. QED  BY <1>1, TakerIntentBytes
<1>3. T!verifyOfficialV1Proof(intent.taker, auth, T!buildFillIntentV1Payload(intent, auth))
  BY <1>2, WireAgrees DEF T!verifyOfficialV1Proof, T!computeFillIntentDigest, IntentFits
<1>4. auth.issuedAt <= n + CLOCK_SKEW
  BY <1>1, LimitsNat DEF IntentFits
<1>5. /\ intent.orderDigest = order.digest /\ auth.expiresAt - auth.issuedAt <= INTENT_LIFETIME
      /\ auth.issuedAt >= order.auth.issuedAt /\ auth.expiresAt <= order.auth.expiresAt
  BY DEF IntentFits
<1>. QED  BY <1>1, <1>2, <1>3, <1>4, <1>5 DEF T!verifyOwnIntent

\* The times of a fill, as every verifier wants them.
FillTimes(fill, auth) ==
    LET initiatorWindow == fill.initiatorTimeout - auth.issuedAt
        responderWindow == fill.responderTimeout - auth.issuedAt
    IN /\ auth.issuedAt >= 0
       /\ auth.expiresAt - auth.issuedAt \in MIN_RESPONSE .. MAX_RESPONSE
       /\ auth.expiresAt <= order.auth.expiresAt
       /\ fill.responderTimeout - auth.expiresAt > RESPONDER_RUNWAY
       /\ responderWindow > 0 /\ responderWindow <= RESPONDER_WINDOW
       /\ initiatorWindow >= responderWindow /\ responderWindow <= initiatorWindow \div 2
       /\ prelock = Null => initiatorWindow <= INITIATOR_WINDOW
       /\ prelock # Null => initiatorWindow >= PRELOCK_RUNWAY

\* The fill answers the proposal and keeps the prelock.
FillAnswers(fill, chosen) ==
    /\ Canonical(fill.taker) /\ Canonical(fill.releaseCommitment) /\ Canonical(fill.hashlock)
    /\ fill.hashlock # Zero
    /\ fill.orderDigest = order.digest
    /\ fill.intentDigest = S!intentDigest(chosen.intent, chosen.auth)
    /\ fill.taker = chosen.intent.taker /\ fill.releaseCommitment = chosen.intent.releaseCommitment
    /\ prelock # Null => fill.hashlock = prelock.hashlock /\ fill.initiatorTimeout = prelock.t1

FillProved(fill, auth) ==
    /\ auth = [x \in DOMAIN auth |-> auth[x]] /\ Canonical(auth.nonce)
    /\ verifyMessageForSigner(order.order.maker, auth.signature, S!fillDigest(fill, order.auth, auth))

\* A fill that every verifier takes at the time it was signed.
FillFits(f) ==
    /\ IsIntent(f.for) /\ IntentFits(f.for.doc, f.issuedAt)
    /\ f.doc = [fill |-> f.doc.fill, auth |-> f.doc.auth] /\ f.doc.auth.issuedAt = f.issuedAt
    /\ f = [x \in DOMAIN f |-> f[x]]
    /\ FillTyped(f.doc.fill, f.doc.auth) /\ FillTimes(f.doc.fill, f.doc.auth)
    /\ FillAnswers(f.doc.fill, f.for.doc) /\ FillProved(f.doc.fill, f.doc.auth)

LEMMA TimesInts ==
    ASSUME NEW fill, NEW auth, FillTyped(fill, auth), FillTimes(fill, auth)
    PROVE  /\ fill.initiatorTimeout >= 0 /\ fill.responderTimeout >= 0
           /\ auth.expiresAt >= 0 /\ auth.issuedAt < auth.expiresAt
           /\ auth.issuedAt <= auth.issuedAt + CLOCK_SKEW
<1>1. MIN_RESPONSE > 0
  BY WireAssumption
<1>. QED  BY <1>1, LimitsNat DEF FillTyped, FillTimes

LEMMA BookTakesFill ==
    ASSUME NullApart, OrderSigned, OrderSound, NEW f, FillFits(f)
    PROVE  BookAccepts(f)
<1>. DEFINE fill == f.doc.fill
            auth == f.doc.auth
            chosen == f.for.doc
            n == f.issuedAt
<1>1. /\ FillTyped(fill, auth) /\ FillTimes(fill, auth) /\ FillAnswers(fill, chosen)
      /\ FillProved(fill, auth) /\ IntentFits(chosen, n) /\ auth.issuedAt = n
  BY DEF FillFits
<1>2. n \in Int
  BY <1>1 DEF FillTyped
<1>3. S!verifyFillIntentV1(chosen.intent, chosen.auth, order, n, FALSE)
  <2>. HIDE DEF chosen, n
  <2>. QED  BY <1>1, <1>2, BookTakesIntent
<1>. HIDE DEF fill, auth, chosen, n
<1>4. S!Zero = Zero /\ \A t : S!Canonical(t) <=> Canonical(t)
  BY DEF S!Zero, Zero, S!Text, Text, S!Canonical, Canonical
<1>5. /\ fill.initiatorTimeout >= 0 /\ fill.responderTimeout >= 0
      /\ auth.expiresAt >= 0 /\ auth.issuedAt >= 0 /\ auth.issuedAt < auth.expiresAt
      /\ auth.issuedAt <= auth.issuedAt + CLOCK_SKEW
      /\ auth.issuedAt \in Int /\ auth.expiresAt \in Int
  BY <1>1, TimesInts DEF FillTimes, FillTyped
<1>6. S!canonicalFillBody(fill) /\ S!parseAuth(auth)
  BY <1>1, <1>4, <1>5 DEF S!canonicalFillBody, S!parseAuth, FillAnswers, FillProved
<1>7. /\ order.auth.issuedAt \in Int /\ order.auth.expiresAt \in Int
      /\ chosen.auth.issuedAt \in Int /\ chosen.auth.expiresAt \in Int
      /\ chosen.auth.issuedAt >= order.auth.issuedAt
      /\ chosen.auth.issuedAt <= n /\ n < chosen.auth.expiresAt
      /\ chosen.auth.expiresAt <= order.auth.expiresAt
      /\ chosen.intent.orderDigest = order.digest
  BY <1>1 DEF IntentFits, IntentTyped, OrderSigned
<1>8. S!assertOrderValidity(order.auth, auth.issuedAt, n, FALSE)
  BY <1>1, <1>2, <1>7 DEF S!assertOrderValidity
<1>9. S!assertInitialAcceptance(auth, n, FALSE)
  BY <1>1, <1>5 DEF S!assertInitialAcceptance
<1>10. S!FillBinds(fill, auth, order, chosen)
  BY <1>1, <1>7 DEF S!FillBinds, FillAnswers
<1>11. S!FillWindows(fill, auth, order.order)
  BY <1>1 DEF S!FillWindows, FillTimes, prelock
<1>12. S!FillMatchesPrelock(fill, auth, order.order, n, FALSE)
  BY <1>1 DEF S!FillMatchesPrelock, FillTimes, FillAnswers, prelock
<1>13. S!verifyProof(order.order.maker, auth, S!fillDigest(fill, order.auth, auth))
  BY <1>1, WireAgrees DEF S!verifyProof, FillProved
<1>14. /\ fill.orderDigest = S!orderDigest(order.order, order.auth)
       /\ auth.expiresAt - auth.issuedAt \in MIN_RESPONSE .. MAX_RESPONSE
       /\ auth.expiresAt <= order.auth.expiresAt
  BY <1>1 DEF FillAnswers, FillTimes, OrderSigned
<1>15. S!verifyFillV1(fill, auth, order, chosen, n, FALSE)
  BY <1>6, <1>8, <1>9, <1>10, <1>11, <1>12, <1>13, <1>14 DEF S!verifyFillV1
<1>. QED  BY <1>3, <1>15 DEF BookAccepts, fill, auth, chosen, n

\* The row the book would show of a fill.
RowFor(f) == [RowOf([NewBook EXCEPT !.fill = f]) EXCEPT !.status = "locking"]

LEMMA RowForParts ==
    ASSUME NEW f, f # Null, FillAnswers(f.doc.fill, f.for.doc)
    PROVE  LET row == RowFor(f)  doc == f.doc IN
           /\ Shows(row) /\ row.status = "locking"
           /\ ~row.released /\ ~row.equivocated /\ row.cancelProof = Null /\ row.cancelAuth = Null
           /\ row.fill = doc.fill /\ row.fillAuth = doc.auth /\ row.selectedIntent = f.for.doc
           /\ row.taker = doc.fill.taker /\ row.hashlock = doc.fill.hashlock
           /\ row.initiatorTimeout = doc.fill.initiatorTimeout
           /\ row.responderTimeout = doc.fill.responderTimeout
<1>. DEFINE b == [NewBook EXCEPT !.fill = f]
            s == status(b)
            doc == f.doc
            base == [OpenRow EXCEPT !.status = s, !.released = FALSE, !.equivocated = FALSE]
            with == [base EXCEPT !.fill = doc.fill, !.fillAuth = doc.auth,
                                 !.selectedIntent = f.for.doc,
                                 !.taker = doc.fill.taker, !.hashlock = doc.fill.hashlock,
                                 !.initiatorTimeout = doc.fill.initiatorTimeout,
                                 !.responderTimeout = doc.fill.responderTimeout]
            row == [with EXCEPT !.status = "locking"]
<1>1. b.fill = f /\ b.cancel = Null /\ b.released = FALSE /\ b.equivocated = FALSE
  BY DEF NewBook
<1>2. RowFor(f) = row
  <2>. HIDE DEF b
  <2>1. RowOf(b) = with
    BY <1>1 DEF RowOf
  <2>. QED  BY <2>1 DEF RowFor, b
<1>. HIDE DEF s, b
<1>3. /\ row.status = "locking"
      /\ ~row.released /\ ~row.equivocated /\ row.cancelProof = Null /\ row.cancelAuth = Null
      /\ row.fill = doc.fill /\ row.fillAuth = doc.auth /\ row.selectedIntent = f.for.doc
      /\ row.taker = doc.fill.taker /\ row.hashlock = doc.fill.hashlock
      /\ row.initiatorTimeout = doc.fill.initiatorTimeout
      /\ row.responderTimeout = doc.fill.responderTimeout
      /\ row.id = deriveOrderV1Id(order.order.maker, order.auth.nonce)
      /\ row.terms = order.order.terms /\ row.maker = order.order.maker
      /\ row.visibility = order.order.visibility /\ row.allowedTaker = order.order.allowedTaker
      /\ row.prelocked = (prelock # Null)
      /\ row.makerAuth = order.auth /\ row.orderDigest = order.digest
  BY DEF OpenRow, orderDigest
<1>. HIDE DEF row
<1>4. Shows(row)
  BY <1>3 DEF Shows, FillAnswers
<1>. QED  BY <1>2, <1>3, <1>4

LEMMA BrowserTakesFill ==
    ASSUME NullApart, OrderSigned, OrderSound, NEW f, FillFits(f), NEW row, Shows(row),
           row.hashlock = f.doc.fill.hashlock, row.initiatorTimeout = f.doc.fill.initiatorTimeout
    PROVE  B!verifyFillV1(f.doc.fill, f.doc.auth, row, f.for.doc, f.issuedAt, FALSE)
<1>. DEFINE fill == f.doc.fill
            auth == f.doc.auth
            chosen == f.for.doc
            n == f.issuedAt
<1>1. /\ FillTyped(fill, auth) /\ FillTimes(fill, auth) /\ FillAnswers(fill, chosen)
      /\ FillProved(fill, auth) /\ IntentFits(chosen, n) /\ auth.issuedAt = n
      /\ row.hashlock = fill.hashlock /\ row.initiatorTimeout = fill.initiatorTimeout
  BY DEF FillFits
<1>2. n \in Int
  BY <1>1 DEF FillTyped
<1>3. B!verifyFillIntentV1(chosen.intent, chosen.auth, row, n, FALSE)
  <2>. HIDE DEF chosen, n
  <2>. QED  BY <1>1, <1>2, BrowserTakesIntent
<1>. HIDE DEF fill, auth, chosen, n
<1>4. B!Zero = Zero /\ \A t : B!Canonical(t) <=> Canonical(t)
  BY DEF B!Zero, Zero, B!Text, Text, B!Canonical, Canonical
<1>5. /\ fill.initiatorTimeout >= 0 /\ fill.responderTimeout >= 0
      /\ auth.expiresAt >= 0 /\ auth.issuedAt >= 0 /\ auth.issuedAt < auth.expiresAt
      /\ auth.issuedAt <= auth.issuedAt + CLOCK_SKEW
      /\ auth.issuedAt \in Int /\ auth.expiresAt \in Int
  BY <1>1, TimesInts DEF FillTimes, FillTyped
<1>6. B!fillBodyIsCanonical(fill)
  BY <1>1, <1>4, <1>5 DEF B!fillBodyIsCanonical, FillAnswers
<1>7. B!authShapeIsValid(auth, n, MIN_RESPONSE, MAX_RESPONSE, FALSE)
  BY <1>1, <1>4, <1>5 DEF B!authShapeIsValid, FillProved, FillTimes
<1>8. /\ order.auth.issuedAt \in Int /\ order.auth.expiresAt \in Int
      /\ chosen.auth.issuedAt \in Int /\ chosen.auth.expiresAt \in Int
      /\ chosen.auth.issuedAt >= order.auth.issuedAt
      /\ chosen.auth.issuedAt <= n /\ n < chosen.auth.expiresAt
      /\ chosen.auth.expiresAt <= order.auth.expiresAt
  BY <1>1 DEF IntentFits, IntentTyped, OrderSigned
<1>9. B!verifiedOrderDigest(row, n, FALSE) = order.digest
  <2>1. order.auth.issuedAt <= n /\ n < order.auth.expiresAt
    BY <1>2, <1>8
  <2>. QED  BY <1>2, <2>1, BrowserTakesOrder
<1>10. row.makerAuth = order.auth /\ row.maker = order.order.maker /\ row.prelocked = (prelock # Null)
  BY DEF Shows
<1>11. B!FillTimeoutsOk(fill, auth, row, n, FALSE)
  BY <1>1, <1>10 DEF B!FillTimeoutsOk, FillTimes, FillAnswers
<1>12. B!protocolProofIsValid(row.maker, auth, B!fillDigest(fill, row.makerAuth, auth))
  BY <1>1, <1>10, WireAgrees, TermsAgree DEF B!protocolProofIsValid, FillProved
<1>13. /\ fill.orderDigest = order.digest
       /\ fill.intentDigest = B!intentDigest(chosen.intent, chosen.auth)
       /\ fill.taker = chosen.intent.taker /\ fill.releaseCommitment = chosen.intent.releaseCommitment
       /\ auth.expiresAt <= order.auth.expiresAt
  BY <1>1, TermsAgree DEF FillAnswers, FillTimes
<1>14. B!verifyFillV1(fill, auth, row, chosen, n, FALSE)
  BY <1>1, <1>3, <1>6, <1>7, <1>8, <1>9, <1>10, <1>11, <1>12, <1>13 DEF B!verifyFillV1
<1>. QED  BY <1>14 DEF fill, auth, chosen, n

LEMMA ScriptedTakesFill ==
    ASSUME NullApart, OrderSigned, OrderSound, order.order.visibility = "public",
           NEW f, FillFits(f), f # Null
    PROVE  T!verifyMakerFill(RowFor(f), RecoveryOf(f.for), f.issuedAt) = "fund"
<1>. DEFINE fill == f.doc.fill
            auth == f.doc.auth
            chosen == f.for.doc
            n == f.issuedAt
            row == RowFor(f)
            recovery == RecoveryOf(f.for)
<1>1. /\ FillTyped(fill, auth) /\ FillTimes(fill, auth) /\ FillAnswers(fill, chosen)
      /\ FillProved(fill, auth) /\ IntentFits(chosen, n) /\ auth.issuedAt = n
      /\ IsIntent(f.for)
  BY DEF FillFits
<1>2. /\ Shows(row) /\ row.status = "locking"
      /\ ~row.released /\ ~row.equivocated /\ row.cancelProof = Null /\ row.cancelAuth = Null
      /\ row.fill = fill /\ row.fillAuth = auth /\ row.selectedIntent = chosen
      /\ row.taker = fill.taker /\ row.hashlock = fill.hashlock
      /\ row.initiatorTimeout = fill.initiatorTimeout
      /\ row.responderTimeout = fill.responderTimeout
  BY <1>1, RowForParts
<1>3. n \in Int
  BY <1>1 DEF FillTyped
<1>4. /\ T!verifyOwnIntent(chosen, order.digest, order.auth, n, TRUE)
      /\ T!computeFillIntentDigest(chosen.intent, chosen.auth) = S!intentDigest(chosen.intent, chosen.auth)
  <2>. HIDE DEF chosen, n
  <2>. QED  BY <1>1, <1>3, TakerTakesIntent
<1>5. /\ recovery.orderDigest = order.digest /\ recovery.intent = chosen
      /\ recovery.intentDigest = S!intentDigest(chosen.intent, chosen.auth)
  BY <1>4, TermsAgree DEF RecoveryOf, orderDigest
<1>6. chosen # Null
  BY <1>1 DEF IsIntent
<1>. HIDE DEF fill, auth, chosen, n, row, recovery
<1>7. fill # Null /\ auth # Null /\ row.makerAuth # Null
  <2>1. fill = [x \in DOMAIN fill |-> fill[x]]
    BY <1>1 DEF FillTyped
  <2>2. auth = [x \in DOMAIN auth |-> auth[x]]
    BY <1>1 DEF FillProved
  <2>. QED  BY <1>2, <2>1, <2>2, ObjectIs, SoundParts DEF Shows
<1>8. /\ row.makerAuth = order.auth /\ row.maker = order.order.maker
      /\ row.prelocked = (prelock # Null)
  BY <1>2 DEF Shows
<1>9. T!PrelockOf(row) = prelock
  BY <1>2, ShownPrelock
<1>10. /\ auth.issuedAt \in Int /\ auth.expiresAt \in Int /\ auth.issuedAt < auth.expiresAt
       /\ auth.issuedAt <= auth.issuedAt + CLOCK_SKEW
  BY <1>1, TimesInts DEF FillTyped
<1>11. /\ order.auth.issuedAt \in Int /\ order.auth.issuedAt <= n
       /\ chosen.auth.issuedAt \in Int /\ chosen.auth.expiresAt \in Int
       /\ chosen.auth.issuedAt <= n /\ n < chosen.auth.expiresAt
  BY <1>1, <1>3 DEF IntentFits, IntentTyped, OrderSigned
<1>12. /\ T!verifyMakerOrder(row, n, TRUE) # Null
       /\ T!verifyMakerOrder(row, n, TRUE).orderDigest = order.digest
  BY <1>2, <1>3, <1>11, TakerTakesOrder
<1>13. T!fillBindingIsValid(fill, auth, order.auth, recovery, prelock)
  <2>1. T!Zero = Zero
    BY DEF T!Zero, Zero, T!Text, Text
  <2>. QED  BY <1>1, <1>5, <1>11, <2>1 DEF T!fillBindingIsValid, FillTimes, FillAnswers
<1>14. T!fillTermsAreValid(row, recovery, n)
  BY <1>1, <1>2, <1>8, <1>9, <1>10, <1>13 DEF T!fillTermsAreValid, FillTimes
<1>15. T!verifyOfficialV1Proof(row.maker, auth, T!buildFillV1Payload(fill, order.auth, auth))
  <2>1. T!buildFillV1Payload(fill, order.auth, auth) = S!fillDigest(fill, order.auth, auth)
    BY <1>1, <1>10, TakerFillBytes DEF FillAnswers, FillProved, OrderSigned
  <2>. QED  BY <1>1, <1>8, <2>1, WireAgrees DEF T!verifyOfficialV1Proof, FillProved
<1>16. T!FillAuthentic(row, recovery, n)
  <2>1. T!sameSignedIntent(row.selectedIntent, recovery.intent)
    BY <1>2, <1>5 DEF T!sameSignedIntent
  <2>2. T!verifyOwnIntent(recovery.intent, recovery.orderDigest, row.makerAuth, n, TRUE)
    BY <1>4, <1>5, <1>8
  <2>. QED  BY <1>1, <1>2, <1>4, <1>5, <1>8, <1>10, <1>12, <1>14, <1>15, <2>1, <2>2 DEF T!FillAuthentic
<1>17. T!FillComplete(row) /\ ~T!FundingBlocked(row)
  BY <1>2, <1>6, <1>7 DEF T!FillComplete, T!FundingBlocked
<1>18. T!verifyMakerFill(row, recovery, n) = "fund"
  BY <1>2, <1>7, <1>16, <1>17 DEF T!verifyMakerFill
<1>. QED  BY <1>18 DEF row, recovery, n

LEMMA TakersTakeFill ==
    ASSUME NullApart, OrderSigned, OrderSound, NEW f, FillFits(f)
    PROVE  BothTakersAccept(f)
<1>1. f # Null /\ FillAnswers(f.doc.fill, f.for.doc)
  BY ObjectIs DEF FillFits
<1>. DEFINE row == RowFor(f)
<1>2. /\ Shows(row) /\ row.fill = f.doc.fill /\ row.fillAuth = f.doc.auth
      /\ row.hashlock = f.doc.fill.hashlock /\ row.initiatorTimeout = f.doc.fill.initiatorTimeout
  BY <1>1, RowForParts
<1>. HIDE DEF row
<1>3. B!verifyFillV1(row.fill, row.fillAuth, row, f.for.doc, f.issuedAt, FALSE)
  BY <1>2, BrowserTakesFill
<1>4. row.visibility = "public" => T!verifyMakerFill(row, RecoveryOf(f.for), f.issuedAt) = "fund"
  BY <1>1, <1>2, ScriptedTakesFill DEF Shows, row
<1>. QED  BY <1>3, <1>4 DEF BothTakersAccept, RowFor, row

-----------------------------------------------------------------------------
(* What the signers sign.                                                  *)

\* A draft of the browser, whenever it is signed: it was made RESPONDER_TIMEOUT
\* before its responder side ends, and is answered at most RESPONSE later.
DraftTimely(d, n) ==
    /\ n >= d.t2 - RESPONDER_TIMEOUT
    /\ d.t2 - d.respondBy >= RESPONDER_TIMEOUT - RESPONSE
    /\ d.t1 = IF prelock = Null THEN d.t2 + (INITIATOR_TIMEOUT - RESPONDER_TIMEOUT) ELSE prelock.t1

\* The parts of a fill that both signers take from the draft.
LEMMA BodyAnswers ==
    ASSUME NullApart, OrderSigned, OrderSound, NEW i, IsIntent(i), NEW n, IntentFits(i.doc, n),
           NEW t1 \in Int, NEW t2 \in Int, NEW r, NEW body, body = FillBody(Draft(i, t1, t2, r)),
           prelock # Null => t1 = prelock.t1,
           NEW fill, Lowered(body, fill), fill.hashlock # Zero,
           fill.orderDigest = body.orderDigest, fill.intentDigest = body.intentDigest
    PROVE  FillAnswers(fill, i.doc)
<1>. DEFINE chosen == i.doc
<1>1. /\ body.orderDigest = order.digest
      /\ body.intentDigest = B!intentDigest(chosen.intent, chosen.auth)
      /\ body.taker = chosen.intent.taker /\ body.releaseCommitment = chosen.intent.releaseCommitment
      /\ prelock # Null => body.hashlock = prelock.hashlock
      /\ body.initiatorTimeout = t1
  BY DEF FillBody, Draft, orderDigest
<1>2. /\ IsText(body.taker) /\ Canonical(body.taker)
      /\ IsText(body.releaseCommitment) /\ Canonical(body.releaseCommitment)
      /\ prelock # Null => IsText(body.hashlock) /\ Canonical(body.hashlock)
  BY <1>1, SoundParts DEF IntentFits, IntentTyped
<1>3. /\ fill.taker = body.taker /\ fill.releaseCommitment = body.releaseCommitment
      /\ prelock # Null => fill.hashlock = body.hashlock
      /\ fill.initiatorTimeout = t1
  BY <1>1, <1>2, LowerOfCanonical DEF Lowered
<1>4. Canonical(fill.taker) /\ Canonical(fill.releaseCommitment) /\ Canonical(fill.hashlock)
  <2>1. \A t : Canonical(Lower(t))
    BY DEF Canonical, Lower, Text
  <2>. QED  BY <2>1 DEF Lowered
<1>. QED  BY <1>1, <1>3, <1>4, TermsAgree DEF FillAnswers

\* What is signed is a record, with the bytes that were hashed.
LEMMA SignedProves ==
    ASSUME NEW fill, NEW n, NEW r, NEW nonce, Canonical(nonce), NEW auth,
           auth = SignedAuth([issuedAt |-> n, expiresAt |-> r, nonce |-> nonce], auth.signature),
           auth.signature = Signature(order.order.maker, S!fillDigest(fill, order.auth, auth)),
           S!fillDigest(fill, order.auth, auth) # Null
    PROVE  FillProved(fill, auth)
<1>1. auth.nonce = nonce
  BY AuthFields
<1>2. auth = [x \in DOMAIN auth |-> auth[x]]
  BY DEF SignedAuth
<1>. QED  BY <1>1, <1>2 DEF FillProved, verifyMessageForSigner

LEMMA FillOfParts ==
    ASSUME NEW d, NEW n
    PROVE  LET f == FillOf(d, n) IN
           /\ f = [x \in DOMAIN f |-> f[x]] /\ f.for = d.for /\ f.issuedAt = n
           /\ cast.maker = "browser" =>
                 f.doc = B!signFillV1(FillBody(d), OpenRow, d.respondBy, Nonce(<<d.for.who, d.for.at, n>>), n)
           /\ cast.maker = "headless" =>
                 f.doc = T!signFillV1(Address(Maker), FillBody(d), order, d.for.doc, d.respondBy,
                                      Nonce(<<d.for.who, d.for.at, n>>), n)
<1>. DEFINE doc == FillDoc(d, FillBody(d), n)
<1>1. /\ cast.maker = "browser" =>
                 doc = B!signFillV1(FillBody(d), OpenRow, d.respondBy, Nonce(<<d.for.who, d.for.at, n>>), n)
      /\ cast.maker = "headless" =>
                 doc = T!signFillV1(Address(Maker), FillBody(d), order, d.for.doc, d.respondBy,
                                    Nonce(<<d.for.who, d.for.at, n>>), n)
  BY DEF FillDoc
<1>. HIDE DEF doc
<1>. QED  BY <1>1 DEF FillOf, doc

LEMMA BrowserSignsFit ==
    ASSUME NullApart, OrderSigned, OrderSound, cast \in Casts, cast.maker = "browser",
           NEW d, DraftWell(d), d.respondBy \in Int, NEW n \in Nat,
           IntentFits(d.for.doc, n), DraftTimely(d, n), FillOf(d, n).doc # Null,
           prelock # Null => prelock.t1 - n >= PRELOCK_RUNWAY
    PROVE  FillFits(FillOf(d, n))
<1>. DEFINE f == FillOf(d, n)
            i == d.for
            t1 == d.t1
            t2 == d.t2
            r == d.respondBy
            doc == f.doc
            body == FillBody(Draft(i, t1, t2, r))
            nonce == Nonce(<<d.for.who, d.for.at, n>>)
            fill == [body EXCEPT !.taker = B!Lower(@), !.releaseCommitment = B!Lower(@),
                                 !.hashlock = B!Lower(@)]
            unsigned == [issuedAt |-> n, expiresAt |-> r, nonce |-> nonce]
            payload == B!fillDigest(fill, OpenRow.makerAuth, unsigned)
<1>1. /\ d = Draft(i, t1, t2, r) /\ IsIntent(i) /\ t1 \in Int /\ t2 \in Int /\ r \in Int
  BY DEF DraftWell
<1>2. /\ f = [x \in DOMAIN f |-> f[x]] /\ f.for = i /\ f.issuedAt = n
      /\ doc = B!signFillV1(body, OpenRow, r, nonce, n) /\ doc # Null
  BY <1>1, FillOfParts
<1>3. IsText(nonce) /\ Canonical(nonce)
  BY DEF Nonce, IsText, Canonical, Text
<1>. HIDE DEF f, nonce, i, t1, t2, r
<1>4. /\ DocOf(doc, i, t1, t2, r, n)
      /\ doc.auth.signature = Signature(order.order.maker, S!fillDigest(doc.fill, order.auth, doc.auth))
  <2>. HIDE DEF doc
  <2>. QED  BY <1>1, <1>2, <1>3, BrowserFill
<1>5. /\ doc = [fill |-> fill, auth |-> B!signProtocolAuth(OpenRow.maker, unsigned, payload)]
      /\ payload # Null
      /\ r - n \in MIN_RESPONSE .. MAX_RESPONSE /\ r <= order.auth.expiresAt
      /\ fill.hashlock # Zero
      /\ fill.responderTimeout - n <= RESPONDER_WINDOW
      /\ prelock = Null => fill.initiatorTimeout - n <= INITIATOR_WINDOW
  <2>1. OpenRow.makerAuth = order.auth /\ OpenRow.prelocked = (prelock # Null)
    BY DEF OpenRow
  <2>2. B!Zero = Zero
    BY DEF B!Zero, Zero, B!Text, Text
  <2>. HIDE DEF body, doc
  <2>. QED  BY <1>2, <2>1, <2>2 DEF B!signFillV1
<1>6. Lowered(body, fill) /\ fill.orderDigest = body.orderDigest /\ fill.intentDigest = body.intentDigest
  <2>1. \A t : B!Lower(t) = Lower(t)
    BY DEF B!Lower, Lower, B!Text, Text
  <2>2. body = [g \in FillFields |-> body[g]]
    BY <1>1, BodyTyped
  <2>. HIDE DEF body
  <2>3. /\ fill.taker = B!Lower(body.taker) /\ fill.releaseCommitment = B!Lower(body.releaseCommitment)
        /\ fill.hashlock = B!Lower(body.hashlock)
        /\ fill.initiatorTimeout = body.initiatorTimeout
        /\ fill.responderTimeout = body.responderTimeout
        /\ fill.orderDigest = body.orderDigest /\ fill.intentDigest = body.intentDigest
        /\ fill = [g \in FillFields |-> fill[g]]
    BY <2>2 DEF FillFields
  <2>. QED  BY <2>1, <2>3 DEF Lowered
<1>7. doc.fill = fill /\ doc.auth = SignedAuth(unsigned, Signature(Lower(OpenRow.maker), payload))
  <2>. HIDE DEF fill, unsigned, payload, doc
  <2>. QED  BY <1>5, BrowserAuth
<1>8. /\ doc.auth.issuedAt = n /\ doc.auth.expiresAt = r
      /\ doc.auth.signature = Signature(Lower(OpenRow.maker), payload)
  <2>. HIDE DEF payload, doc
  <2>. QED  BY <1>7, AuthFields
<1>9. payload = S!fillDigest(doc.fill, order.auth, doc.auth)
  <2>1. OpenRow.makerAuth = order.auth
    BY DEF OpenRow
  <2>2. doc.auth.nonce = nonce
    <3>. HIDE DEF payload, doc
    <3>. QED  BY <1>7, AuthFields
  <2>. HIDE DEF fill, doc
  <2>3. B!fillTerms(fill, order.auth, unsigned) = S!FillTerms(fill, order.auth, doc.auth)
    BY <1>8, <2>2 DEF B!fillTerms, S!FillTerms
  <2>. QED  BY <1>7, <2>1, <2>3, WireAgrees DEF B!fillDigest, S!fillDigest
<1>. HIDE DEF payload
<1>10. FillProved(doc.fill, doc.auth)
  <2>1. doc.auth = SignedAuth(unsigned, doc.auth.signature)
    <3>. HIDE DEF unsigned, doc
    <3>. QED  BY <1>7, <1>8
  <2>. HIDE DEF doc
  <2>. QED  BY <1>3, <1>4, <1>5, <1>9, <2>1, SignedProves
<1>. HIDE DEF unsigned, fill, body, doc
<1>11. FillAnswers(doc.fill, i.doc)
  <2>1. prelock # Null => t1 = prelock.t1
    BY DEF DraftTimely, t1
  <2>2. IntentFits(i.doc, n)
    BY DEF i
  <2>. QED  BY <1>1, <1>5, <1>6, <1>7, <2>1, <2>2, BodyAnswers DEF body
<1>12. /\ FillTyped(doc.fill, doc.auth) /\ doc = [fill |-> doc.fill, auth |-> doc.auth]
       /\ doc.fill.initiatorTimeout = t1 /\ doc.fill.responderTimeout = t2
  BY <1>4 DEF DocOf
<1>13. FillTimes(doc.fill, doc.auth)
  <2>. DEFINE I == t1 - n
              R == t2 - n
  <2>1. /\ n >= t2 - RESPONDER_TIMEOUT
        /\ t2 - r >= RESPONDER_TIMEOUT - RESPONSE
        /\ prelock = Null => t1 = t2 + (INITIATOR_TIMEOUT - RESPONDER_TIMEOUT)
        /\ prelock # Null => t1 = prelock.t1
    BY DEF DraftTimely, t1, t2, r
  <2>2. /\ RESPONSE + RESPONDER_RUNWAY < RESPONDER_TIMEOUT
        /\ 2 * RESPONDER_TIMEOUT <= INITIATOR_TIMEOUT
        /\ 2 * RESPONDER_TIMEOUT <= PRELOCK_RUNWAY
    BY DraftAssumption
  <2>3. RESPONSE \in Nat /\ RESPONDER_TIMEOUT \in Nat /\ INITIATOR_TIMEOUT \in Nat
    BY HandshakeAssumption
  <2>4. /\ r - n >= MIN_RESPONSE /\ MIN_RESPONSE > 0
        /\ R <= RESPONDER_WINDOW /\ (prelock = Null => I <= INITIATOR_WINDOW)
    BY <1>5, <1>7, <1>12, LimitsNat, WireAssumption
  <2>5. t2 - r > RESPONDER_RUNWAY
    BY <1>1, <2>1, <2>2, <2>3, LimitsNat
  <2>6. R > 0
    BY <1>1, <2>4, <2>5, LimitsNat
  <2>7. prelock # Null => I >= PRELOCK_RUNWAY
    BY <2>1
  <2>8. I >= 2 * R
    <3>1. CASE prelock = Null
      BY <1>1, <2>1, <2>2, <2>3, <3>1
    <3>2. CASE prelock # Null
      BY <1>1, <2>1, <2>2, <2>3, <2>7, <3>2, LimitsNat
    <3>. QED  BY <3>1, <3>2
  <2>9. I \in Int /\ R \in Int
    BY <1>1
  <2>10. I = doc.fill.initiatorTimeout - doc.auth.issuedAt
         /\ R = doc.fill.responderTimeout - doc.auth.issuedAt
         /\ doc.fill.responderTimeout - doc.auth.expiresAt = t2 - r
    BY <1>8, <1>12
  <2>. HIDE DEF I, R
  <2>11. I >= R /\ R <= I \div 2
    BY <2>6, <2>8, <2>9
  <2>. QED  BY <1>5, <1>8, <2>4, <2>5, <2>6, <2>7, <2>10, <2>11 DEF FillTimes
<1>14. FillFits(f)
  <2>1. IntentFits(f.for.doc, f.issuedAt)
    BY <1>2 DEF i
  <2>. QED  BY <1>1, <1>2, <1>8, <1>10, <1>11, <1>12, <1>13, <2>1 DEF FillFits, doc
<1>. QED  BY <1>14 DEF f

LEMMA HeadlessSignsFit ==
    ASSUME NullApart, OrderSigned, OrderSound, HeadlessDoc(order), cast.maker = "headless",
           NEW d, DraftWell(d), d.respondBy \in Int, NEW n \in Nat, d.for.at <= n,
           FillOf(d, n).doc # Null
    PROVE  FillFits(FillOf(d, n))
<1>. DEFINE f == FillOf(d, n)
            i == d.for
            t1 == d.t1
            t2 == d.t2
            r == d.respondBy
            doc == f.doc
            body == FillBody(Draft(i, t1, t2, r))
            nonce == Nonce(<<d.for.who, d.for.at, n>>)
            fill == T!normalizeFillBody(body)
            plain == T!normalizeOrderBody(order.order)
            digest == T!computeOrderDigest(plain, order.auth)
            unsigned == [issuedAt |-> n, expiresAt |-> r, nonce |-> T!Lower(nonce)]
            payload == T!buildFillV1Payload(fill, order.auth, unsigned)
<1>1. /\ d = Draft(i, t1, t2, r) /\ IsIntent(i) /\ t1 \in Int /\ t2 \in Int /\ r \in Int /\ i.at <= n
  BY DEF DraftWell
<1>2. /\ f = [x \in DOMAIN f |-> f[x]] /\ f.for = i /\ f.issuedAt = n
      /\ doc = T!signFillV1(Address(Maker), body, order, i.doc, r, nonce, n) /\ doc # Null
  BY <1>1, FillOfParts
<1>3. IsText(nonce) /\ Canonical(nonce)
  BY DEF Nonce, IsText, Canonical, Text
<1>. HIDE DEF f, nonce, i, t1, t2, r
<1>4. /\ DocOf(doc, i, t1, t2, r, n)
      /\ doc.auth.signature = Signature(order.order.maker, S!fillDigest(doc.fill, order.auth, doc.auth))
  <2>. HIDE DEF doc
  <2>. QED  BY <1>1, <1>2, <1>3, HeadlessFill
<1>5. /\ order.order.visibility = "public" /\ order.order.allowedTaker = Null /\ prelock = Null
  <2>1. order.order = [terms |-> "agreed", maker |-> Address(Maker), visibility |-> "public",
                       allowedTaker |-> Null, prelock |-> Null]
    BY DEF HeadlessDoc
  <2>. QED  BY <2>1 DEF prelock
<1>6. plain = order.order /\ digest = order.digest
  BY <1>5, TakerBody
<1>7. /\ doc = [fill |-> fill, auth |-> T!Signed(unsigned, Address(Maker), payload)]
      /\ payload # Null
      /\ r - n \in MIN_RESPONSE .. MAX_RESPONSE /\ r <= order.auth.expiresAt
      /\ T!FillAuthenticatesIntent(fill, order.digest, i.doc, n, order.auth)
      /\ n < i.doc.auth.expiresAt
      /\ fill.hashlock # Zero
      /\ T!FillWindowsOk(fill, order.order, n, r)
  <2>1. T!Zero = Zero
    BY DEF T!Zero, Zero, T!Text, Text
  <2>. HIDE DEF body, doc
  <2>. QED  BY <1>2, <1>6, <2>1 DEF T!signFillV1
<1>8. Lowered(body, fill) /\ fill.orderDigest = body.orderDigest /\ fill.intentDigest = body.intentDigest
  <2>1. \A t : T!Lower(t) = Lower(t)
    BY DEF T!Lower, Lower, T!Text, Text
  <2>2. body = [g \in FillFields |-> body[g]]
    BY <1>1, BodyTyped
  <2>. HIDE DEF body
  <2>3. /\ fill.taker = T!Lower(body.taker) /\ fill.releaseCommitment = T!Lower(body.releaseCommitment)
        /\ fill.hashlock = T!Lower(body.hashlock)
        /\ fill.initiatorTimeout = body.initiatorTimeout
        /\ fill.responderTimeout = body.responderTimeout
        /\ fill.orderDigest = body.orderDigest /\ fill.intentDigest = body.intentDigest
        /\ fill = [g \in FillFields |-> fill[g]]
    BY <2>2 DEF FillFields, T!normalizeFillBody
  <2>. QED  BY <2>1, <2>3 DEF Lowered
<1>9. doc.fill = fill /\ doc.auth = SignedAuth(unsigned, Signature(Address(Maker), payload))
  <2>. HIDE DEF fill, unsigned, payload, doc
  <2>. QED  BY <1>7, TakerAuth
<1>10. /\ doc.auth.issuedAt = n /\ doc.auth.expiresAt = r /\ doc.auth.nonce = T!Lower(nonce)
       /\ doc.auth.signature = Signature(Address(Maker), payload)
  <2>. HIDE DEF payload, doc
  <2>. QED  BY <1>9, AuthFields
<1>11. S!fillDigest(doc.fill, order.auth, doc.auth) # Null
  BY <1>4, <1>7, <1>10, SignatureNames
<1>. HIDE DEF payload
<1>12. FillProved(doc.fill, doc.auth)
  <2>1. doc.auth = SignedAuth(unsigned, doc.auth.signature)
    <3>. HIDE DEF unsigned, doc
    <3>. QED  BY <1>9, <1>10
  <2>2. T!Lower(nonce) = nonce
    BY <1>3, LowerOfCanonical
  <2>. HIDE DEF doc
  <2>. QED  BY <1>3, <1>4, <1>11, <2>1, <2>2, SignedProves
<1>. HIDE DEF unsigned, fill, body, doc, plain, digest
<1>13. IntentFits(i.doc, n)
  <2>1. T!verifyFillIntentV1(i.doc.intent, i.doc.auth, order.digest, n, order.auth)
    BY <1>7 DEF T!FillAuthenticatesIntent
  <2>. QED  BY <1>1, <1>5, <1>7, <2>1, HeadlessFindsFit
<1>14. FillAnswers(doc.fill, i.doc)
  BY <1>1, <1>5, <1>7, <1>8, <1>9, <1>13, BodyAnswers DEF body
<1>15. /\ FillTyped(doc.fill, doc.auth) /\ doc = [fill |-> doc.fill, auth |-> doc.auth]
  BY <1>4 DEF DocOf
<1>16. FillTimes(doc.fill, doc.auth)
  BY <1>5, <1>7, <1>9, <1>10 DEF FillTimes, T!FillWindowsOk, prelock
<1>17. FillFits(f)
  BY <1>1, <1>2, <1>10, <1>12, <1>13, <1>14, <1>15, <1>16 DEF FillFits, doc
<1>. QED  BY <1>17 DEF f

-----------------------------------------------------------------------------
(* The maker's page, from a draft to its signature.                        *)

\* The drafts the page may still sign or save.
DraftsOf(c, t) ==
    (IF c = Null THEN {} ELSE {c.draft}) \cup
    (IF t.fillPrompt = Null THEN {} ELSE {t.fillPrompt.staged.draft}) \cup
    (IF t.cancelPrompt = Null THEN {} ELSE {t.cancelPrompt.saved.draft})

DraftsTimely(c, t, n) == \A d \in DraftsOf(c, t) : d = Null \/ DraftTimely(d, n)

\* The one case in which the browser signs what is refused is left out.
RunwayKept(f) == prelock # Null => prelock.t1 - f.issuedAt >= PRELOCK_RUNWAY

PromptFits(t) == t.fillPrompt # Null /\ RunwayKept(t.fillPrompt.fill) => FillFits(t.fillPrompt.fill)

PageFits == Browser => DraftsTimely(card, tab, now) /\ PromptFits(tab)

\* What every step of the page but the start of a match does to its drafts.
PageMoves ==
    /\ DraftsOf(card', tab') \subseteq DraftsOf(card, tab)
    /\ tab'.fillPrompt \in {Null, tab.fillPrompt}
    /\ now' >= now

LEMMA SelectionFits ==
    ASSUME NullApart, OrderSigned, OrderSound, IInv, StartSignedSwap, NEW i \in Selection
    PROVE  IntentFits(i.doc, now)
<1>. DEFINE row == RowOf(book)
<1>1. /\ card # Null /\ status(book) = "open"
      /\ UNCHANGED <<now, cast, order, book, swap, signed, alice, faults>>
  BY DEF StartSignedSwap, MayMatch
<1>2. IsIntent(i)
  BY <1>1, SelectionGood
<1>3. PICK I : i \in Select(I)
  <2>1. CASE card.selected # Null /\ Select({card.selected}) # {}
    <3>1. PICK j : j \in Select({card.selected})
      BY <2>1
    <3>2. j \in {card.selected}
      BY <3>1, SelectsFrom
    <3>. QED  BY <2>1, <3>1, <3>2 DEF Selection
  <2>2. CASE ~(card.selected # Null /\ Select({card.selected}) # {})
    BY <2>2 DEF Selection
  <2>. QED  BY <2>1, <2>2
<1>4. PICK c \in B!selectEarliestFillIntent(row, {Candidate(k) : k \in I}, now) : i = c.of
  BY <1>3 DEF Select
<1>5. /\ c \in {Candidate(k) : k \in I}
      /\ c.auth.issuedAt <= now /\ B!verifyFillIntentV1(c.intent, c.auth, row, now, FALSE)
  BY <1>4 DEF B!selectEarliestFillIntent
<1>6. c.intent = i.doc.intent /\ c.auth = i.doc.auth
  BY <1>4, <1>5 DEF Candidate
<1>7. SameListing(row, OpenRow)
  BY <1>1, OpenListing
<1>8. OfOrder(row) /\ row.allowedTaker = order.order.allowedTaker
  <2>1. OfOrder(OpenRow) /\ OpenRow.allowedTaker = order.order.allowedTaker
    BY DEF OfOrder, OpenRow, orderDigest
  <2>. HIDE DEF row
  <2>. QED  BY <1>7, <2>1 DEF SameListing, OfOrder
<1>9. now \in Int
  BY DEF IInv
<1>. HIDE DEF row
<1>. QED  BY <1>2, <1>5, <1>6, <1>8, <1>9, BrowserFindsFit

LEMMA StagedFits ==
    ASSUME NullApart, IInv, OrderSound, Browser, NEW d, DraftWell(d), DraftTimely(d, now),
           IntentFits(d.for.doc, now), FillOf(d, now).doc # Null, RunwayKept(FillOf(d, now))
    PROVE  FillFits(FillOf(d, now))
<1>1. /\ OrderSigned /\ cast \in Casts /\ now \in Nat /\ cast.maker = "browser" /\ d.respondBy \in Int
  BY DEF IInv, Browser, DraftWell
<1>2. FillOf(d, now).issuedAt = now
  BY DEF FillOf
<1>3. prelock # Null => prelock.t1 - now >= PRELOCK_RUNWAY
  BY <1>2 DEF RunwayKept
<1>. QED  BY <1>1, <1>3, BrowserSignsFit

\* A fresh draft is good for as long as any is.
LEMMA FreshTimely ==
    ASSUME IInv, Browser, NEW i, IsIntent(i)
    PROVE  /\ DraftTimely(FreshDraft(i), now) /\ DraftWell(FreshDraft(i))
           /\ FreshDraft(i).for = i
<1>. DEFINE d == FreshDraft(i)
            r == B!Earliest(now + RESPONSE, orderExpiry)
<1>1. /\ now + RESPONDER_TIMEOUT \in Int /\ now + INITIATOR_TIMEOUT \in Int /\ now + RESPONSE \in Int
      /\ orderExpiry \in Int /\ now \in Int /\ {RESPONSE, RESPONDER_TIMEOUT, INITIATOR_TIMEOUT} \subseteq Int
      /\ prelock # Null => prelock.t1 \in Int
  BY HandshakeAssumption DEF IInv, OrderSigned, orderExpiry, prelock
<1>2. r \in Int /\ r <= now + RESPONSE
  BY <1>1 DEF B!Earliest
<1>. HIDE DEF r
<1>3. /\ d.for = i /\ d.t2 = now + RESPONDER_TIMEOUT /\ d.respondBy = r
      /\ d.t1 = IF prelock = Null THEN now + INITIATOR_TIMEOUT ELSE prelock.t1
  BY DEF FreshDraft, Draft, r
<1>4. DraftWell(d)
  BY <1>1, <1>2, DraftIs DEF FreshDraft, r
<1>. HIDE DEF d
<1>5. DraftTimely(d, now)
  BY <1>1, <1>2, <1>3 DEF DraftTimely
<1>. QED  BY <1>3, <1>4, <1>5 DEF d

LEMMA StartFits ==
    ASSUME NullApart, IInv, OrderSound, PageFits, StartSignedSwap
    PROVE  DraftsTimely(card', tab', now) /\ PromptFits(tab')
<1>1. /\ Browser /\ card # Null /\ card.fill = Null
      /\ UNCHANGED <<now, cast, order, book, swap, signed, alice, faults>>
  BY DEF StartSignedSwap, MayMatch
<1>2. PICK i \in Selection :
        LET draft == IF canReuseDraft(i) THEN card.draft ELSE FreshDraft(i)
            staged == [card EXCEPT !.selected = i, !.draft = draft]
        IN  /\ card' = staged
            /\ \E fill \in {FillOf(draft, now)} :
                tab' = [tab EXCEPT !.fillPrompt =
                          IF fill.doc = Null THEN Null
                          ELSE [staged |-> staged, fill |-> fill]]
  BY DEF StartSignedSwap
<1>. DEFINE draft == IF canReuseDraft(i) THEN card.draft ELSE FreshDraft(i)
            staged == [card EXCEPT !.selected = i, !.draft = draft]
            fill == FillOf(draft, now)
            prompt == IF fill.doc = Null THEN Null ELSE [staged |-> staged, fill |-> fill]
<1>3. card' = staged /\ tab' = [tab EXCEPT !.fillPrompt = prompt]
  BY <1>2
<1>4. IsIntent(i) /\ IntentFits(i.doc, now) /\ TabWell(tab) /\ HandleWell(card, signed.fills)
  BY <1>1, SelectionGood, SelectionFits DEF IInv, CardWell
<1>5. DraftsTimely(card, tab, now)
  BY <1>1 DEF PageFits
<1>6. DraftWell(draft) /\ DraftTimely(draft, now) /\ draft.for = i
  <2>1. CASE canReuseDraft(i)
    <3>1. card.draft # Null /\ card.draft.for = i
      BY <2>1 DEF canReuseDraft
    <3>2. DraftWell(card.draft) /\ DraftTimely(card.draft, now)
      BY <1>1, <1>4, <1>5, <3>1 DEF HandleWell, DraftsTimely, DraftsOf
    <3>. QED  BY <2>1, <3>1, <3>2
  <2>2. CASE ~canReuseDraft(i)
    BY <1>1, <1>4, <2>2, FreshTimely
  <2>. QED  BY <2>1, <2>2
<1>. HIDE DEF draft
<1>7. staged.draft = draft
  BY <1>4 DEF HandleWell
<1>8. fill.doc # Null /\ RunwayKept(fill) => FillFits(fill)
  <2>1. IntentFits(draft.for.doc, now)
    BY <1>4, <1>6
  <2>. QED  BY <1>1, <1>6, <2>1, StagedFits
<1>. HIDE DEF staged, fill
<1>9. prompt # Null => prompt.staged = staged /\ prompt.fill = fill /\ fill.doc # Null
  OBVIOUS
<1>. HIDE DEF prompt
<1>10. tab'.fillPrompt = prompt /\ tab'.cancelPrompt = tab.cancelPrompt
  BY <1>3, <1>4 DEF TabWell
<1>11. DraftsOf(card', tab') \subseteq {draft} \cup DraftsOf(card, tab)
  BY <1>3, <1>7, <1>9, <1>10 DEF DraftsOf
<1>12. DraftsTimely(card', tab', now)
  BY <1>5, <1>6, <1>11 DEF DraftsTimely
<1>13. PromptFits(tab')
  BY <1>8, <1>9, <1>10 DEF PromptFits
<1>. QED  BY <1>12, <1>13

LEMMA PublishMoves ==
    ASSUME TabWell(tab), NEW handle, NEW delivery, Publish(handle, delivery),
           handle.draft \in DraftsOf(card, tab)
    PROVE  DraftsOf(card', tab') \subseteq DraftsOf(card, tab) /\ tab'.fillPrompt = Null
<1>1. card' \in {Null, handle} /\ tab'.fillPrompt = Null /\ tab'.cancelPrompt = tab.cancelPrompt
  BY DEF Publish, TabWell
<1>. QED  BY <1>1 DEF DraftsOf

LEMMA PublishCancelMoves ==
    ASSUME TabWell(tab), NEW saved, NEW delivery, PublishCancel(saved, delivery),
           saved.draft \in DraftsOf(card, tab)
    PROVE  DraftsOf(card', tab') \subseteq DraftsOf(card, tab) /\ tab'.fillPrompt = tab.fillPrompt
<1>1. card' \in {Null, saved} /\ tab'.cancelPrompt = Null /\ tab'.fillPrompt = tab.fillPrompt
  BY DEF PublishCancel, TabWell
<1>. QED  BY <1>1 DEF DraftsOf

LEMMA PageActs ==
    ASSUME IInv, Browser, NEW delivery, MakerActs(delivery)
    PROVE  PageMoves
<1>0. TabWell(tab) /\ now \in Nat /\ (card # Null => HandleWell(card, signed.fills)) /\ ~Headless
  BY DEF IInv, CardWell, Browser, Headless
<1>1. now' = now
  BY DEF MakerActs, ApproveFill, RetryFill, ClickCancel, ApproveCancel, HeadlessSigns, HeadlessCancels
<1>. DEFINE Fewer == DraftsOf(card', tab') \subseteq DraftsOf(card, tab)
<1>2. CASE ApproveFill(delivery)
  <2>. DEFINE p == tab.fillPrompt
              handle == [p.staged EXCEPT !.fill = p.fill]
  <2>1. p # Null /\ Publish(handle, delivery)
    BY <1>2 DEF ApproveFill
  <2>2. handle.draft = p.staged.draft
    BY <1>0, <2>1 DEF TabWell, FillPromptWell, HandleWell
  <2>3. handle.draft \in DraftsOf(card, tab)
    BY <2>1, <2>2 DEF DraftsOf
  <2>. HIDE DEF handle
  <2>4. Fewer /\ tab'.fillPrompt = Null
    BY <1>0, <2>1, <2>3, PublishMoves
  <2>. QED  BY <1>0, <1>1, <2>4 DEF PageMoves
<1>3. CASE RetryFill(delivery)
  <2>1. card # Null /\ Publish(card, delivery)
    BY <1>3 DEF RetryFill, MayMatch
  <2>2. card.draft \in DraftsOf(card, tab)
    BY <2>1 DEF DraftsOf
  <2>3. Fewer /\ tab'.fillPrompt = Null
    BY <1>0, <2>1, <2>2, PublishMoves
  <2>. QED  BY <1>0, <1>1, <2>3 DEF PageMoves
<1>4. CASE ClickCancel(delivery)
  <2>1. card # Null /\ card.draft \in DraftsOf(card, tab)
    BY <1>4 DEF ClickCancel, DraftsOf
  <2>2. CASE card.cancel = Null
    <3>1. PICK c : card' = card /\ tab' = [tab EXCEPT !.cancelPrompt = [saved |-> card, cancel |-> c]]
      BY <1>4, <2>2 DEF ClickCancel
    <3>. DEFINE q == [saved |-> card, cancel |-> c]
    <3>2. q.saved = card
      OBVIOUS
    <3>. HIDE DEF q
    <3>3. tab'.cancelPrompt = q /\ tab'.fillPrompt = tab.fillPrompt
      BY <1>0, <3>1 DEF TabWell, q
    <3>4. Fewer
      BY <2>1, <3>1, <3>2, <3>3 DEF DraftsOf
    <3>. QED  BY <1>0, <1>1, <3>3, <3>4 DEF PageMoves
  <2>3. CASE card.cancel # Null
    <3>1. PublishCancel(card, delivery)
      BY <1>4, <2>3 DEF ClickCancel
    <3>2. Fewer /\ tab'.fillPrompt = tab.fillPrompt
      BY <1>0, <2>1, <3>1, PublishCancelMoves
    <3>. QED  BY <1>0, <1>1, <3>2 DEF PageMoves
  <2>. QED  BY <2>2, <2>3
<1>5. CASE ApproveCancel(delivery)
  <2>. DEFINE p == tab.cancelPrompt
              handle == [p.saved EXCEPT !.cancel = p.cancel]
  <2>1. p # Null /\ PublishCancel(handle, delivery)
    BY <1>5 DEF ApproveCancel
  <2>2. handle.draft = p.saved.draft
    BY <1>0, <2>1 DEF TabWell, CancelPromptWell, HandleWell
  <2>3. handle.draft \in DraftsOf(card, tab)
    BY <2>1, <2>2 DEF DraftsOf
  <2>. HIDE DEF handle
  <2>4. Fewer /\ tab'.fillPrompt = tab.fillPrompt
    BY <1>0, <2>1, <2>3, PublishCancelMoves
  <2>. QED  BY <1>0, <1>1, <2>4 DEF PageMoves
<1>. QED  BY <1>0, <1>2, <1>3, <1>4, <1>5 DEF MakerActs, HeadlessSigns, HeadlessCancels

LEMMA PageMovesAlways ==
    ASSUME IInv, Browser, [Next]_vars, ~StartSignedSwap
    PROVE  PageMoves
<1>0. TabWell(tab) /\ now \in Nat /\ ~Headless
  BY DEF IInv, Browser, Headless
<1>. DEFINE Still == card' = card /\ tab' = tab
<1>1. Still /\ now' >= now => PageMoves
  BY DEF PageMoves
<1>2. now' = now => now' >= now
  BY <1>0
<1>3. CASE \E delivery \in Deliveries : MakerActs(delivery) \/ TakerActs(delivery)
  <2>1. ASSUME NEW delivery, TakerActs(delivery) PROVE Still /\ now' = now
    BY <2>1 DEF TakerActs, AliceAsks, AlicePolls, AliceLeaves, Proposes, Abandons, StepReleases,
       AliceAborts, Releases, makerVars
  <2>. QED  BY <1>1, <1>2, <1>3, <2>1, PageActs
<1>4. CASE RejectFill \/ RejectCancel
  <2>1. card' = card /\ now' = now
    BY <1>4 DEF RejectFill, RejectCancel
  <2>2. \/ tab'.fillPrompt = Null /\ tab'.cancelPrompt = tab.cancelPrompt
        \/ tab'.fillPrompt = tab.fillPrompt /\ tab'.cancelPrompt = Null
    BY <1>0, <1>4 DEF RejectFill, RejectCancel, TabWell
  <2>3. DraftsOf(card', tab') \subseteq DraftsOf(card, tab)
    BY <2>1, <2>2 DEF DraftsOf
  <2>. QED  BY <1>2, <2>1, <2>2, <2>3 DEF PageMoves
<1>5. CASE Poll \/ CloseFinished
  <2>1. card' \in {Null, card} /\ now' = now
    BY <1>5 DEF Poll, CloseFinished, close
  <2>2. tab'.fillPrompt = tab.fillPrompt /\ tab'.cancelPrompt = tab.cancelPrompt
    BY <1>0, <1>5 DEF Poll, CloseFinished, close, TabWell
  <2>3. DraftsOf(card', tab') \subseteq DraftsOf(card, tab)
    BY <2>1, <2>2 DEF DraftsOf
  <2>. QED  BY <1>2, <2>1, <2>2, <2>3 DEF PageMoves
<1>6. CASE Reload
  <2>1. card' = card /\ now' = now
    BY <1>6 DEF Reload
  <2>2. tab'.fillPrompt = Null /\ tab'.cancelPrompt = Null
    BY <1>6 DEF Reload, NewTab
  <2>3. DraftsOf(card', tab') \subseteq DraftsOf(card, tab)
    BY <2>1, <2>2 DEF DraftsOf
  <2>. QED  BY <1>2, <2>1, <2>2, <2>3 DEF PageMoves
<1>7. CASE HeadlessSelects \/ HeadlessRepublishes
  BY <1>0, <1>7 DEF HeadlessSelects, HeadlessRepublishes
<1>8. CASE RivalAsks \/ AliceSigns \/ AliceReplays \/ AliceFunds \/ StepEnds \/ StepAcknowledges
  <2>1. Still /\ now' = now
    BY <1>8 DEF RivalAsks, AliceSigns, AliceReplays, AliceFunds, StepEnds, StepAcknowledges, makerVars
  <2>. QED  BY <1>1, <1>2, <2>1
<1>9. CASE Tick
  <2>1. Still /\ now' >= now
    BY <1>0, <1>9 DEF Tick, makerVars
  <2>. QED  BY <1>1, <2>1
<1>10. CASE UNCHANGED vars
  BY <1>1, <1>2, <1>10 DEF vars
<1>. QED  BY <1>3, <1>4, <1>5, <1>6, <1>7, <1>8, <1>9, <1>10 DEF Next

\* The order never changes, so what fits it still does.
LEMMA SteadyFits ==
    ASSUME cast' = cast, order' = order
    PROVE  /\ \A d, n : DraftTimely(d, n)' <=> DraftTimely(d, n)
           /\ \A f : FillFits(f)' <=> FillFits(f)
           /\ \A f : RunwayKept(f)' <=> RunwayKept(f)
<1>1. \A i : IsIntent(i)' <=> IsIntent(i)
  BY Steady
<1>2. prelock' = prelock
  BY DEF prelock
<1>3. \A d, n : DraftTimely(d, n)' <=> DraftTimely(d, n)
  BY <1>2 DEF DraftTimely
<1>4. \A f : RunwayKept(f)' <=> RunwayKept(f)
  BY <1>2 DEF RunwayKept
<1>5. \A doc, n : IntentFits(doc, n)' <=> IntentFits(doc, n)
  BY DEF IntentFits
<1>6. \A fill, auth : FillTimes(fill, auth)' <=> FillTimes(fill, auth)
  BY <1>2 DEF FillTimes
<1>7. \A fill, chosen : FillAnswers(fill, chosen)' <=> FillAnswers(fill, chosen)
  BY <1>2 DEF FillAnswers
<1>8. \A fill, auth : FillProved(fill, auth)' <=> FillProved(fill, auth)
  BY DEF FillProved
<1>9. \A f : FillFits(f)' <=> FillFits(f)
  BY <1>1, <1>5, <1>6, <1>7, <1>8 DEF FillFits
<1>. QED  BY <1>3, <1>4, <1>9

LEMMA DraftsGood ==
    ASSUME IInv
    PROVE  \A d \in DraftsOf(card, tab) : d = Null \/ DraftWell(d)
<1>1. CardWell(card, signed.fills) /\ TabWell(tab)
  BY DEF IInv
<1>2. card # Null => card.draft = Null \/ DraftWell(card.draft)
  BY <1>1 DEF CardWell, HandleWell
<1>3. tab.fillPrompt # Null =>
        LET d == tab.fillPrompt.staged.draft IN d = Null \/ DraftWell(d)
  BY <1>1 DEF TabWell, FillPromptWell, HandleWell
<1>4. tab.cancelPrompt # Null =>
        LET d == tab.cancelPrompt.saved.draft IN d = Null \/ DraftWell(d)
  BY <1>1 DEF TabWell, CancelPromptWell, HandleWell
<1>. QED  BY <1>2, <1>3, <1>4 DEF DraftsOf

LEMMA PageFitsStep ==
    ASSUME NullApart, IInv, OrderSound, PageFits, [Next]_vars
    PROVE  PageFits'
<1>1. cast' = cast /\ order' = order /\ now' \in Nat
  <2>1. CASE UNCHANGED vars
    BY <2>1 DEF vars, IInv
  <2>2. CASE Next
    BY <2>2, NextKept DEF Kept
  <2>. QED  BY <2>1, <2>2
<1>. SUFFICES ASSUME Browser' PROVE DraftsTimely(card, tab, now)' /\ PromptFits(tab)'
  BY DEF PageFits
<1>2. Browser /\ now \in Nat
  BY <1>1 DEF Browser, IInv
<1>3. DraftsTimely(card', tab', now') /\ PromptFits(tab')
  <2>1. CASE StartSignedSwap
    <3>1. now' = now
      BY <2>1 DEF StartSignedSwap
    <3>. QED  BY <2>1, <3>1, StartFits
  <2>2. CASE ~StartSignedSwap
    <3>1. PageMoves /\ DraftsTimely(card, tab, now) /\ PromptFits(tab)
      BY <1>2, <2>2, PageMovesAlways DEF PageFits
    <3>2. ASSUME NEW d \in DraftsOf(card', tab') PROVE d = Null \/ DraftTimely(d, now')
      <4>1. d \in DraftsOf(card, tab) /\ now' >= now
        BY <3>1, <3>2 DEF PageMoves
      <4>2. d = Null \/ (DraftWell(d) /\ DraftTimely(d, now))
        BY <3>1, <4>1, DraftsGood DEF DraftsTimely
      <4>3. DraftWell(d) /\ DraftTimely(d, now) => DraftTimely(d, now')
        BY <1>1, <1>2, <4>1, HandshakeAssumption DEF DraftWell, DraftTimely
      <4>. QED  BY <4>2, <4>3
    <3>3. PromptFits(tab')
      BY <3>1 DEF PageMoves, PromptFits
    <3>. QED  BY <3>2, <3>3 DEF DraftsTimely
  <2>. QED  BY <2>1, <2>2
<1>4. DraftsTimely(card, tab, now)'
  BY <1>1, <1>3, SteadyFits DEF DraftsTimely, DraftsOf
<1>5. PromptFits(tab)'
  BY <1>1, <1>3, SteadyFits DEF PromptFits
<1>. QED  BY <1>4, <1>5

LEMMA PageFitsHolds ==
    ASSUME NullApart
    PROVE  Spec => []PageFits
<1>1. Init => PageFits
  BY DEF Init, PageFits, DraftsTimely, DraftsOf, PromptFits, NewCard, NewTab
<1>2. IInv /\ OrderSound /\ PageFits /\ [Next]_vars => PageFits'
  BY PageFitsStep
<1>. QED  BY <1>1, <1>2, IInvHolds, OrderSoundHolds, PTL DEF Spec

-----------------------------------------------------------------------------
(* What either maker signs.                                                *)

LEMMA ApprovedFits ==
    ASSUME IInv, PageFits, NEW delivery, ApproveFill(delivery),
           NEW f \in signed'.fills, f \notin signed.fills, RunwayKept(f)
    PROVE  FillFits(f)
<1>1. tab.fillPrompt # Null /\ signed' = [signed EXCEPT !.fills = @ \cup {tab.fillPrompt.fill}]
  BY DEF ApproveFill
<1>2. signed'.fills = signed.fills \cup {tab.fillPrompt.fill} /\ Browser
  BY <1>1 DEF IInv, SignedWell, TabWell
<1>3. f = tab.fillPrompt.fill
  BY <1>2
<1>. QED  BY <1>1, <1>2, <1>3 DEF PageFits, PromptFits

LEMMA HeadlessFits ==
    ASSUME NullApart, IInv, OrderSound, MakerLoads, NEW delivery, HeadlessSigns(delivery),
           NEW f \in signed'.fills, f \notin signed.fills
    PROVE  FillFits(f)
<1>. DEFINE draft == [card.draft EXCEPT !.respondBy = respondBy]
            fill == FillOf(draft, now)
<1>1. /\ Headless /\ card.selected # Null /\ fill.doc # Null
      /\ signed' = [signed EXCEPT !.fills = @ \cup {fill}]
  BY DEF HeadlessSigns
<1>2. CardLoads(card, order, now) /\ HeadlessDoc(order)
  BY <1>1 DEF MakerLoads
<1>3. HandleWell(card, signed.fills) /\ DraftWell(card.draft)
  BY <1>1, HeadlessCard DEF HandleWell
<1>4. IsIntent(card.selected) /\ card.selected.at <= now /\ card.draft.for = card.selected
  BY <1>1, <1>2, <1>3 DEF CardLoads, HandleWell
<1>5. draft = Draft(card.draft.for, card.draft.t1, card.draft.t2, respondBy)
  BY <1>3 DEF DraftWell, Draft
<1>6. respondBy \in Int
  <2>1. B!Earliest(RESPONSE, RESPONDER_TIMEOUT - RESPONDER_RUNWAY - 1) \in Int
    BY HandshakeAssumption, LimitsNat DEF B!Earliest
  <2>2. /\ now + B!Earliest(RESPONSE, RESPONDER_TIMEOUT - RESPONDER_RUNWAY - 1) \in Int
        /\ orderExpiry \in Int
    BY <2>1 DEF IInv, OrderSigned, orderExpiry
  <2>. QED  BY <2>2, EarliestInt DEF respondBy
<1>7. DraftWell(draft) /\ draft.respondBy = respondBy /\ draft.for = card.selected
  BY <1>3, <1>4, <1>5, <1>6 DEF DraftWell, Draft
<1>8. signed'.fills = signed.fills \cup {fill}
  BY <1>1 DEF IInv, SignedWell
<1>. HIDE DEF draft
<1>9. OrderSigned /\ cast.maker = "headless" /\ now \in Nat
  BY <1>1 DEF IInv, Headless
<1>10. draft.respondBy \in Int /\ draft.for.at <= now
  BY <1>4, <1>6, <1>7
<1>11. FillFits(fill)
  BY <1>1, <1>2, <1>7, <1>9, <1>10, HeadlessSignsFit
<1>. HIDE DEF fill
<1>. QED  BY <1>8, <1>11

LEMMA TakerSigns ==
    ASSUME NEW delivery, TakerActs(delivery)
    PROVE  signed' = signed
BY DEF TakerActs, AliceAsks, AlicePolls, AliceLeaves, Proposes, Abandons, StepReleases,
       AliceAborts, Releases, makerVars

LEMMA NewFillFits ==
    ASSUME NullApart, IInv, OrderSound, MakerLoads, PageFits, [Next]_vars,
           NEW f \in signed'.fills, f \notin signed.fills, RunwayKept(f)
    PROVE  FillFits(f)
<1>1. signed' # signed
  OBVIOUS
<1>2. CASE \E delivery \in Deliveries : MakerActs(delivery) \/ TakerActs(delivery)
  <2>1. PICK delivery : MakerActs(delivery)
    BY <1>1, <1>2, TakerSigns
  <2>2. CASE ApproveFill(delivery)
    BY <2>2, ApprovedFits
  <2>3. CASE HeadlessSigns(delivery)
    BY <2>3, HeadlessFits
  <2>4. CASE RetryFill(delivery) \/ ClickCancel(delivery)
    BY <1>1, <2>4 DEF RetryFill, ClickCancel
  <2>5. CASE ApproveCancel(delivery) \/ HeadlessCancels(delivery)
    <3>1. signed' = [signed EXCEPT !.cancel = TRUE]
      BY <2>5 DEF ApproveCancel, HeadlessCancels
    <3>2. signed'.fills = signed.fills
      BY <3>1 DEF IInv, SignedWell
    <3>. QED  BY <3>2
  <2>. QED  BY <2>1, <2>2, <2>3, <2>4, <2>5 DEF MakerActs
<1>3. CASE ~\E delivery \in Deliveries : MakerActs(delivery) \/ TakerActs(delivery)
  BY <1>1, <1>3 DEF Next, StartSignedSwap, RejectFill, RejectCancel, Poll, CloseFinished, Reload,
     HeadlessSelects, HeadlessRepublishes, PublishHeadless, RivalAsks, AliceSigns, AliceReplays,
     AliceFunds, StepEnds, StepAcknowledges, Tick, makerVars, vars
<1>. QED  BY <1>2, <1>3

LEMMA SignsAccepted ==
    ASSUME NullApart, IInv, OrderSound, MakerLoads, PageFits, [Next]_vars,
           NEW f \in signed'.fills \ signed.fills,
           prelock # Null => prelock.t1 - f.issuedAt >= PRELOCK_RUNWAY
    PROVE  /\ S!verifyOrderV1(order.order, order.auth, order.auth.issuedAt, FALSE)
           /\ BookAccepts(f) /\ BothTakersAccept(f)
<1>1. RunwayKept(f)
  BY DEF RunwayKept
<1>2. FillFits(f)
  BY <1>1, NewFillFits
<1>3. OrderSigned
  BY DEF IInv
<1>. QED  BY <1>2, <1>3, BookTakesFill, TakersTakeFill DEF OrderSound, ListedSound

\* protocol-signing.ts and orderSigning.ts: neither maker's key ever signs a
\* fill that the book, the browser's verifier or the scripted taker's refuses
\* when it was signed, whatever was saved, prompted or reloaded before; left
\* out is a browser's saved draft that was signed after the prelock's runway
\* was crossed.
THEOREM SignedAccepted ==
    ASSUME NullApart
    PROVE  Spec => SignedIsAccepted
<1>1. /\ IInv /\ OrderSound /\ MakerLoads /\ PageFits
      /\ [Next]_vars
      => [\A f \in signed'.fills \ signed.fills :
             (prelock # Null => prelock.t1 - f.issuedAt >= PRELOCK_RUNWAY) =>
                 /\ S!verifyOrderV1(order.order, order.auth, order.auth.issuedAt, FALSE)
                 /\ BookAccepts(f) /\ BothTakersAccept(f)]_vars
  BY SignsAccepted
<1>. QED  BY <1>1, IInvHolds, OrderSoundHolds, MakerLoadsHolds, PageFitsHolds, PTL
     DEF Spec, SignedIsAccepted

=============================================================================
