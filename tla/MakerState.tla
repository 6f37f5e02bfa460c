----------------------------- MODULE MakerState -----------------------------
(***************************************************************************)
(* What the market maker authenticates when it starts from its state file  *)
(* (marketmaker/src/state.ts): the parsers state every limit of the        *)
(* protocol again, apart from the signers, and a record they refuse keeps  *)
(* the daemon down.  Each is TRUE where the code does not throw.           *)
(***************************************************************************)
EXTENDS MakerSigning

\* The hash of node's crypto, which is collision free.
sha256(preimage) == Text(<<"hash", preimage>>, "lower")

exactProofKeys(value, keys) == DOMAIN value = keys
proofString(text) == Canonical(text)
proofInteger(n) == n >= 0

parseIntentAuth(auth, maxLifetime) ==
    /\ exactProofKeys(auth, {"issuedAt", "expiresAt", "nonce", "signature"})
    /\ proofInteger(auth.issuedAt) /\ proofInteger(auth.expiresAt)
    /\ auth.expiresAt > auth.issuedAt /\ auth.expiresAt - auth.issuedAt <= maxLifetime
    /\ proofString(auth.nonce)

parseMakerAuth(auth) ==
    LET commitments == {"makerTokenCommitment", "shareTokenCommitment"} IN
    /\ commitments \subseteq DOMAIN auth
    /\ parseIntentAuth([f \in DOMAIN auth \ commitments |-> auth[f]], ORDER_LIFETIME)
    /\ \A c \in commitments : proofString(auth[c])

verifyMakerProof(signer, auth, payload) == verifyOfficialV1Proof(signer, auth, payload)

parseTerminalMakerAuth(auth) == parseIntentAuth(auth, ORDER_LIFETIME)

parseCanonicalOrder(order) ==
    /\ order.visibility \in {"public", "private"}
    /\ order.visibility = "public" => order.allowedTaker = Null
    /\ order.allowedTaker # Null => proofString(order.allowedTaker)
    /\ order.prelock # Null =>
          /\ exactProofKeys(order.prelock, {"hashlock", "t1"})
          /\ proofString(order.prelock.hashlock) /\ proofInteger(order.prelock.t1)
    /\ proofString(order.maker)

parseIntentBody(intent) ==
    /\ exactProofKeys(intent, {"orderDigest", "taker", "releaseCommitment"})
    /\ proofString(intent.taker) /\ proofString(intent.releaseCommitment)

\* A proposal is verified as of the time it was signed, however late it is.
parseSelectedIntent(selected, orderDigest, orderAuth) ==
    /\ exactProofKeys(selected, {"intentDigest", "intent", "auth", "receivedAt"})
    /\ parseIntentBody(selected.intent)
    /\ parseIntentAuth(selected.auth, INTENT_LIFETIME)
    /\ selected.intent.orderDigest = orderDigest
    /\ computeFillIntentDigest(selected.intent, selected.auth) = selected.intentDigest
    /\ verifyFillIntentV1(selected.intent, selected.auth, orderDigest,
                          selected.auth.issuedAt, orderAuth)
    /\ proofInteger(selected.receivedAt)

parseFillBody(fill) ==
    /\ exactProofKeys(fill, {"orderDigest", "intentDigest", "taker", "releaseCommitment",
                             "hashlock", "initiatorTimeout", "responderTimeout"})
    /\ proofString(fill.taker) /\ proofString(fill.releaseCommitment)
    /\ proofString(fill.hashlock)
    /\ proofInteger(fill.initiatorTimeout) /\ proofInteger(fill.responderTimeout)

FillSelects(fill, selected) ==
    /\ fill.orderDigest = selected.intent.orderDigest
    /\ fill.intentDigest = selected.intentDigest
    /\ fill.taker = selected.intent.taker
    /\ fill.releaseCommitment = selected.intent.releaseCommitment
    /\ fill.hashlock # Zero

\* Mutated form, used to check that the properties can fail: the answer is held
\* to the proposal's expiry, not to the order's.
FillAuthBounds_Proposal(fill, auth, orderAuth, selected) ==
    /\ auth.issuedAt >= selected.auth.issuedAt /\ auth.issuedAt < selected.auth.expiresAt
    /\ auth.expiresAt <= selected.auth.expiresAt
    /\ auth.expiresAt - auth.issuedAt \in MIN_RESPONSE .. MAX_RESPONSE
    /\ fill.responderTimeout - auth.expiresAt > RESPONDER_RUNWAY

FillAuthBounds(fill, auth, orderAuth, selected) ==
    /\ auth.issuedAt >= selected.auth.issuedAt /\ auth.issuedAt < selected.auth.expiresAt
    /\ auth.expiresAt <= orderAuth.expiresAt
    /\ auth.expiresAt - auth.issuedAt \in MIN_RESPONSE .. MAX_RESPONSE
    /\ fill.responderTimeout - auth.expiresAt > RESPONDER_RUNWAY

FillWindowBounds(fill, auth, order) ==
    LET initiatorWindow == fill.initiatorTimeout - auth.issuedAt
        responderWindow == fill.responderTimeout - auth.issuedAt
    IN /\ responderWindow > 0 /\ initiatorWindow >= responderWindow
       /\ responderWindow <= initiatorWindow \div 2 /\ responderWindow <= RESPONDER_WINDOW
       /\ order.prelock = Null => initiatorWindow <= INITIATOR_WINDOW
       /\ order.prelock # Null =>
             fill.hashlock = order.prelock.hashlock /\ fill.initiatorTimeout = order.prelock.t1

parseFillProof(proof, order, orderAuth, selected) ==
    /\ exactProofKeys(proof, {"fill", "auth"})
    /\ parseFillBody(proof.fill) /\ parseTerminalMakerAuth(proof.auth)
    /\ computeFillDigest(proof.fill, orderAuth, proof.auth) # Null
    /\ verifyMakerProof(order.maker, proof.auth,
                        buildFillV1Payload(proof.fill, orderAuth, proof.auth))
    /\ FillSelects(proof.fill, selected)
    /\ FillAuthBounds(proof.fill, proof.auth, orderAuth, selected)
    /\ FillWindowBounds(proof.fill, proof.auth, order)

parseCancelProof(proof, order, orderDigest, orderAuth) ==
    /\ exactProofKeys(proof, {"cancel", "auth"})
    /\ exactProofKeys(proof.cancel, {"orderDigest", "reasonCode"})
    /\ proof.cancel.reasonCode \in 0 .. 255
    /\ parseTerminalMakerAuth(proof.auth)
    /\ computeCancelDigest(proof.cancel, orderAuth, proof.auth) # Null
    /\ verifyMakerProof(order.maker, proof.auth,
                        buildCancelV1Payload(proof.cancel, orderAuth, proof.auth))
    /\ proof.cancel.orderDigest = orderDigest
    /\ proof.auth.expiresAt = orderAuth.expiresAt

-----------------------------------------------------------------------------
(* A record is the managed order with the protocol state it was signed     *)
(* under; a proof it does not hold is Null.                                *)

ProtocolOrder(protocol, record) ==
    LET order == protocol.order  auth == protocol.orderAuth IN
    /\ parseCanonicalOrder(order) /\ order.visibility = "public"
    /\ parseMakerAuth(auth)
    /\ auth.makerTokenCommitment # Zero /\ auth.shareTokenCommitment = Zero
    /\ capabilityCommitment("Maker", record.token) = auth.makerTokenCommitment
    /\ order.prelock # Null =>
          /\ order.prelock.t1 - auth.issuedAt \in MIN_LISTING .. MAX_LISTING
          /\ auth.expiresAt <= order.prelock.t1
    /\ computeOrderDigest(order, auth) = protocol.orderDigest
    /\ verifyMakerProof(order.maker, auth, buildOrderV1Payload(order, auth))
    /\ record.id = deriveOrderV1Id(order.maker, auth.nonce)
    /\ record.terms = order.terms

ProtocolProofs(protocol) ==
    LET order == protocol.order  auth == protocol.orderAuth IN
    /\ protocol.selectedIntent # Null =>
          parseSelectedIntent(protocol.selectedIntent, protocol.orderDigest, auth)
    /\ protocol.fillProof # Null =>
          /\ protocol.selectedIntent # Null
          /\ parseFillProof(protocol.fillProof, order, auth, protocol.selectedIntent)
    /\ protocol.cancelProof # Null =>
          parseCancelProof(protocol.cancelProof, order, protocol.orderDigest, auth)
    /\ protocol.fillProof = Null \/ protocol.cancelProof = Null
    /\ protocol.fillAcknowledged => protocol.fillProof # Null
    /\ protocol.releaseObserved => protocol.fillAcknowledged

ProtocolProjection(protocol, record) ==
    /\ protocol.selectedIntent # Null =>
          /\ Null \notin {record.preimage, record.hashlock, record.initiatorTimeout,
                          record.responderTimeout}
          /\ record.taker = protocol.selectedIntent.intent.taker
          /\ sha256(record.preimage) = record.hashlock
    /\ protocol.fillProof # Null =>
          /\ protocol.fillProof.fill.hashlock = record.hashlock
          /\ protocol.fillProof.fill.initiatorTimeout = record.initiatorTimeout
          /\ protocol.fillProof.fill.responderTimeout = record.responderTimeout
    /\ protocol.cancelProof = Null \/ protocol.selectedIntent = Null

parseProtocol(protocol, record) ==
    /\ ProtocolOrder(protocol, record)
    /\ ProtocolProofs(protocol)
    /\ ProtocolProjection(protocol, record)

isPersistedOrder(record) ==
    /\ \A n \in {record.initiatorTimeout, record.responderTimeout} : n = Null \/ n >= 0
    /\ record.createdAt >= 0

\* The constructor, for one order.
Hydrates(record) == isPersistedOrder(record) /\ parseProtocol(record.protocol, record)
=============================================================================
