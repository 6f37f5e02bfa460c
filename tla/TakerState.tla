----------------------------- MODULE TakerState -----------------------------
(***************************************************************************)
(* The scripted taker's record of a take (marketmaker/src/taker-state.ts)  *)
(* and what it authenticates when it starts from it.  A parser is TRUE     *)
(* where the code does not throw.  The marks of its sends are left out:    *)
(* AtomicSwap has them.                                                    *)
(***************************************************************************)
EXTENDS TakerProofs, FiniteSets

\* The record of an order this client verified itself.
newTakerSwapRecord(id, verified, taker) ==
    [orderId |-> id, orderDigest |-> verified.orderDigest,
     order |-> verified.signed.order, orderAuth |-> verified.signed.auth,
     taker |-> taker, intents |-> {}, selectedIntentDigest |-> Null,
     fill |-> Null, fillDigest |-> Null,
     fillAcknowledged |-> FALSE, releaseObserved |-> FALSE]

parseCanonicalOrder(order) ==
    /\ order.visibility = "public" /\ order.allowedTaker = Null
    /\ order.prelock # Null => Canonical(order.prelock.hashlock) /\ order.prelock.t1 >= 0
    /\ Canonical(order.maker)

parseIntentRecord(entry) ==
    /\ parseFillIntentBody(entry.intent) /\ parseProtocolAuth(entry.auth)
    /\ entry.intentDigest = computeFillIntentDigest(entry.intent, entry.auth)
    /\ UintOrNull(entry.submittedAt) /\ UintOrNull(entry.releasedAt)

signedIntentOf(entry) == [intent |-> entry.intent, auth |-> entry.auth]

\* A proposal is verified as of the time it was signed.
IntentStands(entry, record) ==
    /\ computeReleaseCommitment(record.orderDigest, entry.auth.nonce, entry.releaseSecret)
          = entry.intent.releaseCommitment
    /\ entry.intent.orderDigest = record.orderDigest
    /\ verifyOwnIntent(signedIntentOf(entry), record.orderDigest, record.orderAuth,
                       entry.auth.issuedAt, TRUE)
    /\ entry.intent.taker = record.taker

selectedIntents(record) ==
    {entry \in record.intents : entry.intentDigest = record.selectedIntentDigest}

FillStands(record) ==
    LET fill == record.fill.fill  auth == record.fill.auth IN
    /\ parseFillBody(fill) /\ parseProtocolAuth(auth)
    /\ fill.orderDigest = record.orderDigest
    /\ \E selected \in selectedIntents(record) :
          fillBindingIsValid(fill, auth, record.orderAuth,
                             [orderDigest |-> record.orderDigest,
                              intent |-> signedIntentOf(selected),
                              intentDigest |-> selected.intentDigest],
                             record.order.prelock)
    /\ verifyOfficialV1Proof(record.order.maker, auth,
                             buildFillV1Payload(fill, record.orderAuth, auth))
    /\ record.fillDigest \in {Null, computeFillDigest(fill, record.orderAuth, auth)}

parseTakerSwapRecord(record, most) ==
    /\ parseCanonicalOrder(record.order) /\ parseMakerOrderAuth(record.orderAuth)
    /\ record.orderDigest = computeOrderDigest(record.order, record.orderAuth)
    /\ record.orderId = deriveOrderV1Id(record.order.maker, record.orderAuth.nonce)
    /\ Cardinality(record.intents) <= most
    /\ \A entry \in record.intents : parseIntentRecord(entry) /\ IntentStands(entry, record)
    /\ record.selectedIntentDigest # Null => selectedIntents(record) # {}
    /\ Canonical(record.taker)
    /\ record.fillAcknowledged => record.fill # Null
    /\ record.fill # Null => FillStands(record)

\* The order view settlement is driven from.
recordOrderRow(record) ==
    LET prelock == record.order.prelock IN
    [id |-> record.orderId, terms |-> record.order.terms, maker |-> record.order.maker,
     status |-> "open", taker |-> Null, visibility |-> "public", allowedTaker |-> Null,
     prelocked |-> prelock # Null,
     hashlock |-> IF prelock = Null THEN Null ELSE prelock.hashlock,
     initiatorTimeout |-> IF prelock = Null THEN Null ELSE prelock.t1,
     responderTimeout |-> Null, released |-> FALSE, equivocated |-> FALSE,
     makerAuth |-> record.orderAuth, orderDigest |-> record.orderDigest]

assertIdentity(record, identity) == record.taker = identity

\* The constructor, for one take of a session that can write.
Hydrates(record, identity, most) ==
    /\ parseTakerSwapRecord(record, most)
    /\ verifyMakerOrder(recordOrderRow(record), record.orderAuth.issuedAt, TRUE) # Null
    /\ assertIdentity(record, identity)

\* Where upsert() does not throw.
MayUpsert(record, identity, most) ==
    Cardinality(record.intents) <= most /\ assertIdentity(record, identity)
=============================================================================
