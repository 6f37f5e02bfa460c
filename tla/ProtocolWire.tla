---------------------------- MODULE ProtocolWire ----------------------------
(***************************************************************************)
(* The signed bytes of the portable protocol (protocol-v2-wire.ts, the     *)
(* same file in the server, the market maker and the browser) and the      *)
(* limits its three implementations state each in their own constants.     *)
(*                                                                         *)
(* A hash is collision free, so a digest is the message itself.  A         *)
(* signature is the signer and the bytes.  A text is its value and the     *)
(* letter case it is spelled in, for every verifier refuses what is not    *)
(* lower case and every signer converts.  The economic terms (direction,   *)
(* asset, amounts) are one value, and so are a party's two accounts.       *)
(***************************************************************************)
EXTENDS Integers

CONSTANTS
    Null,
    ORDER_LIFETIME,         \* MAX_ORDER_LIFETIME_S, ORDER_LIFETIME_S
    MIN_LIFETIME,           \* MIN_REMAINING_LIFETIME_S, MIN_ORDER_LIFETIME_S
    INTENT_LIFETIME,        \* MAX_FILL_INTENT_LIFETIME_S
    MIN_RESPONSE,           \* MIN_FILL_RESPONSE_S
    MAX_RESPONSE,           \* MAX_FILL_RESPONSE_S
    RESPONDER_RUNWAY,       \* MIN_RESPONDER_RUNWAY_AFTER_RESPONSE_S
    RESPONDER_WINDOW,       \* MAX_RESPONDER_WINDOW_S
    INITIATOR_WINDOW,       \* MAX_INITIATOR_WINDOW_S
    PRELOCK_RUNWAY,         \* MIN_PRELOCK_RUNWAY_S
    MIN_LISTING,            \* MIN_PRELOCK_LISTING_WINDOW_S
    MAX_LISTING,            \* MAX_PRELOCK_LISTING_WINDOW_S
    CLOCK_SKEW              \* MAX_CLOCK_SKEW_S

ASSUME WireAssumption ==
    /\ {ORDER_LIFETIME, MIN_LIFETIME, INTENT_LIFETIME, MIN_RESPONSE, MAX_RESPONSE,
        RESPONDER_RUNWAY, RESPONDER_WINDOW, INITIATOR_WINDOW, PRELOCK_RUNWAY,
        MIN_LISTING, MAX_LISTING, CLOCK_SKEW} \subseteq Nat
    /\ MIN_RESPONSE <= MAX_RESPONSE /\ MIN_LISTING <= MAX_LISTING
    /\ MIN_RESPONSE > 0 /\ MIN_LIFETIME > 0

Text(value, case) == [value |-> value, case |-> case]
Lower(t) == Text(t.value, "lower")
Canonical(t) == t.case = "lower"
Zero == Text(<<"zero">>, "lower")    \* EMPTY_HASHLOCK, EMPTY_CAPABILITY_COMMITMENT
Absent == Text("", "lower")          \* "" for a taker that is not restricted

PROTOCOL_V2_FIELDS ==
    [OrderV2 |-> {"terms", "maker", "visibility", "allowedTaker", "prelocked", "hashlock",
                  "initiatorTimeout", "issuedAt", "expiresAt", "nonce",
                  "makerTokenCommitment", "shareTokenCommitment"},
     FillIntentV2 |-> {"orderDigest", "requestNonce", "taker", "releaseCommitment",
                       "issuedAt", "expiresAt"},
     FillV2 |-> {"orderDigest", "orderNonce", "intentDigest", "fillNonce", "taker",
                 "releaseCommitment", "hashlock", "initiatorTimeout", "responderTimeout",
                 "issuedAt", "respondBy"},
     CancelV2 |-> {"orderDigest", "orderNonce", "cancelNonce", "issuedAt", "reasonCode"}]

\* The deployment, which is fixed in the build, goes into every message.
ORDER_V2_DOMAIN == "QuantaSwap 2 on the qualified HTLCv3 pair"

\* The bytes32 fields (a digest is always lower case); an account is a string,
\* which may be spelled in any case.
Bytes32Fields == {"hashlock", "nonce", "releaseCommitment", "requestNonce", "orderNonce",
                  "fillNonce", "cancelNonce", "makerTokenCommitment", "shareTokenCommitment"}

\* protocolMessageBytes() throws on a schema mismatch, on a bytes32 that is not
\* lower case and on a negative number: Null here.
protocolMessageBytes(primaryType, message) ==
    IF /\ DOMAIN message = PROTOCOL_V2_FIELDS[primaryType]
       /\ \A f \in DOMAIN message \cap Bytes32Fields : Canonical(message[f])
       /\ \A f \in DOMAIN message \cap {"issuedAt", "expiresAt", "respondBy",
                                        "initiatorTimeout", "responderTimeout"} : message[f] >= 0
    THEN [type |-> primaryType, domain |-> ORDER_V2_DOMAIN, message |-> message]
    ELSE Null

\* The ML-DSA library.
Signature(signer, bytes) == [by |-> signer, bytes |-> bytes]
verifyMessageForSigner(signer, signature, bytes) ==
    bytes # Null /\ signature = Signature(signer, bytes)

computeReleaseCommitment(orderDigest, requestNonce, secret) ==
    Text(<<"ReleaseV2", orderDigest, requestNonce, secret>>, "lower")

capabilityCommitment(domain, token) == Text(<<domain, token>>, "lower")

deriveOrderV1Id(maker, nonce) == <<"OrderV2 id", maker, nonce>>
=============================================================================
