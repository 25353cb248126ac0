----------------------------- MODULE IdentityKey ----------------------------
(***************************************************************************)
(* Everything one identity key is asked to sign over its life, whatever    *)
(* the order: attach challenges over a nonce and a DID (client.rs,         *)
(* begin_and_attach), engine callbacks over a payload type and a payload   *)
(* the engine chooses (client.rs, service_sign_callback) and the user's    *)
(* own messages (the `dign sign` gateway, outside this crate, which signs  *)
(* user_sign_message).  A signature is represented by the byte string it   *)
(* is over; `signed` remembers with it the purpose and the fields the      *)
(* signer was shown.                                                       *)
(***************************************************************************)
EXTENDS Domain, FiniteSets

CONSTANTS
  Nonces,        \* nonces an engine sends, of any length
  Dids,          \* profile DIDs
  PayloadTypes,  \* payload types an engine sends
  Payloads,      \* payloads an engine sends
  UserMessages,  \* messages of the user
  MaxSigned      \* bound: how many different messages are signed

ASSUME InputAssumption ==
  /\ Nonces \subseteq Bytes
  /\ Dids \subseteq Bytes
  /\ PayloadTypes \subseteq Bytes
  /\ Payloads \subseteq Bytes
  /\ UserMessages \subseteq Bytes
  /\ MaxSigned \in Nat

VARIABLE signed

SignedMessage ==
  [purpose: {"attach", "callback", "user"}, fst: Bytes, snd: Bytes, bytes: Bytes]

TypeOK == signed \subseteq SignedMessage

Init == signed = {}

Sign(purpose, fst, snd, bytes) ==
  /\ signed' = signed \cup
       {[purpose |-> purpose, fst |-> fst, snd |-> snd, bytes |-> bytes]}
  /\ Cardinality(signed') <= MaxSigned

\* begin_and_attach: a nonce of the wrong length is refused before signing.
SignChallenge(nonce, did) ==
  /\ Len(nonce) = NONCE_LEN
  /\ Sign("attach", nonce, did, challenge_message(nonce, did))

\* Mutant: the None of an overlong payload type is signed too.
SignCallbackUnchecked(payload_type, payload) ==
  Sign("callback", payload_type, payload,
       sign_callback_message(payload_type, payload))

\* service_sign_callback: an overlong payload type is answered with an error.
SignCallback(payload_type, payload) ==
  /\ sign_callback_message(payload_type, payload) # None
  /\ Sign("callback", payload_type, payload,
          sign_callback_message(payload_type, payload))

\* `dign sign`: one field only.
SignUserMessage(message) ==
  Sign("user", << >>, message, user_sign_message(message))

Next ==
  \/ \E nonce \in Nonces, did \in Dids : SignChallenge(nonce, did)
  \/ \E type \in PayloadTypes, payload \in Payloads : SignCallback(type, payload)
  \/ \E message \in UserMessages : SignUserMessage(message)

Spec == Init /\ [][Next]_signed
-----------------------------------------------------------------------------
(***************************************************************************)
(* No signing oracle (domain.rs, module documentation; SPEC section 2): a  *)
(* byte string is signed for one purpose and one reading of its fields     *)
(* only, so a verifier that rebuilds the bytes knows what the signer was   *)
(* shown, whatever nonce, payload type or payload the engine chose.        *)
(***************************************************************************)
NoSigningOracle == \A a, b \in signed : a.bytes = b.bytes => a = b
=============================================================================
