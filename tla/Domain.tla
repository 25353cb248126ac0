------------------------------- MODULE Domain -------------------------------
(***************************************************************************)
(* The signed-message contract (domain.rs): the three builders whose       *)
(* output is all that the identity key (slot 0x0010) ever signs.  A byte   *)
(* string is a sequence of bytes.  The constants of the code (the tags,    *)
(* the nonce length, the radix of the big-endian u16 length prefix) are    *)
(* parameters: the theorems hold for every choice that satisfies the named *)
(* assumptions, and TLC can take a radix for which the u16 limit is near.  *)
(***************************************************************************)
EXTENDS Integers, Sequences

CONSTANTS
  LenRadix,                  \* 256: what one byte of the u16 length counts
  NONCE_LEN,                 \* 32
  SESSION_CHALLENGE_DOMAIN,  \* b"DIGNET-SESSION-v1"
  SIGN_CALLBACK_DOMAIN,      \* b"DIGNET-SIGN-v1"
  USER_SIGN_DOMAIN,          \* b"DIGNET-USER-SIGN-v1"
  None                       \* the None of Option<Vec<u8>>

Byte == 0 .. 255

Bytes == Seq(Byte)

\* Neither tag is a prefix of the other: they differ at a shared position.
Diverge(s, t) == \E i \in 1 .. Len(s) : i <= Len(t) /\ s[i] # t[i]

ASSUME LengthAssumption ==
  /\ LenRadix \in 1 .. 256
  /\ NONCE_LEN \in Nat

ASSUME TagAssumption ==
  /\ SESSION_CHALLENGE_DOMAIN \in Bytes
  /\ SIGN_CALLBACK_DOMAIN \in Bytes
  /\ USER_SIGN_DOMAIN \in Bytes
  /\ Diverge(SESSION_CHALLENGE_DOMAIN, SIGN_CALLBACK_DOMAIN)
  /\ Diverge(SESSION_CHALLENGE_DOMAIN, USER_SIGN_DOMAIN)
  /\ Diverge(SIGN_CALLBACK_DOMAIN, USER_SIGN_DOMAIN)

ASSUME NoneAssumption == None \notin Bytes
-----------------------------------------------------------------------------
(***************************************************************************)
(* The builders.  challenge_message joins a nonce of any length; that its  *)
(* callers pass NONCE_LEN bytes is checked where the nonce enters (see     *)
(* IdentityKey and SessionClient).                                         *)
(***************************************************************************)
challenge_message(nonce, profile_did) ==
  SESSION_CHALLENGE_DOMAIN \o (nonce \o profile_did)

U16_MAX == LenRadix * LenRadix - 1

\* type_len.to_be_bytes(): the most significant byte first.
len16(n) == << n \div LenRadix, n % LenRadix >>

\* Mutant: the length prefix is left out.
callback_message_without_length(payload_type, payload) ==
  IF Len(payload_type) > U16_MAX
    THEN None
    ELSE SIGN_CALLBACK_DOMAIN \o (payload_type \o payload)

sign_callback_message(payload_type, payload) ==
  IF Len(payload_type) > U16_MAX
    THEN None
    ELSE SIGN_CALLBACK_DOMAIN \o
           (len16(Len(payload_type)) \o (payload_type \o payload))

user_sign_message(message) == USER_SIGN_DOMAIN \o message
=============================================================================
