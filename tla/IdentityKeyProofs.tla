-------------------------- MODULE IdentityKeyProofs -------------------------
(***************************************************************************)
(* No signing oracle, for every key, every engine and every choice of tags *)
(* that satisfies TagAssumption.                                           *)
(***************************************************************************)
EXTENDS IdentityKey, SequenceTheorems, TLAPS

(***************************************************************************)
(* The split point of a concatenation is fixed by the length of its first  *)
(* part: what the fixed-length nonce and the length prefix provide.        *)
(***************************************************************************)
LEMMA ConcatSplit ==
  ASSUME NEW s \in Bytes, NEW t \in Bytes, NEW u \in Bytes, NEW v \in Bytes,
         Len(s) = Len(t), s \o u = t \o v
  PROVE  s = t /\ u = v
PROOF
  <1>1. s = t
    <2>1. \A i \in 1 .. Len(s) : (s \o u)[i] = s[i] /\ (t \o v)[i] = t[i]
      BY ConcatProperties, LenProperties DEF Bytes
    <2> QED
      BY <2>1, SeqEqual DEF Bytes
  <1>2. u = v
    BY <1>1, ConcatSimplifications DEF Bytes
  <1> QED
    BY <1>1, <1>2

(***************************************************************************)
(* A common first part, such as a tag, can be cancelled.                   *)
(***************************************************************************)
LEMMA SamePrefix ==
  ASSUME NEW s \in Bytes, NEW u \in Bytes, NEW v \in Bytes, s \o u = s \o v
  PROVE  u = v
PROOF
  BY ConcatSplit

(***************************************************************************)
(* Messages under tags that diverge are different, whatever follows.       *)
(***************************************************************************)
LEMMA TagSeparates ==
  ASSUME NEW s \in Bytes, NEW t \in Bytes, NEW u \in Bytes, NEW v \in Bytes,
         Diverge(s, t)
  PROVE  s \o u # t \o v
PROOF
  <1>1. PICK i \in 1 .. Len(s) : i <= Len(t) /\ s[i] # t[i]
    BY DEF Diverge
  <1>2. (s \o u)[i] = s[i] /\ (t \o v)[i] = t[i]
    BY <1>1, ConcatProperties, LenProperties DEF Bytes
  <1> QED
    BY <1>1, <1>2

(***************************************************************************)
(* Two big-endian digits of radix LenRadix determine every number up to    *)
(* U16_MAX, and each is a byte.                                            *)
(***************************************************************************)
LEMMA Len16Facts ==
  ASSUME NEW m \in 0 .. U16_MAX, NEW n \in 0 .. U16_MAX
  PROVE  /\ len16(m) \in Bytes
         /\ Len(len16(m)) = 2
         /\ len16(m) = len16(n) => m = n
PROOF
  <1>1. m = LenRadix * (m \div LenRadix) + (m % LenRadix)
    BY LengthAssumption DEF U16_MAX
  <1>2. n = LenRadix * (n \div LenRadix) + (n % LenRadix)
    BY LengthAssumption DEF U16_MAX
  <1>3. m % LenRadix \in Byte
    BY LengthAssumption DEF U16_MAX, Byte
  <1>4. m \div LenRadix \in Byte
    BY LengthAssumption DEF U16_MAX, Byte
  <1> QED
    BY <1>1, <1>2, <1>3, <1>4 DEF len16, Bytes

(***************************************************************************)
(* Each builder is injective in its fields.  challenge_message is so only  *)
(* for nonces of equal length: the check in begin_and_attach matters.      *)
(***************************************************************************)
LEMMA ChallengeInjective ==
  ASSUME NEW m \in Bytes, NEW d \in Bytes, NEW n \in Bytes, NEW e \in Bytes,
         Len(m) = Len(n), challenge_message(m, d) = challenge_message(n, e)
  PROVE  m = n /\ d = e
PROOF
  <1>1. m \o d \in Bytes /\ n \o e \in Bytes
    BY ConcatProperties DEF Bytes
  <1>2. m \o d = n \o e
    <2>1. SESSION_CHALLENGE_DOMAIN \o (m \o d) = SESSION_CHALLENGE_DOMAIN \o (n \o e)
      BY DEF challenge_message
    <2>2. SESSION_CHALLENGE_DOMAIN \in Bytes
      BY TagAssumption
    <2> QED
      BY <1>1, <2>1, <2>2, SamePrefix
  <1> QED
    BY <1>2, ConcatSplit

(***************************************************************************)
(* u16::try_from succeeds exactly for the lengths that two digits hold.    *)
(***************************************************************************)
LEMMA FitsU16 ==
  ASSUME NEW t \in Bytes, NEW p, sign_callback_message(t, p) # None
  PROVE  Len(t) \in 0 .. U16_MAX
PROOF
  <1>1. ~ (Len(t) > U16_MAX)
    BY DEF sign_callback_message
  <1>2. Len(t) \in Nat
    BY LenProperties DEF Bytes
  <1>3. U16_MAX \in Int
    BY LengthAssumption DEF U16_MAX
  <1> QED
    BY <1>1, <1>2, <1>3

(***************************************************************************)
(* The length prefix makes the boundary of type and payload unambiguous.   *)
(***************************************************************************)
LEMMA CallbackInjective ==
  ASSUME NEW t \in Bytes, NEW p \in Bytes, NEW u \in Bytes, NEW q \in Bytes,
         sign_callback_message(t, p) # None,
         sign_callback_message(t, p) = sign_callback_message(u, q)
  PROVE  t = u /\ p = q
PROOF
  <1>1. Len(t) \in 0 .. U16_MAX /\ Len(u) \in 0 .. U16_MAX
    BY FitsU16
  <1> DEFINE tn == len16(Len(t))
             un == len16(Len(u))
             tp == t \o p
             uq == u \o q
  <1>2. tp \in Bytes /\ uq \in Bytes
    BY ConcatProperties DEF Bytes
  <1>3. tn \in Bytes /\ un \in Bytes /\ Len(tn) = Len(un)
    BY <1>1, Len16Facts
  <1>4. SIGN_CALLBACK_DOMAIN \o (tn \o tp) = SIGN_CALLBACK_DOMAIN \o (un \o uq)
    BY DEF sign_callback_message
  <1>5. tn = un /\ tp = uq
    <2> HIDE DEF tn, un, tp, uq
    <2>1. tn \o tp \in Bytes /\ un \o uq \in Bytes
      BY <1>2, <1>3, ConcatProperties DEF Bytes
    <2>2. SIGN_CALLBACK_DOMAIN \in Bytes
      BY TagAssumption
    <2>3. tn \o tp = un \o uq
      BY <1>4, <2>1, <2>2, SamePrefix
    <2> QED
      BY <1>2, <1>3, <2>3, ConcatSplit
  <1>6. Len(t) = Len(u)
    BY <1>1, <1>5, Len16Facts
  <1> QED
    BY <1>5, <1>6, ConcatSplit

(***************************************************************************)
(* The inductive invariant: the bytes of a signed message are what the     *)
(* builder of its purpose makes of its fields, and the nonce of an attach  *)
(* message has the length of the contract.                                 *)
(***************************************************************************)
Built(m) ==
  \/ /\ m.purpose = "attach"
     /\ Len(m.fst) = NONCE_LEN
     /\ m.bytes = challenge_message(m.fst, m.snd)
  \/ /\ m.purpose = "callback"
     /\ sign_callback_message(m.fst, m.snd) # None
     /\ m.bytes = sign_callback_message(m.fst, m.snd)
  \/ /\ m.purpose = "user"
     /\ m.fst = << >>
     /\ m.bytes = user_sign_message(m.snd)

IInv == TypeOK /\ \A m \in signed : Built(m)

(***************************************************************************)
(* Every builder that yields a message yields a byte string.               *)
(***************************************************************************)
LEMMA BuilderTypes ==
  ASSUME NEW x \in Bytes, NEW y \in Bytes
  PROVE  /\ challenge_message(x, y) \in Bytes
         /\ sign_callback_message(x, y) # None
              => sign_callback_message(x, y) \in Bytes
         /\ user_sign_message(y) \in Bytes
PROOF
  <1>1. challenge_message(x, y) \in Bytes
    BY TagAssumption, ConcatProperties DEF challenge_message, Bytes
  <1>2. ASSUME sign_callback_message(x, y) # None
        PROVE  sign_callback_message(x, y) \in Bytes
    <2>1. Len(x) \in 0 .. U16_MAX
      BY <1>2, FitsU16
    <2>2. len16(Len(x)) \in Bytes
      BY <2>1, Len16Facts
    <2> QED
      BY <1>2, <2>2, TagAssumption, ConcatProperties
      DEF sign_callback_message, Bytes
  <1>3. user_sign_message(y) \in Bytes
    BY TagAssumption, ConcatProperties DEF user_sign_message, Bytes
  <1> QED
    BY <1>1, <1>2, <1>3

(***************************************************************************)
(* Two signed messages with the same bytes are the same message: the tags  *)
(* exclude two purposes, the builders' injectivity two readings of one.    *)
(***************************************************************************)
LEMMA BuiltOnce ==
  ASSUME NEW a \in SignedMessage, NEW b \in SignedMessage,
         Built(a), Built(b), a.bytes = b.bytes
  PROVE  a = b
PROOF
  <1> DEFINE T(m) == CASE m.purpose = "attach" -> SESSION_CHALLENGE_DOMAIN
                       [] m.purpose = "callback" -> SIGN_CALLBACK_DOMAIN
                       [] m.purpose = "user" -> USER_SIGN_DOMAIN
  <1>1. ASSUME NEW m \in SignedMessage, Built(m)
        PROVE  \E rest \in Bytes : m.bytes = T(m) \o rest
    <2>1. m.fst \in Bytes /\ m.snd \in Bytes
      BY DEF SignedMessage
    <2>2. CASE m.purpose = "attach"
      <3>1. m.fst \o m.snd \in Bytes
        BY <2>1, ConcatProperties DEF Bytes
      <3> QED
        BY <1>1, <2>2, <3>1 DEF Built, challenge_message
    <2>3. CASE m.purpose = "callback"
      <3>1. sign_callback_message(m.fst, m.snd) # None
        BY <1>1, <2>3 DEF Built
      <3>2. len16(Len(m.fst)) \in Bytes
        BY <2>1, <3>1, FitsU16, Len16Facts
      <3>3. len16(Len(m.fst)) \o (m.fst \o m.snd) \in Bytes
        BY <2>1, <3>2, ConcatProperties DEF Bytes
      <3> QED
        BY <1>1, <2>3, <3>1, <3>3 DEF Built, sign_callback_message
    <2>4. CASE m.purpose = "user"
      BY <1>1, <2>1, <2>4 DEF Built, user_sign_message
    <2> QED
      BY <2>2, <2>3, <2>4 DEF SignedMessage
  <1>2. a.purpose = b.purpose
    <2>1. PICK r \in Bytes : a.bytes = T(a) \o r
      BY <1>1
    <2>2. PICK q \in Bytes : b.bytes = T(b) \o q
      BY <1>1
    <2>3. T(a) \in Bytes /\ T(b) \in Bytes
      BY TagAssumption DEF SignedMessage
    <2>4. ~ Diverge(T(a), T(b)) /\ ~ Diverge(T(b), T(a))
      BY <2>1, <2>2, <2>3, TagSeparates
    <2> QED
      BY <2>4, TagAssumption DEF SignedMessage
  <1>3. a.fst = b.fst /\ a.snd = b.snd
    <2>1. a.fst \in Bytes /\ a.snd \in Bytes /\ b.fst \in Bytes /\ b.snd \in Bytes
      BY DEF SignedMessage
    <2>2. CASE a.purpose = "attach"
      BY <1>2, <2>1, <2>2, ChallengeInjective DEF Built
    <2>3. CASE a.purpose = "callback"
      BY <1>2, <2>1, <2>3, CallbackInjective DEF Built
    <2>4. CASE a.purpose = "user"
      <3>1. USER_SIGN_DOMAIN \o a.snd = USER_SIGN_DOMAIN \o b.snd
        BY <1>2, <2>4 DEF Built, user_sign_message
      <3>2. USER_SIGN_DOMAIN \in Bytes
        BY TagAssumption
      <3>3. a.snd = b.snd
        BY <2>1, <3>1, <3>2, ConcatSplit
      <3> QED
        BY <1>2, <2>4, <3>3 DEF Built
    <2> QED
      BY <2>2, <2>3, <2>4 DEF SignedMessage
  <1> QED
    BY <1>2, <1>3 DEF SignedMessage

(***************************************************************************)
(* Whatever the engine and the user ask the identity key to sign, and in   *)
(* whatever order, every message it signs was made by the builder of its   *)
(* purpose from the fields the signer was shown (client.rs, domain.rs).    *)
(***************************************************************************)
THEOREM SignedMessagesAreBuilt == Spec => []IInv
PROOF
  <1>1. Init => IInv
    BY DEF Init, IInv, TypeOK
  <1>2. IInv /\ [Next]_signed => IInv'
    <2> SUFFICES ASSUME IInv, [Next]_signed PROVE IInv'
      OBVIOUS
    <2>1. ASSUME NEW nonce \in Nonces, NEW did \in Dids, SignChallenge(nonce, did)
          PROVE  IInv'
      <3>1. nonce \in Bytes /\ did \in Bytes
        BY InputAssumption
      <3>2. challenge_message(nonce, did) \in Bytes
        BY <3>1, BuilderTypes
      <3> QED
        BY <2>1, <3>1, <3>2
        DEF SignChallenge, Sign, IInv, TypeOK, SignedMessage, Built
    <2>2. ASSUME NEW type \in PayloadTypes, NEW payload \in Payloads,
                 SignCallback(type, payload)
          PROVE  IInv'
      <3>1. type \in Bytes /\ payload \in Bytes
        BY InputAssumption
      <3>2. sign_callback_message(type, payload) \in Bytes
        BY <2>2, <3>1, BuilderTypes DEF SignCallback
      <3> QED
        BY <2>2, <3>1, <3>2
        DEF SignCallback, Sign, IInv, TypeOK, SignedMessage, Built
    <2>3. ASSUME NEW message \in UserMessages, SignUserMessage(message)
          PROVE  IInv'
      <3>1. message \in Bytes
        BY InputAssumption
      <3>2. user_sign_message(message) \in Bytes
        BY <3>1, BuilderTypes
      <3>3. << >> \in Bytes
        BY EmptySeq DEF Bytes
      <3> QED
        BY <2>3, <3>1, <3>2, <3>3
        DEF SignUserMessage, Sign, IInv, TypeOK, SignedMessage, Built
    <2>4. CASE UNCHANGED signed
      BY <2>4 DEF IInv, TypeOK
    <2> QED
      BY <2>1, <2>2, <2>3, <2>4 DEF Next
  <1> QED
    BY <1>1, <1>2, PTL DEF Spec

(***************************************************************************)
(* Whatever sign_with is called with (domain.rs), what is recorded is a    *)
(* domain and a string of bytes.                                           *)
(***************************************************************************)
THEOREM IdentityKeyTypes == Spec => []TypeOK
PROOF
  <1>1. IInv => TypeOK
    BY DEF IInv
  <1> QED
    BY <1>1, SignedMessagesAreBuilt, PTL

(***************************************************************************)
(* No signing oracle, for every set of nonces, DIDs, payloads and messages *)
(* (domain.rs; SPEC section 6, invariant 2).                               *)
(***************************************************************************)
THEOREM NoSigningOracleTheorem == Spec => []NoSigningOracle
PROOF
  <1>1. IInv => NoSigningOracle
    BY BuiltOnce DEF IInv, TypeOK, NoSigningOracle
  <1> QED
    BY <1>1, SignedMessagesAreBuilt, PTL
=============================================================================
