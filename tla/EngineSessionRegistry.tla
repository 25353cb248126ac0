----------------------- MODULE EngineSessionRegistry ------------------------
(***************************************************************************)
(* The engine role-half (engine.rs): EngineSessionRegistry mints a nonce   *)
(* and a candidate token per begin, holds the handshake until the matching *)
(* attach or its eviction, and tracks the open sessions.  Each handler     *)
(* takes &mut self, so each is one action.  Any caller may call them, in   *)
(* any order, with any candidate, DID and signature.                       *)
(*                                                                         *)
(* The 32-byte values drawn from the entropy source (nonces, candidates,   *)
(* session ids) are numbers.  A signature is the key that made it and the  *)
(* message it is over; messages are tagged tuples, which is sound because  *)
(* the byte-level builders are injective and their images disjoint (proved *)
(* in IdentityKeyProofs).  Of a ProfileAttachment only the DID is kept: no *)
(* check reads the subscriptions or the config digest.                     *)
(***************************************************************************)
EXTENDS Integers, Sequences, FiniteSets, Functions, SequencesExt

CONSTANTS
  DIDs,                    \* profile DIDs
  Keys,                    \* signing public keys
  NoKey,                   \* what the resolver answers for an unknown DID
  BadText,                 \* a field that is not base64 / hex of the right length
  Garbage,                 \* 96 bytes that no key signed (the all-zero signature)
  MAX_PENDING_CANDIDATES,  \* 256
  FreshEntropy,            \* fill_nonce honours its contract: no repeated value
  RepeatedValues,          \* what a source that breaks it yields, over and over
  MaxDraws                 \* bound: how many values are drawn from the entropy source

ASSUME EngineAssumption ==
  /\ MAX_PENDING_CANDIDATES \in Nat \ {0}
  /\ MaxDraws \in Nat
  /\ FreshEntropy \in BOOLEAN
  /\ RepeatedValues \subseteq 1 .. MaxDraws
  /\ NoKey \notin Keys
  /\ BadText \notin Keys

VARIABLES
  drawn,            \* how many values the entropy source has yielded
  pending,          \* outstanding handshakes, by candidate
  candidate_order,  \* the candidates in the order of their begin
  sessions,         \* open sessions, by session id
  published,        \* what the resolver answers for each DID
  begins,           \* history: every successful begin, in order
  spent,            \* history: the candidates an attach consumed
  opened            \* history: every session an attach opened

registry == << drawn, pending, candidate_order, sessions >>
history == << begins, spent, opened >>
engine == << registry, published, history >>

Token == 1 .. MaxDraws

\* The i-th value of a handler's calls to fill_nonce.  A source that breaks
\* its contract may yield any of its values again.
fill_nonce(i) == IF FreshEntropy THEN {drawn + i} ELSE RepeatedValues

\* SigningPublicKey::from_hex succeeds.
AnyTextIsAKey(text) == TRUE   \* mutant: the text is not validated
from_hex(text) == text \in Keys

challenge_message(nonce, did) == << "DIGNET-SESSION-v1", nonce, did >>

\* Text that does not decode is no signature.
ASSUME TextAssumption ==
  BadText \notin [key: Keys, over: {challenge_message(n, d) : n \in Token, d \in DIDs}]

\* Mutant: any key's signature over the message will do.
verify_message(key, message, signature) ==
  signature # Garbage /\ signature.over = message
verify_signature(key, message, signature) ==
  signature = [key |-> key, over |-> message]

OpenedSession ==
  [session_id: Token, candidate: Token, did: DIDs, published: Keys,
   signature: [key: Keys, over: {challenge_message(n, d) : n \in Token, d \in DIDs}]]

PendingCandidate == [nonce: Token, advertised_key: Keys, profile_did: DIDs]

\* HashMap::insert and HashMap::remove.
Insert(map, k, v) == [x \in DOMAIN map \cup {k} |-> IF x = k THEN v ELSE map[x]]
RemoveKeys(map, ks) == Restrict(map, DOMAIN map \ ks)
-----------------------------------------------------------------------------
EngineInit ==
  /\ drawn = 0
  /\ pending = << >>
  /\ candidate_order = << >>
  /\ sessions = << >>
  /\ published \in [DIDs -> Keys \cup {NoKey}]
  /\ begins = << >>
  /\ spent = {}
  /\ opened = {}

(***************************************************************************)
(* evict_if_full: pop the order queue, dropping each popped candidate,     *)
(* until the map has room or the queue is empty (the `None => break`).     *)
(***************************************************************************)
Oldest(k) == {candidate_order[i] : i \in 1 .. k}

\* Mutant: one handshake too few is kept.
RoomOneTooFew(ks) == Cardinality(DOMAIN pending \ ks) < MAX_PENDING_CANDIDATES - 1
HasRoomWithout(ks) == Cardinality(DOMAIN pending \ ks) < MAX_PENDING_CANDIDATES

\* Mutant: a full map loses what is at the front of the queue (`if`, not `while`).
evict_one ==
  IF HasRoomWithout({}) THEN 0 ELSE Min({1, Len(candidate_order)})
evict_count ==
  Min({k \in 0 .. Len(candidate_order) :
         HasRoomWithout(Oldest(k)) \/ k = Len(candidate_order)})

begin_ok(profile_did, signing_pubkey_hex) ==
  /\ from_hex(signing_pubkey_hex)
  /\ drawn + 2 <= MaxDraws
  /\ drawn' = drawn + 2
  /\ \E nonce \in fill_nonce(1), candidate \in fill_nonce(2) :
       LET n == evict_count
           handshake == [nonce |-> nonce, advertised_key |-> signing_pubkey_hex,
                         profile_did |-> profile_did]
       IN  /\ candidate_order' =
                Append(SubSeq(candidate_order, n + 1, Len(candidate_order)), candidate)
           /\ pending' = Insert(RemoveKeys(pending, Oldest(n)), candidate, handshake)
           /\ begins' = Append(begins, [candidate |-> candidate, handshake |-> handshake])
  /\ UNCHANGED << sessions, published, spent, opened >>

\* AttachError::Malformed, before anything is drawn or evicted.
begin_malformed(signing_pubkey_hex) ==
  /\ ~ from_hex(signing_pubkey_hex)
  /\ UNCHANGED engine

begin(profile_did, signing_pubkey_hex) ==
  \/ begin_ok(profile_did, signing_pubkey_hex)
  \/ begin_malformed(signing_pubkey_hex)

\* AttachError.
Refusals == {"UnknownCandidate", "UnknownDid", "KeyMismatch", "BadSignature", "Malformed"}

(***************************************************************************)
(* attach.  The verdict follows the order of the code's checks; the        *)
(* candidate is consumed before any of them.                               *)
(***************************************************************************)
attach_verdict(candidate, signature, did) ==
  IF candidate \notin DOMAIN pending THEN "UnknownCandidate"
  ELSE IF pending[candidate].profile_did # did THEN "KeyMismatch"
  ELSE IF published[did] = NoKey THEN "UnknownDid"
  ELSE IF published[did] # pending[candidate].advertised_key THEN "KeyMismatch"
  ELSE IF signature = BadText THEN "Malformed"
  ELSE IF ~ verify_signature(pending[candidate].advertised_key,
                             challenge_message(pending[candidate].nonce, did),
                             signature)
    THEN "BadSignature"
  ELSE "Ok"

\* Mutants: the candidate is only looked up; it stays in the queue; whatever
\* was queued last leaves the queue.
peek_candidate(candidate) == UNCHANGED << pending, candidate_order >>
take_from_map_only(candidate) ==
  /\ pending' = RemoveKeys(pending, {candidate})
  /\ UNCHANGED candidate_order
take_newest_from_queue(candidate) ==
  /\ pending' = RemoveKeys(pending, {candidate})
  /\ candidate_order' = Front(candidate_order)

\* take_candidate: out of the map, and its first occurrence out of the queue.
take_candidate(candidate) ==
  /\ pending' = RemoveKeys(pending, {candidate})
  /\ candidate_order' = RemoveFirst(candidate_order, candidate)

attach_ok(candidate, signature, did) ==
  /\ attach_verdict(candidate, signature, did) = "Ok"
  /\ take_candidate(candidate)
  /\ drawn < MaxDraws
  /\ drawn' = drawn + 1
  /\ \E session_id \in fill_nonce(1) :
       /\ sessions' = Insert(sessions, session_id, did)
       /\ opened' = opened \cup
            {[session_id |-> session_id, candidate |-> candidate, did |-> did,
              published |-> published[did], signature |-> signature]}
  /\ spent' = spent \cup {candidate}
  /\ UNCHANGED << published, begins >>

attach_refused(candidate, signature, did) ==
  /\ attach_verdict(candidate, signature, did) \in Refusals \ {"UnknownCandidate"}
  /\ take_candidate(candidate)
  /\ spent' = spent \cup {candidate}
  /\ UNCHANGED << drawn, sessions, published, begins, opened >>

\* The call returns before anything changes.
attach_unknown(candidate, signature, did) ==
  /\ attach_verdict(candidate, signature, did) = "UnknownCandidate"
  /\ UNCHANGED engine

attach(candidate, signature, did) ==
  \/ attach_ok(candidate, signature, did)
  \/ attach_refused(candidate, signature, did)
  \/ attach_unknown(candidate, signature, did)

\* Mutant: every session of the session's profile is dropped.
detach_profile(session_id) ==
  /\ sessions' = RemoveKeys(sessions,
                   {s \in DOMAIN sessions :
                      session_id \in DOMAIN sessions /\ sessions[s] = sessions[session_id]})
  /\ UNCHANGED << drawn, pending, candidate_order, published, history >>

\* detach: an unknown session id is a no-op.
detach(session_id) ==
  /\ sessions' = RemoveKeys(sessions, {session_id})
  /\ UNCHANGED << drawn, pending, candidate_order, published, history >>

\* The resolver (a seam): a DID's published key may change at any time.
Republish(did, key) ==
  /\ published' = [published EXCEPT ![did] = key]
  /\ UNCHANGED << registry, history >>

\* What a caller can put in signature_b64: any key's signature over a
\* challenge that was issued for any DID, bytes nobody signed, or bad text.
Signature ==
  [key: Keys, over: {challenge_message(begins[i].handshake.nonce, d) :
                       i \in DOMAIN begins, d \in DIDs}]
    \cup {Garbage, BadText}

EngineNext ==
  \/ \E did \in DIDs, key \in Keys \cup {BadText} : begin(did, key)
  \/ \E candidate \in {begins[i].candidate : i \in DOMAIN begins},
        signature \in Signature, did \in DIDs : attach(candidate, signature, did)
  \/ \E session_id \in {s.session_id : s \in opened} : detach(session_id)
  \/ \E did \in DIDs, key \in Keys \cup {NoKey} : Republish(did, key)

EngineSpec == EngineInit /\ [][EngineNext]_engine
-----------------------------------------------------------------------------
EngineTypeOK ==
  /\ drawn \in 0 .. MaxDraws
  /\ DOMAIN pending \subseteq Token
  /\ \A c \in DOMAIN pending : pending[c] \in PendingCandidate
  /\ candidate_order \in Seq(Token)
  /\ DOMAIN sessions \subseteq Token
  /\ \A s \in DOMAIN sessions : sessions[s] \in DIDs
  /\ published \in [DIDs -> Keys \cup {NoKey}]
  /\ begins \in Seq([candidate: Token, handshake: PendingCandidate])
  /\ spent \subseteq Token
  /\ opened \subseteq OpenedSession

(***************************************************************************)
(* The registry never holds more than MAX_PENDING_CANDIDATES handshakes    *)
(* (bounds.rs; the loop of evict_if_full, whose `None => break` would      *)
(* leave the map full if the queue ran out first), even with an entropy    *)
(* source that repeats values.                                             *)
(***************************************************************************)
PendingBounded == Cardinality(DOMAIN pending) <= MAX_PENDING_CANDIDATES

(***************************************************************************)
(* Every handshake in the map is also in the queue, so evict_if_full never *)
(* runs out of queue before it has made room: its `None => break` is never *)
(* what ends the loop, even when a candidate token is drawn twice.         *)
(***************************************************************************)
PendingIsQueued == DOMAIN pending \subseteq ToSet(candidate_order)

(***************************************************************************)
(* The queue is exactly the outstanding handshakes, each once, so it is    *)
(* bounded as the map is, and eviction finds the oldest at its front       *)
(* (take_candidate, "keeping the order queue consistent").                 *)
(***************************************************************************)
QueueConsistent ==
  /\ ToSet(candidate_order) = DOMAIN pending
  /\ \A i, j \in DOMAIN candidate_order :
       i < j => candidate_order[i] < candidate_order[j]

(***************************************************************************)
(* Injective agreement (attach; SPEC section 6, invariant 4): every        *)
(* session ever opened comes from a begin of its own, for the same DID,    *)
(* that advertised the key the DID had published when the session opened,  *)
(* and was authorised by that key's signature over that begin's nonce.     *)
(* One signature, and one candidate, never open two sessions.              *)
(***************************************************************************)
Justified(s) ==
  \E i \in DOMAIN begins :
    /\ begins[i].candidate = s.candidate
    /\ begins[i].handshake.profile_did = s.did
    /\ begins[i].handshake.advertised_key = s.published
    /\ s.signature =
         [key |-> s.published,
          over |-> challenge_message(begins[i].handshake.nonce, s.did)]

InjectiveAgreement ==
  /\ \A s \in opened : Justified(s)
  /\ \A s, t \in opened :
       s.candidate = t.candidate \/ s.signature = t.signature => s = t
  /\ \A id \in DOMAIN sessions :
       \E s \in opened : s.session_id = id /\ s.did = sessions[id]

(***************************************************************************)
(* The registry implements the promise of SessionAuthority (begin, attach, *)
(* detach), as long as the entropy source does not repeat a value: all it  *)
(* does about the queue, and every refusal, is forgetting a challenge or   *)
(* nothing.                                                                *)
(***************************************************************************)
Authority == INSTANCE SessionAuthority WITH
  Capacity <- MAX_PENDING_CANDIDATES,
  outstanding <- pending, used <- 1 .. drawn, granted <- opened

ImplementsAuthority == Authority!Spec

(***************************************************************************)
(* A flood of begins costs a handshake its place no earlier than the bound *)
(* says: a begin is still pending, or was consumed by an attach, as long   *)
(* as fewer than MAX_PENDING_CANDIDATES begins came after it               *)
(* (evict_if_full drops the oldest, and only when full).                   *)
(***************************************************************************)
RecentBeginsSurvive ==
  \A i \in DOMAIN begins :
    Len(begins) - i < MAX_PENDING_CANDIDATES
      => begins[i].candidate \in DOMAIN pending \cup spent
=============================================================================
