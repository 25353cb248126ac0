--------------------------- MODULE AuthorityProofs --------------------------
(***************************************************************************)
(* The engine registry implements SessionAuthority, for every number of    *)
(* DIDs, keys, tokens and outstanding handshakes.  Each step of the        *)
(* registry is a step of the authority or leaves its state unchanged; that *)
(* the map has room for a new challenge is the capacity invariant of       *)
(* EngineProofs, after the step.                                           *)
(***************************************************************************)
EXTENDS EngineProofs

\* The tokens of a handler's draws have not been drawn before.
LEMMA FreshDraws ==
  ASSUME EngineTypeOK, FreshEntropy = TRUE, NEW i \in 1 .. 2, drawn + i <= MaxDraws
  PROVE  /\ fill_nonce(i) = {drawn + i}
         /\ drawn + i \in Token \ (1 .. drawn)
PROOF
  BY EngineAssumption DEF EngineTypeOK, fill_nonce, Token

LEMMA BeginIsIssue ==
  ASSUME CapacityInv, CapacityInv', FreshEntropy = TRUE,
         NEW did \in DIDs, NEW key \in Keys, begin_ok(did, key)
  PROVE  Authority!Issue
PROOF
  <1> DEFINE n == evict_count
             kept == DOMAIN pending \ Oldest(n)
             nonce == drawn + 1
             candidate == drawn + 2
             handshake == [nonce |-> nonce, advertised_key |-> key, profile_did |-> did]
  <1>0. EngineTypeOK /\ PendingBounded'
    BY DEF CapacityInv
  <1>1. /\ drawn \in Nat /\ MaxDraws \in Nat
        /\ drawn + 2 <= MaxDraws /\ drawn' = drawn + 2
        /\ UNCHANGED << sessions, published, opened >>
    BY <1>0, EngineAssumption DEF begin_ok, EngineTypeOK
  <1>2. /\ fill_nonce(1) = {nonce} /\ fill_nonce(2) = {candidate}
        /\ nonce \in Token \ (1 .. drawn) /\ candidate \in Token \ (1 .. drawn)
        /\ nonce # candidate
    BY <1>0, <1>1, FreshDraws
  <1>3. pending' = Insert(RemoveKeys(pending, Oldest(n)), candidate, handshake)
    BY <1>2, Zenon DEF begin_ok
  <1> HIDE DEF n
  <1>4. 1 .. drawn' = (1 .. drawn) \cup {nonce, candidate}
    BY <1>1
  <1>5. pending' = [c \in kept \cup {candidate} |->
                      IF c = candidate THEN handshake ELSE pending[c]]
    <2> DEFINE left == RemoveKeys(pending, Oldest(n))
    <2>1. DOMAIN left = kept /\ \A c \in kept : left[c] = pending[c]
      BY DEF RemoveKeys, Restrict
    <2> HIDE DEF left
    <2>2. Insert(left, candidate, handshake) =
            [c \in kept \cup {candidate} |->
               IF c = candidate THEN handshake ELSE pending[c]]
      BY <2>1 DEF Insert
    <2> QED
      BY <1>3, <2>2 DEF left
  <1>6. Cardinality(kept \cup {candidate}) <= MAX_PENDING_CANDIDATES
    BY <1>0, <1>5 DEF PendingBounded
  <1>7. kept \in SUBSET DOMAIN pending
    OBVIOUS
  <1>8. Authority!Cardinality(kept \cup {candidate}) = Cardinality(kept \cup {candidate})
    BY Zenon DEF Authority!Cardinality, Cardinality
  <1>9. Authority!Cardinality(kept \cup {candidate}) <= MAX_PENDING_CANDIDATES
    BY <1>6, <1>8
  <1> HIDE DEF kept, nonce, candidate
  <1> QED
    BY <1>1, <1>2, <1>4, <1>5, <1>7, <1>9, Zenon DEF Authority!Issue

LEMMA TakenIsWithout ==
  ASSUME NEW candidate, take_candidate(candidate)
  PROVE  pending' = Authority!Without(pending, candidate)
PROOF
  BY DEF take_candidate, RemoveKeys, Restrict, Authority!Without

LEMMA AttachOkIsGrant ==
  ASSUME CapacityInv, FreshEntropy = TRUE,
         NEW candidate, NEW signature, NEW did \in DIDs,
         attach_ok(candidate, signature, did)
  PROVE  Authority!Grant
PROOF
  <1> DEFINE challenge == pending[candidate]
             session_id == drawn + 1
  <1>0. EngineTypeOK
    BY DEF CapacityInv
  <1>1. /\ drawn \in Nat /\ MaxDraws \in Nat
        /\ drawn + 1 <= MaxDraws /\ drawn' = drawn + 1
        /\ UNCHANGED published
    BY <1>0, EngineAssumption DEF attach_ok, EngineTypeOK
  <1>2. fill_nonce(1) = {session_id} /\ session_id \in Token \ (1 .. drawn)
    BY <1>0, <1>1, FreshDraws
  <1>3. /\ candidate \in DOMAIN pending
        /\ challenge.profile_did = did
        /\ published[did] = challenge.advertised_key
        /\ signature = [key |-> published[did],
                        over |-> challenge_message(challenge.nonce, did)]
    BY <1>0, OkVerdict DEF attach_ok
  <1>4. /\ sessions' = Insert(sessions, session_id, did)
        /\ opened' = opened \cup
             {[session_id |-> session_id, candidate |-> candidate, did |-> did,
               published |-> published[did], signature |-> signature]}
    BY <1>2, Zenon DEF attach_ok
  <1>5. pending' = Authority!Without(pending, candidate)
    BY TakenIsWithout DEF attach_ok
  <1>6. 1 .. drawn' = (1 .. drawn) \cup {session_id}
    BY <1>1
  <1>7. signature = Authority!proof(challenge.advertised_key, challenge)
    BY <1>3 DEF Authority!proof, challenge_message
  <1> HIDE DEF session_id
  <1> QED
    BY <1>1, <1>2, <1>3, <1>4, <1>5, <1>6, <1>7 DEF Authority!Grant, Insert

LEMMA AttachRefusedIsRefuse ==
  ASSUME NEW candidate, NEW signature, NEW did,
         attach_refused(candidate, signature, did)
  PROVE  Authority!Refuse
PROOF
  <1>1. candidate \in DOMAIN pending
    BY DEF attach_refused, attach_verdict, Refusals
  <1>2. pending' = Authority!Without(pending, candidate)
    BY TakenIsWithout DEF attach_refused
  <1>3. 1 .. drawn' = 1 .. drawn /\ UNCHANGED << sessions, published, opened >>
    BY DEF attach_refused
  <1> QED
    BY <1>1, <1>2, <1>3 DEF Authority!Refuse

LEMMA DetachIsEnd ==
  ASSUME NEW session_id \in Token, detach(session_id)
  PROVE  Authority!End
PROOF
  <1>1. sessions' = Authority!Without(sessions, session_id)
    BY DEF detach, RemoveKeys, Restrict, Authority!Without
  <1> QED
    BY <1>1 DEF detach, history, Authority!End

LEMMA UnchangedIsStutter ==
  ASSUME UNCHANGED << drawn, pending, sessions, published, opened >>
  PROVE  UNCHANGED Authority!vars
PROOF
  BY DEF Authority!vars

(***************************************************************************)
(* The registry of engine.rs (begin, attach, detach) implements            *)
(* SessionAuthority, if fill_nonce never repeats a value: sessions are     *)
(* granted only by the published key's signature over an outstanding       *)
(* challenge, which that uses up, and nothing else the registry does can   *)
(* be told from forgetting a challenge or doing nothing.                   *)
(***************************************************************************)
THEOREM RefinesAuthority == FreshEntropy = TRUE /\ EngineSpec => ImplementsAuthority
PROOF
  <1> SUFFICES ASSUME FreshEntropy = TRUE
               PROVE  EngineSpec => ImplementsAuthority
    OBVIOUS
  <1>1. EngineInit => Authority!Init
    BY DEF EngineInit, Authority!Init
  <1>2. CapacityInv /\ CapacityInv' /\ [EngineNext]_engine => [Authority!Next]_(Authority!vars)
    <2> SUFFICES ASSUME CapacityInv, CapacityInv', [EngineNext]_engine
                 PROVE  Authority!Next \/ UNCHANGED Authority!vars
      OBVIOUS
    <2>1. ASSUME NEW did \in DIDs, NEW key \in Keys \cup {BadText}, begin(did, key)
          PROVE  Authority!Next \/ UNCHANGED Authority!vars
      <3>1. CASE begin_ok(did, key)
        BY <3>1, BeginIsIssue DEF begin_ok, from_hex, Authority!Next
      <3>2. CASE begin_malformed(key)
        BY <3>2, UnchangedIsStutter DEF begin_malformed, engine, registry, history
      <3> QED
        BY <2>1, <3>1, <3>2 DEF begin
    <2>2. ASSUME NEW candidate, NEW signature, NEW did \in DIDs,
                 attach(candidate, signature, did)
          PROVE  Authority!Next \/ UNCHANGED Authority!vars
      <3>1. CASE attach_ok(candidate, signature, did)
        BY <3>1, AttachOkIsGrant DEF Authority!Next
      <3>2. CASE attach_refused(candidate, signature, did)
        BY <3>2, AttachRefusedIsRefuse DEF Authority!Next
      <3>3. CASE attach_unknown(candidate, signature, did)
        BY <3>3, UnchangedIsStutter DEF attach_unknown, engine, registry, history
      <3> QED
        BY <2>2, <3>1, <3>2, <3>3 DEF attach
    <2>3. ASSUME NEW session_id \in {s.session_id : s \in opened}, detach(session_id)
          PROVE  Authority!Next \/ UNCHANGED Authority!vars
      <3>1. session_id \in Token
        BY DEF CapacityInv, EngineTypeOK, OpenedSession
      <3> QED
        BY <2>3, <3>1, DetachIsEnd DEF Authority!Next
    <2>4. ASSUME NEW did \in DIDs, NEW key \in Keys \cup {NoKey}, Republish(did, key)
          PROVE  Authority!Next \/ UNCHANGED Authority!vars
      BY <2>4 DEF Republish, registry, history, Authority!Republish, Authority!Next
    <2>5. CASE UNCHANGED engine
      BY <2>5, UnchangedIsStutter DEF engine, registry, history
    <2> QED
      BY <2>1, <2>2, <2>3, <2>4, <2>5 DEF EngineNext
  <1> QED
    BY <1>1, <1>2, Capacity, PTL DEF EngineSpec, ImplementsAuthority, Authority!Spec
=============================================================================
