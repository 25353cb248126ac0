---------------------------- MODULE EngineProofs ----------------------------
(***************************************************************************)
(* What the engine registry guarantees for every number of DIDs, keys and  *)
(* candidates, and every run of any length.                                *)
(***************************************************************************)
EXTENDS EngineSessionRegistry, NatLemmas, FiniteSetTheorems, SequenceTheorems, TLAPS

(***************************************************************************)
(* Removing the first occurrence of an element shifts what follows it.     *)
(***************************************************************************)
LEMMA RemoveFirstShifts ==
  ASSUME NEW S, NEW s \in Seq(S), NEW e, \E i \in 1 .. Len(s) : s[i] = e
  PROVE  /\ RemoveFirst(s, e) \in Seq(S)
         /\ Len(RemoveFirst(s, e)) = Len(s) - 1
         /\ \E k \in 1 .. Len(s) :
              /\ s[k] = e
              /\ \A i \in 1 .. Len(s) - 1 :
                   RemoveFirst(s, e)[i] = IF i < k THEN s[i] ELSE s[i + 1]
PROOF
  <1> DEFINE I == {i \in 1 .. Len(s) : s[i] = e}
             k == Min(I)
             r == SubSeq(s, 1, k - 1)
             t == SubSeq(s, k + 1, Len(s))
  <1>1. k \in 1 .. Len(s) /\ s[k] = e
    <2>1. I \in SUBSET Nat /\ I # {}
      OBVIOUS
    <2>2. k \in I
      BY <2>1, MinOfNats
    <2> QED
      BY <2>2
  <1>2. RemoveFirst(s, e) = r \o t
    BY DEF RemoveFirst, RemoveAt, SelectInSeq
  <1> HIDE DEF k
  <1>3. /\ r \in Seq(S) /\ Len(r) = k - 1
        /\ \A i \in 1 .. k - 1 : r[i] = s[i]
    <2>1. \A i \in 1 .. k - 1 : s[i] \in S
      BY <1>1, ElementOfSeq
    <2> QED
      BY <1>1, <2>1, SubSeqProperties
  <1>4. /\ t \in Seq(S) /\ Len(t) = Len(s) - k
        /\ \A i \in 1 .. Len(s) - k : t[i] = s[k + i]
    <2>1. \A i \in k + 1 .. Len(s) : s[i] \in S
      BY <1>1, ElementOfSeq
    <2>2. /\ t \in Seq(S)
          /\ Len(t) = IF k + 1 <= Len(s) THEN Len(s) - (k + 1) + 1 ELSE 0
          /\ \A i \in 1 .. Len(s) - (k + 1) + 1 : t[i] = s[(k + 1) + i - 1]
      BY <1>1, <2>1, SubSeqProperties
    <2> QED
      BY <1>1, <2>2
  <1> HIDE DEF r, t
  <1>5. /\ r \o t \in Seq(S)
        /\ Len(r \o t) = Len(s) - 1
        /\ \A i \in 1 .. Len(s) - 1 :
             (r \o t)[i] = IF i <= k - 1 THEN r[i] ELSE t[i - (k - 1)]
    <2>1. /\ r \o t \in Seq(S)
          /\ Len(r \o t) = Len(r) + Len(t)
          /\ \A i \in 1 .. Len(r) + Len(t) :
               (r \o t)[i] = IF i <= Len(r) THEN r[i] ELSE t[i - Len(r)]
      BY <1>3, <1>4, ConcatProperties
    <2>2. Len(r) + Len(t) = Len(s) - 1
      BY <1>1, <1>3, <1>4
    <2> QED
      BY <1>3, <2>1, <2>2
  <1>6. ASSUME NEW i \in 1 .. Len(s) - 1
        PROVE  (r \o t)[i] = IF i < k THEN s[i] ELSE s[i + 1]
    <2>1. CASE i < k
      <3>1. i \in 1 .. k - 1 /\ i <= k - 1
        BY <1>1, <2>1
      <3> QED
        BY <1>3, <1>5, <2>1, <3>1
    <2>2. CASE ~ (i < k)
      <3>1. /\ i - (k - 1) \in 1 .. Len(s) - k /\ ~ (i <= k - 1)
            /\ k + (i - (k - 1)) = i + 1
        BY <1>1, <2>2
      <3>2. t[i - (k - 1)] = s[i + 1]
        BY <1>4, <3>1
      <3> QED
        BY <1>5, <2>2, <3>1, <3>2
    <2> QED
      BY <2>1, <2>2
  <1> QED
    BY <1>1, <1>2, <1>5, <1>6

(***************************************************************************)
(* It loses no other element.                                              *)
(***************************************************************************)
LEMMA RemoveFirstKeeps ==
  ASSUME NEW S, NEW s \in Seq(S), NEW e
  PROVE  /\ RemoveFirst(s, e) \in Seq(S)
         /\ ToSet(s) \ {e} \subseteq ToSet(RemoveFirst(s, e))
PROOF
  <1>1. CASE \E i \in 1 .. Len(s) : s[i] = e
    <2> DEFINE left == RemoveFirst(s, e)
    <2>1. /\ left \in Seq(S) /\ Len(left) = Len(s) - 1
          /\ \E k \in 1 .. Len(s) :
               /\ s[k] = e
               /\ \A i \in 1 .. Len(s) - 1 : left[i] = IF i < k THEN s[i] ELSE s[i + 1]
      BY <1>1, RemoveFirstShifts
    <2> HIDE DEF left
    <2>2. PICK k \in 1 .. Len(s) :
            /\ s[k] = e
            /\ \A i \in 1 .. Len(s) - 1 : left[i] = IF i < k THEN s[i] ELSE s[i + 1]
      BY <2>1
    <2>3. DOMAIN left = 1 .. Len(s) - 1 /\ DOMAIN s = 1 .. Len(s)
      BY <2>1, LenProperties
    <2>4. ASSUME NEW x \in ToSet(s), x # e
          PROVE  x \in ToSet(left)
      <3>1. PICK i \in 1 .. Len(s) : s[i] = x
        BY <2>3 DEF ToSet
      <3>2. CASE i < k
        <4>1. i \in 1 .. Len(s) - 1
          BY <2>2, <3>2
        <4> QED
          BY <2>2, <2>3, <3>1, <3>2, <4>1 DEF ToSet
      <3>3. CASE i > k
        <4>1. i - 1 \in 1 .. Len(s) - 1 /\ ~ (i - 1 < k) /\ (i - 1) + 1 = i
          BY <2>2, <3>3
        <4>2. left[i - 1] = s[i]
          BY <2>2, <4>1
        <4> QED
          BY <2>3, <3>1, <4>1, <4>2 DEF ToSet
      <3> QED
        BY <2>2, <2>4, <3>1, <3>2, <3>3
    <2> QED
      BY <2>1, <2>4 DEF left
  <1>2. CASE ~ \E i \in 1 .. Len(s) : s[i] = e
    BY <1>2 DEF RemoveFirst
  <1> QED
    BY <1>1, <1>2

\* The elements of a queue in the order they were drawn.
Increasing(s) == \A i, j \in 1 .. Len(s) : i < j => s[i] < s[j]

(***************************************************************************)
(* From an increasing sequence it removes exactly that element, and the    *)
(* rest is increasing.                                                     *)
(***************************************************************************)
LEMMA RemoveFirstFromIncreasing ==
  ASSUME NEW S \in SUBSET Nat, NEW s \in Seq(S), Increasing(s), NEW e \in ToSet(s)
  PROVE  /\ Increasing(RemoveFirst(s, e))
         /\ ToSet(RemoveFirst(s, e)) = ToSet(s) \ {e}
PROOF
  <1> DEFINE left == RemoveFirst(s, e)
  <1>1. DOMAIN s = 1 .. Len(s) /\ Len(s) \in Nat /\ \A i \in 1 .. Len(s) : s[i] \in Nat
    <2>1. DOMAIN s = 1 .. Len(s) /\ Len(s) \in Nat
      BY LenProperties
    <2>2. \A i \in 1 .. Len(s) : s[i] \in Nat
      BY ElementOfSeq
    <2> QED
      BY <2>1, <2>2
  <1>2. \E i \in 1 .. Len(s) : s[i] = e
    BY <1>1 DEF ToSet
  <1>3. /\ left \in Seq(S) /\ Len(left) = Len(s) - 1
        /\ \E k \in 1 .. Len(s) :
             /\ s[k] = e
             /\ \A i \in 1 .. Len(s) - 1 : left[i] = IF i < k THEN s[i] ELSE s[i + 1]
    BY <1>2, RemoveFirstShifts
  <1>4. ToSet(s) \ {e} \subseteq ToSet(left)
    BY RemoveFirstKeeps
  <1> HIDE DEF left
  <1>5. PICK k \in 1 .. Len(s) :
          /\ s[k] = e
          /\ \A i \in 1 .. Len(s) - 1 : left[i] = IF i < k THEN s[i] ELSE s[i + 1]
    BY <1>3
  <1>6. DOMAIN left = 1 .. Len(s) - 1
    BY <1>3, LenProperties
  <1> DEFINE from(i) == IF i < k THEN i ELSE i + 1
  <1>7. \A i \in 1 .. Len(s) - 1 :
          from(i) \in 1 .. Len(s) /\ from(i) # k /\ left[i] = s[from(i)]
    BY <1>1, <1>5
  <1>8. \A i, j \in 1 .. Len(s) - 1 : i < j => from(i) < from(j)
    BY <1>1, <1>5
  <1> HIDE DEF from
  <1>9. Increasing(left)
    BY <1>3, <1>7, <1>8 DEF Increasing
  <1>10. ASSUME NEW i \in 1 .. Len(s) - 1
         PROVE  left[i] \in ToSet(s) \ {e}
    <2>1. /\ from(i) \in 1 .. Len(s) /\ from(i) # k /\ left[i] = s[from(i)]
          /\ s[from(i)] \in Nat /\ s[k] \in Nat
      BY <1>1, <1>7
    <2>2. from(i) < k \/ k < from(i)
      BY <2>1
    <2>3. s[from(i)] < s[k] \/ s[k] < s[from(i)]
      BY <2>1, <2>2 DEF Increasing
    <2>4. s[from(i)] # s[k]
      BY <2>1, <2>3
    <2> QED
      BY <1>1, <1>5, <2>1, <2>4 DEF ToSet
  <1>11. ToSet(left) = ToSet(s) \ {e}
    BY <1>4, <1>6, <1>10 DEF ToSet
  <1> QED
    BY <1>9, <1>11 DEF left
-----------------------------------------------------------------------------
(***************************************************************************)
(* The loop of evict_if_full always ends with room for one more, because   *)
(* emptying the queue would empty the map.                                 *)
(***************************************************************************)
LEMMA EvictionMakesRoom ==
  ASSUME EngineTypeOK, PendingIsQueued
  PROVE  /\ evict_count \in 0 .. Len(candidate_order)
         /\ HasRoomWithout(Oldest(evict_count))
PROOF
  <1> DEFINE n == Len(candidate_order)
             K == {k \in 0 .. n : HasRoomWithout(Oldest(k)) \/ k = n}
  <1>1. n \in Nat /\ candidate_order \in Seq(Token)
    BY LenProperties DEF EngineTypeOK
  <1>2. K \in SUBSET Nat /\ n \in K
    BY <1>1
  <1>3. evict_count \in K
    BY <1>2, MinOfNats DEF evict_count
  <1>4. HasRoomWithout(Oldest(n))
    <2>1. Oldest(n) = ToSet(candidate_order)
      BY <1>1, LenProperties DEF Oldest, ToSet
    <2>2. DOMAIN pending \ Oldest(n) = {}
      BY <2>1 DEF PendingIsQueued
    <2>3. Cardinality(DOMAIN pending \ Oldest(n)) = 0
      BY <2>2, FS_EmptySet
    <2> HIDE DEF n
    <2> QED
      BY <2>3, EngineAssumption DEF HasRoomWithout
  <1> QED
    BY <1>3, <1>4

\* The two tokens of a begin and the one of an attach are tokens.
LEMMA Draws ==
  ASSUME EngineTypeOK, NEW i \in 1 .. 2, drawn + i <= MaxDraws
  PROVE  fill_nonce(i) \subseteq Token
PROOF
  BY EngineAssumption DEF EngineTypeOK, fill_nonce, Token

(***************************************************************************)
(* The inductive invariant of the capacity argument.                       *)
(***************************************************************************)
CapacityInv == EngineTypeOK /\ PendingIsQueued /\ PendingBounded

LEMMA BeginCapacity ==
  ASSUME CapacityInv, NEW did \in DIDs, NEW key \in Keys, begin_ok(did, key)
  PROVE  CapacityInv'
PROOF
  <1> DEFINE n == evict_count
             kept == SubSeq(candidate_order, n + 1, Len(candidate_order))
  <1>0. EngineTypeOK /\ PendingIsQueued
    BY DEF CapacityInv
  <1>1. /\ candidate_order \in Seq(Token)
        /\ Len(candidate_order) \in Nat
        /\ drawn + 2 <= MaxDraws /\ drawn' = drawn + 2
        /\ UNCHANGED << sessions, published, spent, opened >>
    BY <1>0, LenProperties DEF begin_ok, EngineTypeOK
  <1>2. n \in 0 .. Len(candidate_order) /\ HasRoomWithout(Oldest(n))
    BY <1>0, EvictionMakesRoom
  <1>3. PICK nonce \in fill_nonce(1), candidate \in fill_nonce(2) :
          LET handshake == [nonce |-> nonce, advertised_key |-> key,
                            profile_did |-> did]
          IN  /\ candidate_order' = Append(kept, candidate)
              /\ pending' = Insert(RemoveKeys(pending, Oldest(n)), candidate, handshake)
              /\ begins' = Append(begins, [candidate |-> candidate,
                                           handshake |-> handshake])
    BY DEF begin_ok
  <1> HIDE DEF n
  <1>4. nonce \in Token /\ candidate \in Token
    <2>1. drawn + 1 <= MaxDraws
      BY <1>0, <1>1, EngineAssumption DEF EngineTypeOK
    <2> QED
      BY <1>0, <1>1, <1>3, <2>1, Draws
  <1> DEFINE handshake == [nonce |-> nonce, advertised_key |-> key, profile_did |-> did]
  <1>5. handshake \in PendingCandidate
    BY <1>4 DEF PendingCandidate
  <1> HIDE DEF handshake
  <1>6. /\ DOMAIN pending' = (DOMAIN pending \ Oldest(n)) \cup {candidate}
        /\ pending'[candidate] = handshake
        /\ \A c \in DOMAIN pending' : c # candidate => pending'[c] = pending[c]
    <2> DEFINE left == RemoveKeys(pending, Oldest(n))
    <2>1. pending' = Insert(left, candidate, handshake)
      BY <1>3 DEF handshake
    <2>2. /\ DOMAIN left = DOMAIN pending \ Oldest(n)
          /\ \A c \in DOMAIN left : left[c] = pending[c]
      BY DEF RemoveKeys, Restrict
    <2> HIDE DEF left
    <2>3. /\ DOMAIN Insert(left, candidate, handshake) = DOMAIN left \cup {candidate}
          /\ Insert(left, candidate, handshake)[candidate] = handshake
          /\ \A x \in DOMAIN left :
               x # candidate => Insert(left, candidate, handshake)[x] = left[x]
      BY DEF Insert
    <2> QED
      BY <2>1, <2>2, <2>3
  <1>7. /\ kept \in Seq(Token)
        /\ Len(kept) = Len(candidate_order) - n
        /\ \A i \in 1 .. Len(candidate_order) - n : kept[i] = candidate_order[n + i]
    <2>1. \A i \in n + 1 .. Len(candidate_order) : candidate_order[i] \in Token
      BY <1>1, <1>2, ElementOfSeq
    <2>2. /\ kept \in Seq(Token)
          /\ Len(kept) = IF n + 1 <= Len(candidate_order)
                         THEN Len(candidate_order) - (n + 1) + 1 ELSE 0
          /\ \A i \in 1 .. Len(candidate_order) - (n + 1) + 1 :
               kept[i] = candidate_order[(n + 1) + i - 1]
      BY <1>1, <1>2, <2>1, SubSeqProperties
    <2> QED
      BY <1>1, <1>2, <2>2
  <1> HIDE DEF kept
  <1>8. /\ candidate_order' \in Seq(Token)
        /\ Len(candidate_order') = Len(kept) + 1
        /\ \A i \in 1 .. Len(kept) : candidate_order'[i] = kept[i]
        /\ candidate_order'[Len(kept) + 1] = candidate
    BY <1>3, <1>4, <1>7, AppendProperties
  <1>9. EngineTypeOK'
    <2>1. drawn' \in 0 .. MaxDraws
      BY <1>0, <1>1, EngineAssumption DEF EngineTypeOK
    <2>2. /\ DOMAIN pending' \subseteq Token
          /\ \A c \in DOMAIN pending' : pending'[c] \in PendingCandidate
      BY <1>0, <1>4, <1>5, <1>6 DEF EngineTypeOK
    <2>3. begins' \in Seq([candidate: Token, handshake: PendingCandidate])
      <3>1. [candidate |-> candidate, handshake |-> handshake]
              \in [candidate: Token, handshake: PendingCandidate]
        BY <1>4, <1>5
      <3>2. begins' = Append(begins, [candidate |-> candidate, handshake |-> handshake])
        BY <1>3 DEF handshake
      <3> QED
        BY <1>0, <3>1, <3>2, AppendProperties DEF EngineTypeOK
    <2> QED
      BY <1>0, <1>1, <1>8, <2>1, <2>2, <2>3 DEF EngineTypeOK
  <1>10. PendingIsQueued'
    <2> SUFFICES ASSUME NEW c \in DOMAIN pending'
                 PROVE  \E j \in 1 .. Len(candidate_order') : candidate_order'[j] = c
      BY <1>8, LenProperties DEF PendingIsQueued, ToSet
    <2>1. CASE c = candidate
      BY <1>1, <1>2, <1>7, <1>8, <2>1
    <2>2. CASE c # candidate
      <3>1. c \in DOMAIN pending /\ c \notin Oldest(n)
        BY <1>6, <2>2
      <3>2. PICK i \in 1 .. Len(candidate_order) : candidate_order[i] = c
        BY <1>0, <1>1, <3>1, LenProperties DEF PendingIsQueued, ToSet
      <3>3. ~ (i \in 1 .. n)
        BY <3>1, <3>2 DEF Oldest
      <3>4. i - n \in 1 .. Len(candidate_order) - n /\ n + (i - n) = i
        BY <1>1, <1>2, <3>2, <3>3
      <3>5. kept[i - n] = c
        BY <1>7, <3>2, <3>4
      <3>6. i - n \in 1 .. Len(kept)
        BY <1>7, <3>4
      <3>7. i - n \in 1 .. Len(candidate_order') /\ candidate_order'[i - n] = kept[i - n]
        BY <1>8, <1>7, <3>4, <3>6
      <3> QED
        BY ONLY <3>5, <3>7
    <2> QED
      BY <2>1, <2>2
  <1>11. PendingBounded'
    <2> DEFINE left == DOMAIN pending \ Oldest(n)
    <2>1. IsFiniteSet(left)
      <3>1. left \in SUBSET Token
        BY <1>0 DEF EngineTypeOK
      <3>2. IsFiniteSet(Token)
        BY FS_Interval, EngineAssumption DEF Token
      <3> QED
        BY <3>1, <3>2, FS_Subset
    <2>2. Cardinality(left) \in Nat /\ Cardinality(left) < MAX_PENDING_CANDIDATES
      BY <1>2, <2>1, FS_CardinalityType DEF HasRoomWithout
    <2> HIDE DEF left
    <2>3. Cardinality(left \cup {candidate}) <= Cardinality(left) + 1
      <3>1. Cardinality(left \cup {candidate}) =
              IF candidate \in left THEN Cardinality(left) ELSE Cardinality(left) + 1
        BY <2>1, FS_AddElement
      <3> HIDE DEF left
      <3> QED
        BY <2>2, <3>1
    <2>4. DOMAIN pending' = left \cup {candidate}
      BY <1>6 DEF left
    <2>5. Cardinality(left \cup {candidate}) \in Nat
      BY <2>1, FS_AddElement, FS_CardinalityType
    <2> QED
      BY <2>2, <2>3, <2>4, <2>5, EngineAssumption DEF PendingBounded
  <1> QED
    BY <1>9, <1>10, <1>11 DEF CapacityInv

(***************************************************************************)
(* take_candidate keeps the map within the queue and within its bound.     *)
(***************************************************************************)
LEMMA TakeCapacity ==
  ASSUME CapacityInv, NEW candidate, take_candidate(candidate)
  PROVE  /\ DOMAIN pending' = DOMAIN pending \ {candidate}
         /\ \A c \in DOMAIN pending' : pending'[c] = pending[c]
         /\ candidate_order' \in Seq(Token)
         /\ PendingIsQueued' /\ PendingBounded'
PROOF
  <1>0. EngineTypeOK /\ PendingIsQueued /\ PendingBounded
    BY DEF CapacityInv
  <1>1. /\ DOMAIN pending' = DOMAIN pending \ {candidate}
        /\ \A c \in DOMAIN pending' : pending'[c] = pending[c]
    BY DEF take_candidate, RemoveKeys, Restrict
  <1>2. /\ candidate_order' \in Seq(Token)
        /\ ToSet(candidate_order) \ {candidate} \subseteq ToSet(candidate_order')
    <2>1. candidate_order \in Seq(Token)
      BY <1>0 DEF EngineTypeOK
    <2>2. candidate_order' = RemoveFirst(candidate_order, candidate)
      BY DEF take_candidate
    <2>3. /\ RemoveFirst(candidate_order, candidate) \in Seq(Token)
          /\ ToSet(candidate_order) \ {candidate}
               \subseteq ToSet(RemoveFirst(candidate_order, candidate))
      BY <2>1, RemoveFirstKeeps
    <2> QED
      BY <2>2, <2>3 DEF ToSet
  <1>3. PendingIsQueued'
    BY <1>0, <1>1, <1>2 DEF PendingIsQueued, ToSet
  <1>4. PendingBounded'
    <2>1. IsFiniteSet(DOMAIN pending)
      <3>1. DOMAIN pending \in SUBSET Token
        BY <1>0 DEF EngineTypeOK
      <3>2. IsFiniteSet(Token)
        BY FS_Interval, EngineAssumption DEF Token
      <3> QED
        BY <3>1, <3>2, FS_Subset
    <2>2. DOMAIN pending' \in SUBSET DOMAIN pending
      BY <1>1
    <2>3. /\ IsFiniteSet(DOMAIN pending')
          /\ Cardinality(DOMAIN pending') <= Cardinality(DOMAIN pending)
      BY <2>1, <2>2, FS_Subset
    <2>4. Cardinality(DOMAIN pending') \in Nat /\ Cardinality(DOMAIN pending) \in Nat
      BY <2>1, <2>3, FS_CardinalityType
    <2> QED
      BY <1>0, <2>3, <2>4, EngineAssumption DEF PendingBounded
  <1> QED
    BY <1>1, <1>2, <1>3, <1>4

\* What the "Ok" verdict of attach has established.
LEMMA OkVerdict ==
  ASSUME EngineTypeOK, NEW candidate, NEW signature, NEW did \in DIDs,
         attach_verdict(candidate, signature, did) = "Ok"
  PROVE  /\ candidate \in DOMAIN pending
         /\ pending[candidate] \in PendingCandidate
         /\ pending[candidate].profile_did = did
         /\ published[did] = pending[candidate].advertised_key
         /\ signature = [key |-> published[did],
                         over |-> challenge_message(pending[candidate].nonce, did)]
PROOF
  BY DEF attach_verdict, verify_signature, EngineTypeOK

LEMMA AttachOkCapacity ==
  ASSUME CapacityInv, NEW candidate, NEW signature, NEW did \in DIDs,
         attach_ok(candidate, signature, did)
  PROVE  CapacityInv'
PROOF
  <1>0. EngineTypeOK
    BY DEF CapacityInv
  <1>1. take_candidate(candidate)
    BY DEF attach_ok
  <1>2. /\ candidate \in DOMAIN pending
        /\ pending[candidate] \in PendingCandidate
        /\ published[did] = pending[candidate].advertised_key
        /\ signature = [key |-> published[did],
                        over |-> challenge_message(pending[candidate].nonce, did)]
    BY <1>0, OkVerdict DEF attach_ok
  <1>3. PICK session_id \in fill_nonce(1) :
          /\ sessions' = Insert(sessions, session_id, did)
          /\ opened' = opened \cup
               {[session_id |-> session_id, candidate |-> candidate, did |-> did,
                 published |-> published[did], signature |-> signature]}
    BY DEF attach_ok
  <1>4. candidate \in Token /\ session_id \in Token /\ drawn' \in 0 .. MaxDraws
    BY <1>0, <1>2, <1>3, Draws, EngineAssumption DEF EngineTypeOK, attach_ok
  <1>5. /\ DOMAIN sessions' \subseteq Token
        /\ \A s \in DOMAIN sessions' : sessions'[s] \in DIDs
    BY <1>0, <1>3, <1>4 DEF EngineTypeOK, Insert
  <1>6. opened' \subseteq OpenedSession
    <2>1. /\ published[did] \in Keys
          /\ pending[candidate].nonce \in Token
      BY <1>2 DEF PendingCandidate
    <2>2. signature \in
            [key: Keys, over: {challenge_message(n, d) : n \in Token, d \in DIDs}]
      BY <1>2, <2>1
    <2>3. [session_id |-> session_id, candidate |-> candidate, did |-> did,
           published |-> published[did], signature |-> signature] \in OpenedSession
      BY <1>4, <2>1, <2>2 DEF OpenedSession
    <2> QED
      BY <1>0, <1>3, <2>3 DEF EngineTypeOK
  <1>7. spent' \subseteq Token
    BY <1>0, <1>4 DEF EngineTypeOK, attach_ok
  <1>8. EngineTypeOK'
    BY <1>0, <1>1, <1>4, <1>5, <1>6, <1>7, TakeCapacity DEF EngineTypeOK, attach_ok
  <1> QED
    BY <1>1, <1>8, TakeCapacity DEF CapacityInv

LEMMA AttachRefusedCapacity ==
  ASSUME CapacityInv, NEW candidate, NEW signature, NEW did \in DIDs,
         attach_refused(candidate, signature, did)
  PROVE  CapacityInv'
PROOF
  <1>0. EngineTypeOK
    BY DEF CapacityInv
  <1>1. take_candidate(candidate)
    BY DEF attach_refused
  <1>2. candidate \in DOMAIN pending
    BY DEF attach_refused, attach_verdict, Refusals
  <1>3. EngineTypeOK'
    BY <1>0, <1>1, <1>2, TakeCapacity DEF EngineTypeOK, attach_refused
  <1> QED
    BY <1>1, <1>3, TakeCapacity DEF CapacityInv

LEMMA DetachCapacity ==
  ASSUME CapacityInv, NEW session_id, detach(session_id)
  PROVE  CapacityInv'
PROOF
  <1>1. /\ DOMAIN sessions' = DOMAIN sessions \ {session_id}
        /\ \A s \in DOMAIN sessions' : sessions'[s] = sessions[s]
    BY DEF detach, RemoveKeys, Restrict
  <1> QED
    BY <1>1 DEF CapacityInv, EngineTypeOK, PendingIsQueued, PendingBounded, detach, history, ToSet

LEMMA UnchangedCapacity ==
  ASSUME CapacityInv, UNCHANGED << drawn, pending, candidate_order, sessions, history >>,
         published' \in [DIDs -> Keys \cup {NoKey}]
  PROVE  CapacityInv'
PROOF
  BY DEF CapacityInv, EngineTypeOK, PendingIsQueued, PendingBounded, history, ToSet

(***************************************************************************)
(* Capacity (bounds.rs MAX_PENDING_CANDIDATES; engine.rs evict_if_full):   *)
(* whatever the callers do and whatever the entropy source yields, the     *)
(* registry holds at most MAX_PENDING_CANDIDATES handshakes, each of them  *)
(* in the queue.                                                           *)
(***************************************************************************)
THEOREM Capacity == EngineSpec => []CapacityInv
PROOF
  <1>1. EngineInit => CapacityInv
    <2> SUFFICES ASSUME EngineInit
                 PROVE  CapacityInv
      OBVIOUS
    <2>1. DOMAIN pending = {}
      BY DEF EngineInit
    <2>2. EngineTypeOK
      BY <2>1, EngineAssumption DEF EngineInit, EngineTypeOK
    <2>3. Cardinality(DOMAIN pending) = 0
      BY <2>1, FS_EmptySet
    <2>4. PendingBounded
      BY <2>3, EngineAssumption DEF PendingBounded
    <2> QED
      BY <2>1, <2>2, <2>4 DEF CapacityInv, PendingIsQueued
  <1>2. CapacityInv /\ [EngineNext]_engine => CapacityInv'
    <2> SUFFICES ASSUME CapacityInv, [EngineNext]_engine
                 PROVE  CapacityInv'
      OBVIOUS
    <2>0. published \in [DIDs -> Keys \cup {NoKey}]
      BY DEF CapacityInv, EngineTypeOK
    <2>1. ASSUME NEW did \in DIDs, NEW key \in Keys \cup {BadText}, begin(did, key)
          PROVE  CapacityInv'
      <3>1. CASE begin_ok(did, key)
        BY <3>1, BeginCapacity DEF begin_ok, from_hex
      <3>2. CASE begin_malformed(key)
        BY <2>0, <3>2, UnchangedCapacity DEF begin_malformed, engine, registry
      <3> QED
        BY <2>1, <3>1, <3>2 DEF begin
    <2>2. ASSUME NEW candidate, NEW signature, NEW did \in DIDs,
                 attach(candidate, signature, did)
          PROVE  CapacityInv'
      <3>1. CASE attach_unknown(candidate, signature, did)
        BY <2>0, <3>1, UnchangedCapacity DEF attach_unknown, engine, registry
      <3> QED
        BY <2>2, <3>1, AttachOkCapacity, AttachRefusedCapacity DEF attach
    <2>3. ASSUME NEW session_id, detach(session_id)
          PROVE  CapacityInv'
      BY <2>3, DetachCapacity
    <2>4. ASSUME NEW did \in DIDs, NEW key \in Keys \cup {NoKey}, Republish(did, key)
          PROVE  CapacityInv'
      <3>1. published' \in [DIDs -> Keys \cup {NoKey}]
        BY <2>0, <2>4 DEF Republish
      <3> QED
        BY <2>4, <3>1, UnchangedCapacity DEF Republish, registry
    <2>5. CASE UNCHANGED engine
      BY <2>0, <2>5, UnchangedCapacity DEF engine, registry
    <2> QED
      BY <2>1, <2>2, <2>3, <2>4, <2>5 DEF EngineNext
  <1> QED
    BY <1>1, <1>2, PTL DEF EngineSpec

(***************************************************************************)
(* The types of the registry's state (engine.rs), whatever the calls.      *)
(***************************************************************************)
THEOREM EngineTypes == EngineSpec => []EngineTypeOK
PROOF
  BY Capacity, PTL DEF CapacityInv

(***************************************************************************)
(* The bound alone (bounds.rs MAX_PENDING_CANDIDATES), as the runs check   *)
(* it.                                                                     *)
(***************************************************************************)
THEOREM PendingBoundedTheorem == EngineSpec => []PendingBounded
PROOF
  BY Capacity, PTL DEF CapacityInv

(***************************************************************************)
(* The `None => break` of evict_if_full never ends the loop with the map   *)
(* still full: whatever is in the map is in the queue.                     *)
(***************************************************************************)
THEOREM PendingIsQueuedTheorem == EngineSpec => []PendingIsQueued
PROOF
  BY Capacity, PTL DEF CapacityInv
-----------------------------------------------------------------------------
(***************************************************************************)
(* Agreement, from an entropy source that never repeats a value.  The      *)
(* invariant is strengthened with what ties the three records of a         *)
(* handshake together: the history of begins, the map, the consumed        *)
(* candidates.                                                             *)
(***************************************************************************)
BeginsAreFresh ==
  /\ \A i \in DOMAIN begins :
       /\ begins[i].candidate <= drawn
       /\ begins[i].handshake.nonce <= drawn
  /\ \A i, j \in DOMAIN begins :
       (\/ begins[i].candidate = begins[j].candidate
        \/ begins[i].handshake.nonce = begins[j].handshake.nonce) => i = j

PendingWasBegun ==
  \A c \in DOMAIN pending :
    \E i \in DOMAIN begins :
      begins[i].candidate = c /\ begins[i].handshake = pending[c]

SpentIsGone ==
  /\ \A c \in spent : c \notin DOMAIN pending /\ c <= drawn
  /\ \A s \in opened : s.candidate \in spent

OpenedOnce ==
  \A s, t \in opened : s.candidate = t.candidate => s = t

SessionsWereOpened ==
  \A id \in DOMAIN sessions :
    \E s \in opened : s.session_id = id /\ s.did = sessions[id]

AllJustified == \A s \in opened : Justified(s)

AgreementInv ==
  /\ BeginsAreFresh
  /\ PendingWasBegun
  /\ SpentIsGone
  /\ OpenedOnce
  /\ SessionsWereOpened
  /\ AllJustified

\* A justification is not undone by later begins.
LEMMA JustifiedStays ==
  ASSUME NEW s, Justified(s),
         DOMAIN begins \subseteq DOMAIN begins',
         \A i \in DOMAIN begins : begins'[i] = begins[i]
  PROVE  Justified(s)'
PROOF
  BY DEF Justified, challenge_message

LEMMA BeginAgreement ==
  ASSUME FreshEntropy, CapacityInv, AgreementInv,
         NEW did \in DIDs, NEW key \in Keys, begin_ok(did, key)
  PROVE  AgreementInv'
PROOF
  <1> DEFINE handshake == [nonce |-> drawn + 1, advertised_key |-> key, profile_did |-> did]
             rec == [candidate |-> drawn + 2, handshake |-> handshake]
             k == Len(begins) + 1
  <1>0. EngineTypeOK
    BY DEF CapacityInv
  <1>1. /\ drawn \in Nat /\ MaxDraws \in Nat /\ drawn + 2 <= MaxDraws
        /\ drawn' = drawn + 2
        /\ UNCHANGED << sessions, spent, opened >>
    BY <1>0, EngineAssumption DEF EngineTypeOK, begin_ok
  <1>2. /\ begins' = Append(begins, rec)
        /\ pending' = Insert(RemoveKeys(pending, Oldest(evict_count)), drawn + 2, handshake)
    BY DEF begin_ok, fill_nonce
  <1>3. begins \in Seq([candidate: Token, handshake: PendingCandidate])
    BY <1>0 DEF EngineTypeOK
  <1>4. rec \in [candidate: Token, handshake: PendingCandidate]
    BY <1>1 DEF Token, PendingCandidate
  <1>5. rec.candidate = drawn + 2 /\ rec.handshake = handshake
        /\ handshake.nonce = drawn + 1
    OBVIOUS
  <1> HIDE DEF rec, handshake
  <1>6. /\ Len(begins) \in Nat /\ k \in Nat
        /\ DOMAIN begins = 1 .. Len(begins) /\ DOMAIN begins' = 1 .. k
        /\ \A i \in 1 .. Len(begins) : begins'[i] = begins[i]
        /\ begins'[k] = rec
    <2>1. /\ Append(begins, rec) \in Seq([candidate: Token, handshake: PendingCandidate])
          /\ Len(Append(begins, rec)) = Len(begins) + 1
          /\ \A i \in 1 .. Len(begins) : Append(begins, rec)[i] = begins[i]
          /\ Append(begins, rec)[Len(begins) + 1] = rec
      BY <1>3, <1>4, AppendProperties
    <2>2. /\ Len(begins) \in Nat /\ DOMAIN begins = 1 .. Len(begins)
          /\ DOMAIN Append(begins, rec) = 1 .. Len(begins) + 1
      BY <1>3, <2>1, LenProperties
    <2> QED
      BY <1>2, <2>1, <2>2
  <1>7. \A i \in 1 .. Len(begins) :
          /\ begins[i].candidate \in Nat /\ begins[i].candidate <= drawn
          /\ begins[i].handshake.nonce \in Nat /\ begins[i].handshake.nonce <= drawn
    <2>1. \A i \in 1 .. Len(begins) :
            begins[i] \in [candidate: Token, handshake: PendingCandidate]
      BY <1>3, ElementOfSeq
    <2> QED
      BY <1>6, <2>1 DEF AgreementInv, BeginsAreFresh, Token, PendingCandidate
  <1>8. /\ DOMAIN begins \subseteq DOMAIN begins' /\ k \in DOMAIN begins'
        /\ \A i \in DOMAIN begins' : i \in DOMAIN begins \/ i = k
        /\ k \notin DOMAIN begins
    BY <1>6
  <1> HIDE DEF k
  <1>9. BeginsAreFresh'
    <2>1. ASSUME NEW i \in DOMAIN begins'
          PROVE  begins'[i].candidate <= drawn' /\ begins'[i].handshake.nonce <= drawn'
      <3>1. CASE i = k
        BY <1>1, <1>5, <1>6, <3>1
      <3>2. CASE i \in DOMAIN begins
        BY <1>1, <1>6, <1>7, <3>2
      <3> QED
        BY <1>8, <3>1, <3>2
    <2>2. ASSUME NEW i \in DOMAIN begins
          PROVE  /\ begins'[i].candidate # begins'[k].candidate
                 /\ begins'[i].handshake.nonce # begins'[k].handshake.nonce
      BY <1>1, <1>5, <1>6, <1>7
    <2>3. ASSUME NEW i \in DOMAIN begins, NEW j \in DOMAIN begins,
                 \/ begins'[i].candidate = begins'[j].candidate
                 \/ begins'[i].handshake.nonce = begins'[j].handshake.nonce
          PROVE  i = j
      <3>1. begins'[i] = begins[i] /\ begins'[j] = begins[j]
        BY <1>6
      <3>2. \/ begins[i].candidate = begins[j].candidate
            \/ begins[i].handshake.nonce = begins[j].handshake.nonce
        BY <2>3, <3>1
      <3> QED
        BY <3>2 DEF AgreementInv, BeginsAreFresh
    <2> QED
      BY <1>8, <2>1, <2>2, <2>3 DEF BeginsAreFresh
  <1>10. /\ DOMAIN pending' \subseteq DOMAIN pending \cup {drawn + 2}
         /\ pending'[drawn + 2] = handshake
         /\ \A c \in DOMAIN pending' : c # drawn + 2 => pending'[c] = pending[c]
    BY <1>2 DEF Insert, RemoveKeys, Restrict
  <1>11. PendingWasBegun'
    <2> SUFFICES ASSUME NEW c \in DOMAIN pending'
                 PROVE  \E i \in DOMAIN begins' :
                          begins'[i].candidate = c /\ begins'[i].handshake = pending'[c]
      BY DEF PendingWasBegun
    <2>1. CASE c = drawn + 2
      BY <1>5, <1>6, <1>8, <1>10, <2>1
    <2>2. CASE c # drawn + 2
      <3>1. PICK i \in DOMAIN begins :
              begins[i].candidate = c /\ begins[i].handshake = pending[c]
        BY <1>10, <2>2 DEF AgreementInv, PendingWasBegun
      <3> QED
        BY <1>6, <1>8, <1>10, <2>2, <3>1
    <2> QED
      BY <2>1, <2>2
  <1>12. SpentIsGone'
    <2>1. \A c \in spent : c \in Nat /\ c <= drawn /\ c \notin DOMAIN pending
      BY <1>0 DEF AgreementInv, SpentIsGone, EngineTypeOK, Token
    <2>2. \A c \in spent : c # drawn + 2 /\ c <= drawn + 2
      BY <1>1, <2>1
    <2> QED
      BY <1>1, <1>10, <2>1, <2>2 DEF AgreementInv, SpentIsGone
  <1>13. AllJustified'
    BY <1>1, <1>6, <1>8, JustifiedStays DEF AgreementInv, AllJustified
  <1> QED
    BY <1>1, <1>9, <1>11, <1>12, <1>13
      DEF AgreementInv, OpenedOnce, SessionsWereOpened

LEMMA AttachOkAgreement ==
  ASSUME FreshEntropy, CapacityInv, AgreementInv,
         NEW candidate, NEW signature, NEW did \in DIDs,
         attach_ok(candidate, signature, did)
  PROVE  AgreementInv'
PROOF
  <1> DEFINE new == [session_id |-> drawn + 1, candidate |-> candidate, did |-> did,
                     published |-> published[did], signature |-> signature]
  <1>0. EngineTypeOK /\ take_candidate(candidate)
    BY DEF CapacityInv, attach_ok
  <1>1. /\ drawn \in Nat /\ drawn' = drawn + 1
        /\ sessions' = Insert(sessions, drawn + 1, did)
        /\ opened' = opened \cup {new}
        /\ spent' = spent \cup {candidate}
        /\ UNCHANGED << published, begins >>
    BY <1>0 DEF attach_ok, fill_nonce, EngineTypeOK
  <1>2. /\ candidate \in DOMAIN pending
        /\ pending[candidate].profile_did = did
        /\ published[did] = pending[candidate].advertised_key
        /\ signature = [key |-> published[did],
                        over |-> challenge_message(pending[candidate].nonce, did)]
    BY <1>0, OkVerdict DEF attach_ok
  <1>3. /\ DOMAIN pending' = DOMAIN pending \ {candidate}
        /\ \A c \in DOMAIN pending' : pending'[c] = pending[c]
    BY <1>0, TakeCapacity
  <1>4. PICK i \in DOMAIN begins :
          begins[i].candidate = candidate /\ begins[i].handshake = pending[candidate]
    BY <1>2 DEF AgreementInv, PendingWasBegun
  <1>5. candidate \notin spent /\ candidate \in Nat /\ candidate <= drawn
    BY <1>0, <1>2, <1>4 DEF AgreementInv, SpentIsGone, BeginsAreFresh, EngineTypeOK, Token
  <1>6. /\ new.session_id = drawn + 1 /\ new.candidate = candidate /\ new.did = did
        /\ new.published = published[did] /\ new.signature = signature
    OBVIOUS
  <1> HIDE DEF new
  <1>7. Justified(new)
    BY <1>2, <1>4, <1>6 DEF Justified
  <1>8. AllJustified'
    BY <1>1, <1>7 DEF AgreementInv, AllJustified, Justified, challenge_message
  <1>9. BeginsAreFresh'
    <2>1. \A j \in DOMAIN begins :
            begins[j].candidate \in Nat /\ begins[j].handshake.nonce \in Nat
      <3>1. \A j \in DOMAIN begins :
              begins[j] \in [candidate: Token, handshake: PendingCandidate]
        BY <1>0, ElementOfSeq, LenProperties DEF EngineTypeOK
      <3> QED
        BY <3>1 DEF Token, PendingCandidate
    <2> QED
      BY <1>1, <2>1 DEF AgreementInv, BeginsAreFresh
  <1>10. PendingWasBegun'
    BY <1>1, <1>3 DEF AgreementInv, PendingWasBegun
  <1>11. SpentIsGone'
    <2>1. \A c \in spent : c \in Nat
      BY <1>0 DEF EngineTypeOK, Token
    <2> QED
      BY <1>1, <1>3, <1>5, <1>6, <2>1 DEF AgreementInv, SpentIsGone
  <1>12. OpenedOnce'
    BY <1>1, <1>5, <1>6 DEF AgreementInv, OpenedOnce, SpentIsGone
  <1>13. SessionsWereOpened'
    <2>1. /\ DOMAIN sessions' = DOMAIN sessions \cup {drawn + 1}
          /\ sessions'[drawn + 1] = did
          /\ \A id \in DOMAIN sessions : id # drawn + 1 => sessions'[id] = sessions[id]
      BY <1>1 DEF Insert
    <2> QED
      BY <1>1, <1>6, <2>1 DEF AgreementInv, SessionsWereOpened
  <1> QED
    BY <1>8, <1>9, <1>10, <1>11, <1>12, <1>13 DEF AgreementInv

LEMMA AttachRefusedAgreement ==
  ASSUME CapacityInv, AgreementInv, NEW candidate, NEW signature, NEW did \in DIDs,
         attach_refused(candidate, signature, did)
  PROVE  AgreementInv'
PROOF
  <1>0. EngineTypeOK /\ take_candidate(candidate)
    BY DEF CapacityInv, attach_refused
  <1>1. /\ DOMAIN pending' = DOMAIN pending \ {candidate}
        /\ \A c \in DOMAIN pending' : pending'[c] = pending[c]
    BY <1>0, TakeCapacity
  <1>2. /\ spent' = spent \cup {candidate}
        /\ UNCHANGED << drawn, sessions, published, begins, opened >>
    BY DEF attach_refused
  <1>3. candidate \in DOMAIN pending
    BY DEF attach_refused, attach_verdict, Refusals
  <1>4. candidate <= drawn
    BY <1>3 DEF AgreementInv, PendingWasBegun, BeginsAreFresh
  <1>5. PendingWasBegun' /\ SpentIsGone'
    BY <1>1, <1>2, <1>4 DEF AgreementInv, PendingWasBegun, SpentIsGone
  <1>6. AllJustified'
    BY <1>2 DEF AgreementInv, AllJustified, Justified, challenge_message
  <1> QED
    BY <1>2, <1>5, <1>6
      DEF AgreementInv, BeginsAreFresh, OpenedOnce, SessionsWereOpened

LEMMA OtherAgreement ==
  ASSUME AgreementInv, UNCHANGED << drawn, pending, begins, spent, opened >>,
         DOMAIN sessions' \subseteq DOMAIN sessions,
         \A id \in DOMAIN sessions' : sessions'[id] = sessions[id]
  PROVE  AgreementInv'
PROOF
  <1>1. AllJustified'
    BY DEF AgreementInv, AllJustified, Justified, challenge_message
  <1> QED
    BY <1>1 DEF AgreementInv, BeginsAreFresh, PendingWasBegun, SpentIsGone,
                OpenedOnce, SessionsWereOpened

\* The strengthened invariant implies the property: two sessions opened with
\* one signature share its nonce, hence the begin, hence the candidate.
LEMMA AgreementFollows ==
  ASSUME AgreementInv
  PROVE  InjectiveAgreement
PROOF
  <1>1. ASSUME NEW s \in opened, NEW t \in opened, s.signature = t.signature
        PROVE  s.candidate = t.candidate
    <2>1. PICK i \in DOMAIN begins :
            /\ begins[i].candidate = s.candidate
            /\ s.signature =
                 [key |-> s.published,
                  over |-> challenge_message(begins[i].handshake.nonce, s.did)]
      BY DEF AgreementInv, AllJustified, Justified
    <2>2. PICK j \in DOMAIN begins :
            /\ begins[j].candidate = t.candidate
            /\ t.signature =
                 [key |-> t.published,
                  over |-> challenge_message(begins[j].handshake.nonce, t.did)]
      BY DEF AgreementInv, AllJustified, Justified
    <2>3. s.signature.over = challenge_message(begins[i].handshake.nonce, s.did)
      BY <2>1
    <2>4. t.signature.over = challenge_message(begins[j].handshake.nonce, t.did)
      BY <2>2
    <2>5. begins[i].handshake.nonce = begins[j].handshake.nonce
      BY <1>1, <2>3, <2>4 DEF challenge_message
    <2> QED
      BY <2>1, <2>2, <2>5 DEF AgreementInv, BeginsAreFresh
  <1> QED
    BY <1>1 DEF AgreementInv, InjectiveAgreement, AllJustified, OpenedOnce,
                SessionsWereOpened

(***************************************************************************)
(* The strengthened invariant, with fresh entropy.                         *)
(***************************************************************************)
THEOREM Agreement == FreshEntropy /\ EngineSpec => []AgreementInv
PROOF
  <1> SUFFICES ASSUME FreshEntropy
               PROVE  EngineSpec => []AgreementInv
    OBVIOUS
  <1>1. EngineInit => AgreementInv
    BY DEF EngineInit, AgreementInv, BeginsAreFresh, PendingWasBegun, SpentIsGone,
           OpenedOnce, SessionsWereOpened, AllJustified
  <1>2. CapacityInv /\ AgreementInv /\ [EngineNext]_engine => AgreementInv'
    <2> SUFFICES ASSUME CapacityInv, AgreementInv, [EngineNext]_engine
                 PROVE  AgreementInv'
      OBVIOUS
    <2>1. ASSUME NEW did \in DIDs, NEW key \in Keys \cup {BadText}, begin(did, key)
          PROVE  AgreementInv'
      <3>1. CASE begin_ok(did, key)
        BY <3>1, BeginAgreement DEF begin_ok, from_hex
      <3>2. CASE begin_malformed(key)
        BY <3>2, OtherAgreement DEF begin_malformed, engine, registry, history
      <3> QED
        BY <2>1, <3>1, <3>2 DEF begin
    <2>2. ASSUME NEW candidate, NEW signature, NEW did \in DIDs,
                 attach(candidate, signature, did)
          PROVE  AgreementInv'
      <3>1. CASE attach_unknown(candidate, signature, did)
        BY <3>1, OtherAgreement DEF attach_unknown, engine, registry, history
      <3> QED
        BY <2>2, <3>1, AttachOkAgreement, AttachRefusedAgreement DEF attach
    <2>3. ASSUME NEW session_id, detach(session_id)
          PROVE  AgreementInv'
      <3>1. /\ DOMAIN sessions' \subseteq DOMAIN sessions
            /\ \A id \in DOMAIN sessions' : sessions'[id] = sessions[id]
        BY <2>3 DEF detach, RemoveKeys, Restrict
      <3> QED
        BY <2>3, <3>1, OtherAgreement DEF detach, history
    <2>4. ASSUME NEW did \in DIDs, NEW key \in Keys \cup {NoKey}, Republish(did, key)
          PROVE  AgreementInv'
      BY <2>4, OtherAgreement DEF Republish, registry, history
    <2>5. CASE UNCHANGED engine
      BY <2>5, OtherAgreement DEF engine, registry, history
    <2> QED
      BY <2>1, <2>2, <2>3, <2>4, <2>5 DEF EngineNext
  <1> QED
    BY <1>1, <1>2, Capacity, PTL DEF EngineSpec

(***************************************************************************)
(* Injective agreement (engine.rs attach): with fresh entropy, every       *)
(* session opened was authorised by the key its DID had published then,    *)
(* over the nonce of a begin of its own, and neither a candidate nor a     *)
(* signature ever opens a second one.                                      *)
(***************************************************************************)
THEOREM AgreementTheorem == FreshEntropy /\ EngineSpec => []InjectiveAgreement
PROOF
  BY Agreement, AgreementFollows, PTL
-----------------------------------------------------------------------------
(***************************************************************************)
(* The queue, from an entropy source that never repeats a value: it is the *)
(* map's candidates in the order of their begin.                           *)
(***************************************************************************)
BeginsIncrease ==
  \A i, j \in DOMAIN begins : i < j => begins[i].candidate < begins[j].candidate

OrderInv ==
  /\ Increasing(candidate_order)
  /\ ToSet(candidate_order) = DOMAIN pending
  /\ BeginsIncrease

QueueInv == OrderInv /\ RecentBeginsSurvive

\* The queue and the history of begins hold values already drawn.
LEMMA Drawn ==
  ASSUME EngineTypeOK, AgreementInv, ToSet(candidate_order) = DOMAIN pending
  PROVE  /\ Len(candidate_order) \in Nat /\ DOMAIN candidate_order = 1 .. Len(candidate_order)
         /\ \A i \in 1 .. Len(candidate_order) :
              /\ candidate_order[i] \in DOMAIN pending
              /\ candidate_order[i] \in Nat /\ candidate_order[i] <= drawn
         /\ Len(begins) \in Nat /\ DOMAIN begins = 1 .. Len(begins)
         /\ \A i \in 1 .. Len(begins) :
              begins[i].candidate \in Nat /\ begins[i].candidate <= drawn
PROOF
  <1>1. /\ Len(candidate_order) \in Nat /\ DOMAIN candidate_order = 1 .. Len(candidate_order)
        /\ Len(begins) \in Nat /\ DOMAIN begins = 1 .. Len(begins)
    BY LenProperties DEF EngineTypeOK
  <1>2. \A i \in 1 .. Len(candidate_order) : candidate_order[i] \in DOMAIN pending
    BY <1>1 DEF ToSet
  <1>3. \A i \in 1 .. Len(begins) :
          begins[i] \in [candidate: Token, handshake: PendingCandidate]
    BY ElementOfSeq DEF EngineTypeOK
  <1>4. \A i \in 1 .. Len(begins) :
          begins[i].candidate \in Nat /\ begins[i].candidate <= drawn
    BY <1>1, <1>3 DEF AgreementInv, BeginsAreFresh, Token
  <1>5. \A c \in DOMAIN pending : c \in Nat /\ c <= drawn
    BY <1>1, <1>4 DEF AgreementInv, PendingWasBegun
  <1> QED
    BY <1>1, <1>2, <1>4, <1>5

(***************************************************************************)
(* evict_if_full drops one candidate at the most, and only from a full     *)
(* map.                                                                    *)
(***************************************************************************)
LEMMA EvictsOne ==
  ASSUME CapacityInv, AgreementInv, OrderInv
  PROVE  /\ evict_count \in 0 .. 1 /\ evict_count <= Len(candidate_order)
         /\ evict_count = 1 =>
              /\ candidate_order[1] \in DOMAIN pending
              /\ IsFiniteSet(DOMAIN pending)
              /\ Cardinality(DOMAIN pending) = MAX_PENDING_CANDIDATES
PROOF
  <1> DEFINE n == Len(candidate_order)
             K == {k \in 0 .. n : HasRoomWithout(Oldest(k)) \/ k = n}
  <1>1. /\ n \in Nat
        /\ \A i \in 1 .. n : candidate_order[i] \in DOMAIN pending
    BY Drawn DEF CapacityInv, OrderInv
  <1>2. K \in SUBSET Nat /\ n \in K
    BY <1>1
  <1>3. evict_count \in K /\ \A k \in K : evict_count <= k
    BY <1>2, MinOfNats DEF evict_count
  <1>4. /\ IsFiniteSet(DOMAIN pending)
        /\ Cardinality(DOMAIN pending) \in Nat
        /\ Cardinality(DOMAIN pending) <= MAX_PENDING_CANDIDATES
    <2>1. DOMAIN pending \in SUBSET Token
      BY DEF CapacityInv, EngineTypeOK
    <2>2. IsFiniteSet(Token)
      BY FS_Interval, EngineAssumption DEF Token
    <2>3. IsFiniteSet(DOMAIN pending)
      BY <2>1, <2>2, FS_Subset
    <2> QED
      BY <2>3, FS_CardinalityType DEF CapacityInv, PendingBounded
  <1>5. n >= 1 => 1 \in K
    <2> SUFFICES ASSUME n >= 1
                 PROVE  1 \in K
      OBVIOUS
    <2>1. candidate_order[1] \in DOMAIN pending
      BY <1>1
    <2>2. Oldest(1) = {candidate_order[1]}
      BY DEF Oldest
    <2>3. Cardinality(DOMAIN pending \ {candidate_order[1]}) = Cardinality(DOMAIN pending) - 1
      BY <1>4, <2>1, FS_RemoveElement
    <2>4. Cardinality(DOMAIN pending) - 1 < MAX_PENDING_CANDIDATES
      BY <1>4, EngineAssumption
    <2>5. HasRoomWithout(Oldest(1))
      BY <2>2, <2>3, <2>4 DEF HasRoomWithout
    <2>6. 1 \in 0 .. n
      BY <1>1
    <2> QED
      BY <2>5, <2>6
  <1>6. (evict_count = 1) => (0 \notin K)
    BY <1>3
  <1>7. (0 \notin K) => ~ HasRoomWithout({})
    <2> SUFFICES ASSUME HasRoomWithout({})
                 PROVE  0 \in K
      OBVIOUS
    <2>1. Oldest(0) = {}
      BY DEF Oldest
    <2>2. HasRoomWithout(Oldest(0))
      BY <2>1
    <2>3. 0 \in 0 .. n
      BY <1>1
    <2> QED
      BY <2>2, <2>3
  <1>8. DOMAIN pending \ {} = DOMAIN pending
    OBVIOUS
  <1>9. (evict_count = 1) => (Cardinality(DOMAIN pending) = MAX_PENDING_CANDIDATES)
    BY <1>4, <1>6, <1>7, <1>8, EngineAssumption DEF HasRoomWithout
  <1>10. evict_count \in 0 .. n /\ (n >= 1 => evict_count <= 1)
    BY <1>3, <1>5
  <1> QED
    BY <1>1, <1>4, <1>9, <1>10

(***************************************************************************)
(* What it drops is older than MAX_PENDING_CANDIDATES - 1 other begins:    *)
(* the rest of the full map came after it.                                 *)
(***************************************************************************)
LEMMA EvictedIsOld ==
  ASSUME CapacityInv, AgreementInv, OrderInv, evict_count = 1,
         NEW i \in 1 .. Len(begins), begins[i].candidate = candidate_order[1]
  PROVE  Len(begins) - i >= MAX_PENDING_CANDIDATES - 1
PROOF
  <1> DEFINE c == candidate_order[1]
             S == DOMAIN pending \ {c}
             T == i + 1 .. Len(begins)
             f == [x \in S |-> CHOOSE j \in T : begins[j].candidate = x]
  <1>1. /\ Len(candidate_order) \in Nat /\ DOMAIN candidate_order = 1 .. Len(candidate_order)
        /\ \A m \in 1 .. Len(candidate_order) : candidate_order[m] \in Nat
        /\ Len(begins) \in Nat /\ DOMAIN begins = 1 .. Len(begins)
        /\ \A j \in 1 .. Len(begins) : begins[j].candidate \in Nat
    BY Drawn DEF CapacityInv, OrderInv
  <1>2. /\ 1 <= Len(candidate_order)
        /\ c \in DOMAIN pending
        /\ IsFiniteSet(DOMAIN pending)
        /\ Cardinality(DOMAIN pending) = MAX_PENDING_CANDIDATES
    BY EvictsOne
  <1>3. IsFiniteSet(S) /\ Cardinality(S) = MAX_PENDING_CANDIDATES - 1
    BY <1>2, FS_RemoveElement
  <1>4. IsFiniteSet(T) /\ Cardinality(T) = Len(begins) - i
    <2>1. i + 1 \in Int /\ Len(begins) \in Int
      BY <1>1
    <2>2. IsFiniteSet(T) /\ Cardinality(T) = IF i + 1 > Len(begins) THEN 0
                                             ELSE Len(begins) - (i + 1) + 1
      BY <2>1, FS_Interval
    <2> QED
      BY <1>1, <2>2
  <1>5. ASSUME NEW x \in S
        PROVE  \E j \in T : begins[j].candidate = x
    <2>1. PICK m \in 1 .. Len(candidate_order) : candidate_order[m] = x
      BY <1>1 DEF OrderInv, ToSet
    <2>2. m # 1
      BY <2>1
    <2>3. c < x
      BY <1>1, <1>2, <2>1, <2>2 DEF OrderInv, Increasing
    <2>4. PICK j \in 1 .. Len(begins) : begins[j].candidate = x
      BY <1>1 DEF AgreementInv, PendingWasBegun
    <2>5. c \in Nat /\ x \in Nat
      BY <1>1, <1>2, <2>1
    <2>6. j # i
      BY <2>3, <2>4, <2>5
    <2>7. ~ (j < i)
      <3> SUFFICES ASSUME j < i
                   PROVE  FALSE
        OBVIOUS
      <3>1. x < c
        BY <1>1, <2>4 DEF OrderInv, BeginsIncrease
      <3> QED
        BY <2>3, <2>5, <3>1
    <2>8. j \in T
      BY <1>1, <2>6, <2>7
    <2> QED
      BY <2>4, <2>8
  <1> HIDE DEF c, S, T
  <1>6. \A x \in S : f[x] \in T /\ begins[f[x]].candidate = x
    BY <1>5
  <1>7. f \in [S -> T]
    BY <1>6
  <1> HIDE DEF f
  <1>8. ~ (Cardinality(T) < Cardinality(S))
    <2> SUFFICES ASSUME Cardinality(T) < Cardinality(S)
                 PROVE  FALSE
      OBVIOUS
    <2>1. \E x, y \in S : x # y /\ f[x] = f[y]
      BY <1>3, <1>4, <1>7, FS_PigeonHole
    <2> QED
      BY <1>6, <2>1
  <1> QED
    BY <1>1, <1>3, <1>4, <1>8, EngineAssumption

\* A begin keeps the queue in order, and what it drops is MAX_PENDING_CANDIDATES
\* begins old.
BeginSpares ==
  /\ Len(begins') = Len(begins) + 1
  /\ DOMAIN begins = 1 .. Len(begins) /\ DOMAIN begins' = 1 .. Len(begins) + 1
  /\ \A i \in 1 .. Len(begins) :
       /\ begins'[i] = begins[i]
       /\ begins[i].candidate \in DOMAIN pending =>
            \/ begins[i].candidate \in DOMAIN pending'
            \/ Len(begins) + 1 - i >= MAX_PENDING_CANDIDATES
  /\ begins'[Len(begins) + 1].candidate \in DOMAIN pending'

LEMMA BeginOrder ==
  ASSUME FreshEntropy, CapacityInv, AgreementInv, OrderInv,
         NEW did \in DIDs, NEW key \in Keys, begin_ok(did, key)
  PROVE  OrderInv' /\ BeginSpares
PROOF
  <1> DEFINE order == candidate_order
             n == evict_count
             kept == SubSeq(order, n + 1, Len(order))
             new == drawn + 2
             handshake == [nonce |-> drawn + 1, advertised_key |-> key, profile_did |-> did]
             rec == [candidate |-> new, handshake |-> handshake]
  <1>0. EngineTypeOK
    BY DEF CapacityInv
  <1>1. /\ candidate_order' = Append(kept, new)
        /\ pending' = Insert(RemoveKeys(pending, Oldest(n)), new, handshake)
        /\ begins' = Append(begins, rec)
        /\ spent' = spent
    BY DEF begin_ok, fill_nonce
  <1>2. DOMAIN pending' = (DOMAIN pending \ Oldest(n)) \cup {new}
    <2> DEFINE left == RemoveKeys(pending, Oldest(n))
    <2>1. pending' = Insert(left, new, handshake)
      BY <1>1
    <2>2. DOMAIN left = DOMAIN pending \ Oldest(n)
      BY DEF RemoveKeys, Restrict
    <2> HIDE DEF left, handshake, new, n
    <2>3. DOMAIN Insert(left, new, handshake) = DOMAIN left \cup {new}
      BY DEF Insert
    <2> QED
      BY <2>1, <2>2, <2>3
  <1>3. /\ drawn \in Nat /\ new \in Token /\ new = drawn + 2
        /\ rec \in [candidate: Token, handshake: PendingCandidate]
    <2>1. drawn \in Nat /\ MaxDraws \in Nat /\ drawn + 2 <= MaxDraws
      BY <1>0, EngineAssumption DEF EngineTypeOK, begin_ok
    <2> QED
      BY <2>1 DEF Token, PendingCandidate
  <1>4. rec.candidate = new
    OBVIOUS
  <1>5. n \in 0 .. 1 /\ n <= Len(order)
    BY EvictsOne
  <1> HIDE DEF new, rec, n, handshake
  <1>6. /\ Len(order) \in Nat /\ DOMAIN order = 1 .. Len(order)
        /\ \A i \in 1 .. Len(order) :
             order[i] \in DOMAIN pending /\ order[i] \in Nat /\ order[i] <= drawn
        /\ Len(begins) \in Nat /\ DOMAIN begins = 1 .. Len(begins)
        /\ \A i \in 1 .. Len(begins) :
             begins[i].candidate \in Nat /\ begins[i].candidate <= drawn
    BY <1>0, Drawn DEF OrderInv
  <1>7. /\ kept \in Seq(Token)
        /\ Len(kept) = Len(order) - n
        /\ \A i \in 1 .. Len(order) - n : kept[i] = order[n + i]
    <2>1. order \in Seq(Token)
      BY <1>0 DEF EngineTypeOK
    <2>2. \A i \in n + 1 .. Len(order) : order[i] \in Token
      BY <1>5, <1>6, <2>1, ElementOfSeq
    <2>3. /\ kept \in Seq(Token)
          /\ Len(kept) = IF n + 1 <= Len(order) THEN Len(order) - (n + 1) + 1 ELSE 0
          /\ \A i \in 1 .. Len(order) - (n + 1) + 1 : kept[i] = order[(n + 1) + i - 1]
      BY <1>5, <1>6, <2>1, <2>2, SubSeqProperties
    <2> HIDE DEF kept, order
    <2>4. n \in Int /\ Len(order) \in Nat /\ n <= Len(order)
      BY <1>5, <1>6
    <2> QED
      BY <2>3, <2>4
  <1> HIDE DEF kept
  <1> DEFINE m == Len(order) - n
  <1>8. /\ m \in Nat /\ Len(candidate_order') = m + 1
        /\ \A i \in 1 .. m : candidate_order'[i] = order[n + i] /\ n + i \in 1 .. Len(order)
        /\ candidate_order'[m + 1] = new
        /\ DOMAIN candidate_order' = 1 .. m + 1
    <2>1. /\ Append(kept, new) \in Seq(Token)
          /\ Len(Append(kept, new)) = Len(kept) + 1
          /\ \A i \in 1 .. Len(kept) : Append(kept, new)[i] = kept[i]
          /\ Append(kept, new)[Len(kept) + 1] = new
      BY <1>3, <1>7, AppendProperties
    <2>2. DOMAIN Append(kept, new) = 1 .. Len(kept) + 1
      BY <2>1, LenProperties
    <2>3. m \in Nat /\ Len(kept) = m /\ \A i \in 1 .. m : n + i \in 1 .. Len(order)
      BY <1>5, <1>6, <1>7
    <2> QED
      BY <1>1, <1>7, <2>1, <2>2, <2>3
  <1>9. \A i \in 1 .. Len(order) : ~ (i <= n) => i - n \in 1 .. m /\ n + (i - n) = i
    BY <1>5, <1>6
  <1>10. \A i, j \in 1 .. Len(order) : i < j => order[i] < order[j]
    BY DEF OrderInv, Increasing
  <1> HIDE DEF m, order
  <1>11. Increasing(candidate_order)'
    <2> SUFFICES ASSUME NEW i \in 1 .. m + 1, NEW j \in 1 .. m + 1, i < j
                 PROVE  candidate_order'[i] < candidate_order'[j]
      BY <1>8 DEF Increasing
    <2>1. i \in 1 .. m
      BY <1>8
    <2>2. candidate_order'[i] = order[n + i] /\ n + i \in 1 .. Len(order)
      BY <1>8, <2>1
    <2>3. CASE j \in 1 .. m
      <3>1. candidate_order'[j] = order[n + j] /\ n + j \in 1 .. Len(order)
        BY <1>8, <2>3
      <3>2. n + i < n + j
        BY <1>5
      <3> QED
        BY <1>10, <2>2, <3>1, <3>2
    <2>4. CASE j = m + 1
      <3>1. order[n + i] \in Nat /\ order[n + i] <= drawn
        BY <1>6, <2>2
      <3>2. candidate_order'[j] = drawn + 2
        BY <1>3, <1>8, <2>4
      <3> QED
        BY <1>3, <2>2, <3>1, <3>2
    <2> QED
      BY <1>8, <2>3, <2>4
  <1>12. \A i \in 1 .. Len(order) : order[i] \in Oldest(n) <=> i <= n
    <2>1. Oldest(n) = {order[i] : i \in 1 .. n}
      BY DEF Oldest, order
    <2>2. ASSUME NEW i \in 1 .. Len(order), order[i] \in Oldest(n)
          PROVE  i <= n
      <3>1. PICK j \in 1 .. n : order[i] = order[j]
        BY <2>1, <2>2
      <3>2. j \in 1 .. Len(order)
        BY <1>5, <1>6
      <3>3. order[i] \in Nat /\ ~ (order[j] < order[i])
        BY <1>6, <3>1, <3>2
      <3>4. ~ (j < i)
        BY <1>10, <3>2, <3>3
      <3> QED
        BY <1>5, <3>4
    <2>3. ASSUME NEW i \in 1 .. Len(order), i <= n
          PROVE  order[i] \in Oldest(n)
      BY <1>5, <2>1, <2>3
    <2> QED
      BY <2>2, <2>3
  <1>13. DOMAIN pending = {order[i] : i \in 1 .. Len(order)}
    BY <1>6 DEF OrderInv, ToSet, order
  <1>14. (ToSet(candidate_order) = DOMAIN pending)'
    <2>1. ASSUME NEW x \in DOMAIN pending'
          PROVE  \E i \in 1 .. m + 1 : candidate_order'[i] = x
      <3>1. CASE x = new
        BY <1>8, <3>1
      <3>2. CASE x # new
        <4>1. PICK i \in 1 .. Len(order) : order[i] = x
          BY <1>2, <1>13, <3>2
        <4>2. ~ (i <= n)
          BY <1>2, <1>12, <3>2, <4>1
        <4>3. i - n \in 1 .. m /\ n + (i - n) = i
          BY <1>9, <4>2
        <4>4. candidate_order'[i - n] = x /\ i - n \in 1 .. m + 1
          BY <1>8, <4>1, <4>3
        <4> QED
          BY <4>4
      <3> QED
        BY <3>1, <3>2
    <2>2. ASSUME NEW i \in 1 .. m + 1
          PROVE  candidate_order'[i] \in DOMAIN pending'
      <3>1. CASE i = m + 1
        BY <1>2, <1>8, <3>1
      <3>2. CASE i \in 1 .. m
        <4>1. candidate_order'[i] = order[n + i] /\ n + i \in 1 .. Len(order)
          BY <1>8, <3>2
        <4>2. ~ (n + i <= n)
          BY <1>5, <3>2
        <4>3. order[n + i] \in DOMAIN pending /\ order[n + i] \notin Oldest(n)
          BY <1>6, <1>12, <4>1, <4>2
        <4> QED
          BY <1>2, <4>1, <4>3
      <3> QED
        BY <1>8, <3>1, <3>2
    <2> QED
      BY <1>8, <2>1, <2>2 DEF ToSet
  <1>15. /\ Len(begins') = Len(begins) + 1 /\ DOMAIN begins' = 1 .. Len(begins) + 1
         /\ \A i \in 1 .. Len(begins) : begins'[i] = begins[i]
         /\ begins'[Len(begins) + 1].candidate = new
    <2>1. begins \in Seq([candidate: Token, handshake: PendingCandidate])
      BY <1>0 DEF EngineTypeOK
    <2>2. /\ Append(begins, rec) \in Seq([candidate: Token, handshake: PendingCandidate])
          /\ Len(Append(begins, rec)) = Len(begins) + 1
          /\ \A i \in 1 .. Len(begins) : Append(begins, rec)[i] = begins[i]
          /\ Append(begins, rec)[Len(begins) + 1] = rec
      BY <1>3, <2>1, AppendProperties
    <2>3. DOMAIN Append(begins, rec) = 1 .. Len(begins) + 1
      BY <2>2, LenProperties
    <2> QED
      BY <1>1, <1>4, <2>2, <2>3
  <1>16. BeginsIncrease'
    <2> SUFFICES ASSUME NEW i \in 1 .. Len(begins) + 1, NEW j \in 1 .. Len(begins) + 1, i < j
                 PROVE  begins'[i].candidate < begins'[j].candidate
      BY <1>15 DEF BeginsIncrease
    <2>1. i \in 1 .. Len(begins) /\ begins'[i] = begins[i]
      BY <1>6, <1>15
    <2>2. CASE j \in 1 .. Len(begins)
      BY <1>6, <1>15, <2>1, <2>2 DEF OrderInv, BeginsIncrease
    <2>3. CASE j = Len(begins) + 1
      <3>1. begins[i].candidate \in Nat /\ begins[i].candidate <= drawn
        BY <1>6, <2>1
      <3>2. begins'[j].candidate = drawn + 2
        BY <1>3, <1>15, <2>3
      <3> QED
        BY <1>3, <2>1, <3>1, <3>2
    <2> QED
      BY <1>6, <2>2, <2>3
  <1>17. ASSUME NEW i \in 1 .. Len(begins), begins[i].candidate \in DOMAIN pending,
                begins[i].candidate \notin DOMAIN pending'
         PROVE  Len(begins) + 1 - i >= MAX_PENDING_CANDIDATES
    <2>1. begins[i].candidate \in Oldest(n)
      BY <1>2, <1>17
    <2>2. n = 1 /\ begins[i].candidate = candidate_order[1]
      BY <1>5, <2>1 DEF Oldest
    <2>3. Len(begins) - i >= MAX_PENDING_CANDIDATES - 1
      BY <2>2, EvictedIsOld DEF n
    <2> QED
      BY <1>6, <2>3, EngineAssumption
  <1>18. BeginSpares
    BY <1>2, <1>6, <1>15, <1>17 DEF BeginSpares
  <1> QED
    BY <1>11, <1>14, <1>16, <1>18 DEF OrderInv

LEMMA BeginQueue ==
  ASSUME FreshEntropy, CapacityInv, AgreementInv, QueueInv,
         NEW did \in DIDs, NEW key \in Keys, begin_ok(did, key)
  PROVE  QueueInv'
PROOF
  <1>1. OrderInv' /\ BeginSpares
    BY BeginOrder DEF QueueInv
  <1>2. Len(begins) \in Nat /\ spent' = spent
    BY LenProperties DEF CapacityInv, EngineTypeOK, begin_ok
  <1>3. RecentBeginsSurvive'
    <2> SUFFICES ASSUME NEW i \in 1 .. Len(begins) + 1,
                        Len(begins) + 1 - i < MAX_PENDING_CANDIDATES
                 PROVE  begins'[i].candidate \in DOMAIN pending' \cup spent
      BY <1>1, <1>2 DEF RecentBeginsSurvive, BeginSpares
    <2>1. CASE i = Len(begins) + 1
      BY <1>1, <2>1 DEF BeginSpares
    <2>2. CASE i \in 1 .. Len(begins)
      <3>1. Len(begins) - i < MAX_PENDING_CANDIDATES
            /\ ~ (Len(begins) + 1 - i >= MAX_PENDING_CANDIDATES)
        BY <1>2, <2>2, EngineAssumption
      <3>2. begins[i].candidate \in DOMAIN pending \cup spent
        BY <1>1, <2>2, <3>1 DEF QueueInv, RecentBeginsSurvive, BeginSpares
      <3> QED
        BY <1>1, <2>2, <3>1, <3>2 DEF BeginSpares
    <2> QED
      BY <1>2, <2>1, <2>2
  <1> QED
    BY <1>1, <1>3 DEF QueueInv

\* An attach that consumes a candidate takes it out of the queue and the map.
LEMMA TakeOrder ==
  ASSUME CapacityInv, AgreementInv, OrderInv, NEW candidate \in DOMAIN pending,
         take_candidate(candidate), begins' = begins
  PROVE  OrderInv'
PROOF
  <1>1. DOMAIN pending' = DOMAIN pending \ {candidate}
    BY TakeCapacity
  <1>2. candidate_order' = RemoveFirst(candidate_order, candidate)
    BY DEF take_candidate
  <1>3. /\ Increasing(RemoveFirst(candidate_order, candidate))
        /\ ToSet(RemoveFirst(candidate_order, candidate)) = ToSet(candidate_order) \ {candidate}
    <2>1. candidate_order \in Seq(Token) /\ Token \in SUBSET Nat
      BY EngineAssumption DEF CapacityInv, EngineTypeOK, Token
    <2> QED
      BY <2>1, RemoveFirstFromIncreasing DEF OrderInv
  <1>4. Increasing(candidate_order)' /\ (ToSet(candidate_order) = DOMAIN pending)'
    BY <1>1, <1>2, <1>3 DEF OrderInv, Increasing, ToSet
  <1> QED
    BY <1>4 DEF OrderInv, BeginsIncrease

LEMMA TakeQueue ==
  ASSUME CapacityInv, AgreementInv, QueueInv, NEW candidate \in DOMAIN pending,
         take_candidate(candidate), begins' = begins, spent' = spent \cup {candidate}
  PROVE  QueueInv'
PROOF
  <1>1. DOMAIN pending' = DOMAIN pending \ {candidate}
    BY TakeCapacity
  <1>2. OrderInv'
    BY TakeOrder DEF QueueInv
  <1> QED
    BY <1>1, <1>2 DEF QueueInv, RecentBeginsSurvive

LEMMA OtherQueue ==
  ASSUME QueueInv, UNCHANGED << pending, candidate_order, begins, spent >>
  PROVE  QueueInv'
PROOF
  BY DEF QueueInv, OrderInv, Increasing, ToSet, BeginsIncrease, RecentBeginsSurvive

(***************************************************************************)
(* The queue's invariant (engine.rs evict_if_full, take_candidate), with   *)
(* fresh entropy.                                                          *)
(***************************************************************************)
THEOREM Queue == FreshEntropy /\ EngineSpec => []QueueInv
PROOF
  <1> SUFFICES ASSUME FreshEntropy
               PROVE  EngineSpec => []QueueInv
    OBVIOUS
  <1>1. EngineInit => QueueInv
    BY EmptySeq DEF EngineInit, QueueInv, OrderInv, Increasing, ToSet, BeginsIncrease, RecentBeginsSurvive
  <1>2. CapacityInv /\ AgreementInv /\ QueueInv /\ [EngineNext]_engine => QueueInv'
    <2> SUFFICES ASSUME CapacityInv, AgreementInv, QueueInv, [EngineNext]_engine
                 PROVE  QueueInv'
      OBVIOUS
    <2>1. ASSUME NEW did \in DIDs, NEW key \in Keys \cup {BadText}, begin(did, key)
          PROVE  QueueInv'
      <3>1. CASE begin_ok(did, key)
        BY <3>1, BeginQueue DEF begin_ok, from_hex
      <3>2. CASE begin_malformed(key)
        BY <3>2, OtherQueue DEF begin_malformed, engine, registry, history
      <3> QED
        BY <2>1, <3>1, <3>2 DEF begin
    <2>2. ASSUME NEW candidate, NEW signature, NEW did \in DIDs,
                 attach(candidate, signature, did)
          PROVE  QueueInv'
      <3>1. CASE attach_ok(candidate, signature, did)
        <4>1. candidate \in DOMAIN pending
          BY <3>1 DEF attach_ok, attach_verdict
        <4> QED
          BY <3>1, <4>1, TakeQueue DEF attach_ok
      <3>2. CASE attach_refused(candidate, signature, did)
        <4>1. candidate \in DOMAIN pending
          BY <3>2 DEF attach_refused, attach_verdict, Refusals
        <4> QED
          BY <3>2, <4>1, TakeQueue DEF attach_refused
      <3>3. CASE attach_unknown(candidate, signature, did)
        BY <3>3, OtherQueue DEF attach_unknown, engine, registry, history
      <3> QED
        BY <2>2, <3>1, <3>2, <3>3 DEF attach
    <2>3. ASSUME NEW session_id, detach(session_id)
          PROVE  QueueInv'
      BY <2>3, OtherQueue DEF detach, history
    <2>4. ASSUME NEW did \in DIDs, NEW key \in Keys \cup {NoKey}, Republish(did, key)
          PROVE  QueueInv'
      BY <2>4, OtherQueue DEF Republish, registry, history
    <2>5. CASE UNCHANGED engine
      BY <2>5, OtherQueue DEF engine, registry, history
    <2> QED
      BY <2>1, <2>2, <2>3, <2>4, <2>5 DEF EngineNext
  <1> QED
    BY <1>1, <1>2, Capacity, Agreement, PTL DEF EngineSpec

(***************************************************************************)
(* take_candidate keeps "the order queue consistent" (engine.rs): with     *)
(* fresh entropy the queue is the map's candidates, each once, oldest      *)
(* first.                                                                  *)
(***************************************************************************)
THEOREM QueueTheorem == FreshEntropy /\ EngineSpec => []QueueConsistent
PROOF
  <1>1. EngineTypeOK /\ QueueInv => QueueConsistent
    <2> SUFFICES ASSUME EngineTypeOK, QueueInv
                 PROVE  QueueConsistent
      OBVIOUS
    <2>1. DOMAIN candidate_order = 1 .. Len(candidate_order)
      BY LenProperties DEF EngineTypeOK
    <2> QED
      BY <2>1 DEF QueueInv, OrderInv, Increasing, QueueConsistent
  <1>2. CapacityInv => EngineTypeOK
    BY DEF CapacityInv
  <1> QED
    BY <1>1, <1>2, Capacity, Queue, PTL

(***************************************************************************)
(* However many begins flood the registry, evict_if_full (engine.rs)       *)
(* forgets a handshake only after MAX_PENDING_CANDIDATES later ones, with  *)
(* fresh entropy.                                                          *)
(***************************************************************************)
THEOREM SurvivalTheorem == FreshEntropy /\ EngineSpec => []RecentBeginsSurvive
PROOF
  <1>1. QueueInv => RecentBeginsSurvive
    BY DEF QueueInv
  <1> QED
    BY <1>1, Queue, PTL
=============================================================================
