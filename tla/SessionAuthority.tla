-------------------------- MODULE SessionAuthority --------------------------
(***************************************************************************)
(* What the engine half promises, without its queue, its chain of checks   *)
(* or its history of begins: a challenge is issued with values never used  *)
(* before, others may be forgotten to make room, an attach uses up its     *)
(* challenge, a session is granted only against the signature of the DID's *)
(* published key over an outstanding challenge for that DID, and it ends   *)
(* when it is detached.                                                    *)
(***************************************************************************)
EXTENDS Integers, FiniteSets

CONSTANTS
  DIDs, Keys,
  NoKey,     \* what an unknown DID has published
  Token,     \* nonces, candidate tokens and session ids
  Capacity   \* how many challenges may be outstanding

VARIABLES
  outstanding,  \* the challenges, by candidate
  used,         \* the tokens ever drawn
  sessions,     \* the DID of each open session
  granted,      \* every session ever granted, with its proof
  published     \* the key of each DID

vars == << outstanding, used, sessions, granted, published >>

Without(map, k) == [x \in DOMAIN map \ {k} |-> map[x]]

\* The signature that proves possession of the key, for a challenge.
proof(key, challenge) ==
  [key |-> key,
   over |-> << "DIGNET-SESSION-v1", challenge.nonce, challenge.profile_did >>]

Init ==
  /\ outstanding = << >> /\ used = {} /\ sessions = << >> /\ granted = {}
  /\ published \in [DIDs -> Keys \cup {NoKey}]

Issue ==
  \E did \in DIDs, key \in Keys, nonce, candidate \in Token \ used,
     kept \in SUBSET DOMAIN outstanding :
    /\ nonce # candidate
    /\ used' = used \cup {nonce, candidate}
    /\ outstanding' =
         [c \in kept \cup {candidate} |->
            IF c = candidate
              THEN [nonce |-> nonce, advertised_key |-> key, profile_did |-> did]
              ELSE outstanding[c]]
    /\ Cardinality(kept \cup {candidate}) <= Capacity
    /\ UNCHANGED << sessions, granted, published >>

Refuse ==
  \E candidate \in DOMAIN outstanding :
    /\ outstanding' = Without(outstanding, candidate)
    /\ UNCHANGED << used, sessions, granted, published >>

Grant ==
  \E candidate \in DOMAIN outstanding, session_id \in Token \ used :
    LET challenge == outstanding[candidate]
        did == challenge.profile_did
        key == challenge.advertised_key
    IN  /\ published[did] = key
        /\ outstanding' = Without(outstanding, candidate)
        /\ used' = used \cup {session_id}
        /\ sessions' =
             [s \in DOMAIN sessions \cup {session_id} |->
                IF s = session_id THEN did ELSE sessions[s]]
        /\ granted' = granted \cup
             {[session_id |-> session_id, candidate |-> candidate, did |-> did,
               published |-> key, signature |-> proof(key, challenge)]}
        /\ UNCHANGED published

\* To end a session that is not open changes nothing.
End ==
  \E session_id \in Token :
    /\ sessions' = Without(sessions, session_id)
    /\ UNCHANGED << outstanding, used, granted, published >>

Republish ==
  /\ \E did \in DIDs, key \in Keys \cup {NoKey} :
       published' = [published EXCEPT ![did] = key]
  /\ UNCHANGED << outstanding, used, sessions, granted >>

Next == Issue \/ Refuse \/ Grant \/ End \/ Republish

Spec == Init /\ [][Next]_vars
=============================================================================
