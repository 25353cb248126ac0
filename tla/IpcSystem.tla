------------------------------ MODULE IpcSystem -----------------------------
(***************************************************************************)
(* Both role-halves together: one app with its SessionClient and its       *)
(* SessionRegistry, the engine with its EngineSessionRegistry, the host    *)
(* that serves the client's requests from the registry, and other callers  *)
(* of the same engine.                                                     *)
(*                                                                         *)
(* The host is not in this crate; it does what the documentation of the    *)
(* handlers says of it: it serves the requests of a connection in order,   *)
(* answers each with what the handler returns (to_rpc_error of a refusal)  *)
(* and sends well-formed sign callbacks.  It may be slow: what it serves   *)
(* after the connection is gone, nobody reads.  It may detach the sessions *)
(* of a connection that is gone, or never do so: the registry has no notion*)
(* of a connection.  The engine may restart.                               *)
(*                                                                         *)
(* The requests and answers of SessionClient are numbers; here they get    *)
(* their fields: params of the requests, answers with the challenge, the   *)
(* session or the error.  Session handles are the numbers of their attach. *)
(***************************************************************************)
EXTENDS SessionClient, EngineSessionRegistry

VARIABLES
  key,      \* the signer's key, that of the active profile
  by_did,   \* SessionRegistry: the handle recorded for each DID
  removed,  \* ghost: the handles the app took out of it
  params,   \* app: the requests sent over the whole run, by number
  backlog,  \* host: the requests it has not served
  answers   \* what the engine answered to each

host == << params, backlog, answers >>
app == << key, by_did, removed >>
vars == << client, engine, app, host >>

ASSUME EntropyAssumption == FreshEntropy = TRUE

\* conn is the number of the first request of the connection; key is the one
\* advertised by a begin, or signed with by an attach; over is the begin an
\* attach follows, or the handle a detach is for.
Request ==
  [method: Methods, conn: 1 .. MaxRequests, did: DIDs, key: Keys,
   over: 0 .. MaxRequests]

Codes == {"AUTH_REQUIRED", "BAD_MAC"}
AnswerTo ==
  [kind: {"challenge"}, nonce: Token, candidate: Token]
    \cup [kind: {"session"}, session_id: Token]
    \cup [kind: {"detached"}]
    \cup [kind: {"error"}, code: Codes, published: Keys \cup {NoKey}, begun: Nat]

Init ==
  /\ ClientInit /\ EngineInit
  /\ key \in Keys /\ by_did = << >> /\ removed = {}
  /\ params = << >> /\ backlog = {} /\ answers = << >>
-----------------------------------------------------------------------------
(***************************************************************************)
(* The app: the operations of SessionClient, with the fields of what they  *)
(* send, and the SessionRegistry.                                          *)
(***************************************************************************)

\* What the client sent in this step, if anything, has these fields.
Sends(method, did, over) ==
  IF issued' = issued
    THEN UNCHANGED << params, backlog >>
    ELSE /\ params' = Append(params, [method |-> method, conn |-> requests'[1].no,
                                      did |-> did, key |-> key, over |-> over])
         /\ backlog' = backlog \cup {issued'}

\* SessionRegistry::insert and ::remove.  Mutant: an entry is never replaced.
or_insert(did, handle) ==
  [d \in DOMAIN by_did \cup {did} |-> IF d \in DOMAIN by_did THEN by_did[d] ELSE handle]
insert(did, handle) ==
  [d \in DOMAIN by_did \cup {did} |-> IF d = did THEN handle ELSE by_did[d]]

remove(did) == [d \in DOMAIN by_did \ {did} |-> by_did[d]]

Attach(profile) ==
  /\ begin_and_attach \/ reattach
  /\ Sends("begin", profile, 0)
  /\ UNCHANGED << engine, app, answers >>

\* The app may detach any session it was given, also twice.  When it removes
\* the entry is its own affair: before the detach, after it, or without one.
Detach(handle) ==
  /\ client_detach(handle)
  /\ Sends("detach", params[handle].did, handle)
  /\ UNCHANGED << engine, app, answers >>

Forget(profile) ==
  /\ profile \in DOMAIN by_did
  /\ by_did' = remove(profile)
  /\ removed' = removed \cup {by_did[profile]}
  /\ UNCHANGED << client, engine, key, host >>

HandleCallback ==
  /\ handle_next_sign_callback
  /\ UNCHANGED << engine, app, host >>

\* The client's own steps.  An attach it sends signs with the signer's key of
\* this moment (a debug build panics if it is no longer the advertised one);
\* a session begin_and_attach returns is recorded.
ClientRuns ==
  /\ ClientStep
  /\ IF op \in Methods
       THEN LET n == Awaited
                did == params[n].did
            IN  /\ Sends("attach", did, n)
                /\ by_did' = IF handles' = handles THEN by_did ELSE insert(did, n)
       ELSE UNCHANGED << params, backlog, by_did >>
  /\ UNCHANGED << engine, key, removed, answers >>

\* A read that fails on an open connection ends the call.
ReadFails ==
  /\ recv_fails
  /\ UNCHANGED << engine, app, host >>

SwitchKey(k) ==
  /\ key' = k
  /\ UNCHANGED << client, engine, by_did, removed, host >>

Lock ==
  /\ UserLocks
  /\ UNCHANGED << engine, app, host >>
-----------------------------------------------------------------------------
(***************************************************************************)
(* The engine and its host.                                                *)
(***************************************************************************)

\* The request was sent on the connection that is up now.
Current(n) == up /\ \E i \in DOMAIN requests : requests[i].no = n

\* Mutant: the answer goes out under the id of the newest request.
reply_to_newest(n, body) ==
  IF Current(n)
    THEN /\ unanswered' = unanswered \ {n}
         /\ Deliver(Answer(n, requests[Len(requests)].id, body))
    ELSE UNCHANGED client
Reply(n, body) ==
  IF Current(n)
    THEN LET i == CHOOSE j \in DOMAIN requests : requests[j].no = n
         IN  /\ unanswered' = unanswered \ {n}
             /\ Deliver(Answer(n, requests[i].id, body))
    ELSE UNCHANGED client

Answered(n, answer) ==
  /\ answers' = [m \in DOMAIN answers \cup {n} |-> IF m = n THEN answer ELSE answers[m]]
  /\ Reply(n, IF answer.kind = "error" THEN "error" ELSE "ok")

\* AttachError::error_code.  Mutant: a signature that does not verify is a
\* missing authorisation.
error_code_lumped(refusal) ==
  IF refusal \in {"UnknownCandidate", "UnknownDid", "Malformed", "BadSignature"}
    THEN "AUTH_REQUIRED" ELSE "BAD_MAC"
error_code(refusal) ==
  IF refusal \in {"UnknownCandidate", "UnknownDid", "Malformed"} THEN "AUTH_REQUIRED"
  ELSE "BAD_MAC"

serve_begin(n) ==
  /\ begin_ok(params[n].did, params[n].key)
  /\ LET issue == begins'[Len(begins')]
     IN  Answered(n, [kind |-> "challenge", nonce |-> issue.handshake.nonce,
                      candidate |-> issue.candidate])

serve_attach(n) ==
  LET challenge == answers[params[n].over]
      did == params[n].did
      signature == [key |-> params[n].key,
                    over |-> challenge_message(challenge.nonce, did)]
      verdict == attach_verdict(challenge.candidate, signature, did)
  IN  /\ attach(challenge.candidate, signature, did)
      /\ Answered(n,
           IF verdict = "Ok"
             THEN [kind |-> "session",
                   session_id |-> CHOOSE s \in DOMAIN sessions' : s \notin DOMAIN sessions]
             ELSE [kind |-> "error", code |-> error_code(verdict),
                   published |-> published[did], begun |-> Len(begins)])

serve_detach(n) ==
  /\ detach(answers[params[n].over].session_id)
  /\ Answered(n, [kind |-> "detached"])

\* Mutant: a request that was served stays to be served again.
keep_queued(n) == UNCHANGED backlog
take_request(n) == backlog' = backlog \ {n}

Serve(n) ==
  /\ n \in backlog
  /\ \A m \in backlog : params[m].conn = params[n].conn => n <= m
  /\ take_request(n)
  /\ \/ params[n].method = "begin" /\ serve_begin(n)
     \/ params[n].method = "attach" /\ serve_attach(n)
     \/ params[n].method = "detach" /\ serve_detach(n)
  /\ UNCHANGED << app, params >>

SendCallback(id) ==
  /\ Deliver(Callback(id, "good"))
  /\ UNCHANGED << unanswered, engine, app, host >>

\* The connection drops: the client's end is closed, the host need not know.
Drop ==
  /\ PeerCloses
  /\ UNCHANGED << engine, app, host >>

CleanUp(n) ==
  /\ n \in DOMAIN answers /\ answers[n].kind = "session" /\ ~ Current(n)
  /\ detach(answers[n].session_id)
  /\ UNCHANGED << client, app, host >>

\* EngineSessionRegistry::new in a new process: what it held and what it had
\* yet to serve is gone, and so are its connections.
Restart ==
  /\ pending' = << >> /\ candidate_order' = << >> /\ sessions' = << >>
  /\ UNCHANGED << drawn, published, begins, spent, opened >>
  /\ backlog' = {}
  /\ IF up THEN PeerCloses ELSE UNCHANGED client
  /\ UNCHANGED << app, params, answers >>

\* Begins of other callers.  They leave enough draws for the client's requests:
\* that is how the bound MaxDraws is kept from blocking the host.
OtherBegins(did, k) ==
  /\ drawn + 2 + 2 * (MaxRequests - Cardinality(DOMAIN answers)) <= MaxDraws
  /\ begin_ok(did, k)
  /\ UNCHANGED << client, app, host >>

RepublishKey(did, k) ==
  /\ Republish(did, k)
  /\ UNCHANGED << client, app, host >>
-----------------------------------------------------------------------------
Next ==
  \/ \E profile \in DIDs : Attach(profile) \/ Forget(profile)
  \/ \E handle \in handles : Detach(handle)
  \/ HandleCallback \/ ClientRuns \/ ReadFails \/ Lock
  \/ \E k \in Keys : SwitchKey(k)
  \/ \E n \in backlog : Serve(n)
  \/ \E id \in CallbackIds : SendCallback(id)
  \/ Drop \/ Restart
  \/ \E n \in DOMAIN answers : CleanUp(n)
  \/ \E did \in DIDs, k \in Keys : OtherBegins(did, k)
  \/ \E did \in DIDs, k \in Keys \cup {NoKey} : RepublishKey(did, k)

Spec == Init /\ [][Next]_vars

(***************************************************************************)
(* The host goes on serving (its loop has nothing else to do), and the     *)
(* client's blocking calls return as in SessionClient.                     *)
(***************************************************************************)
FairSpec == Spec /\ WF_vars(ClientRuns) /\ WF_vars(\E n \in backlog : Serve(n))
-----------------------------------------------------------------------------
TypeOK ==
  /\ key \in Keys
  /\ DOMAIN by_did \subseteq DIDs
  /\ \A did \in DOMAIN by_did : by_did[did] \in handles
  /\ removed \subseteq handles
  /\ params \in Seq(Request) /\ Len(params) = issued
  /\ backlog \subseteq DOMAIN params \ DOMAIN answers
  /\ DOMAIN answers \subseteq DOMAIN params
  /\ \A n \in DOMAIN answers : answers[n] \in AnswerTo

(***************************************************************************)
(* The halves agree (begin_and_attach, attach): behind every handle there  *)
(* is a session the engine opened in answer to that very attach, under the *)
(* DID the app named, for the key its begin advertised and its attach      *)
(* signed with, which that DID had published; no two handles share one.    *)
(***************************************************************************)
HalvesAgree ==
  /\ \A n \in handles :
       /\ answers[n].kind = "session"
       /\ \E s \in opened :
            /\ s.session_id = answers[n].session_id
            /\ s.did = params[n].did /\ s.did = params[params[n].over].did
            /\ s.published = params[n].key
            /\ s.published = params[params[n].over].key
  /\ \A n, m \in handles : answers[n] = answers[m] => n = m

(***************************************************************************)
(* An honest handshake is refused only for a cause the app can act on      *)
(* (error_code; SPEC section 5): AUTH_REQUIRED if its DID had no published *)
(* key or MAX_PENDING_CANDIDATES begins came after its own; BAD_MAC if the *)
(* signer's key or the published key is no longer the advertised one.      *)
(* Dropped connections, restarts, abandoned calls and the other requests   *)
(* of the same client are never a cause.                                   *)
(***************************************************************************)
BegunAfter(n) ==
  answers[n].begun
    - (CHOOSE i \in DOMAIN begins : begins[i].candidate = answers[params[n].over].candidate)

RefusalHasCause ==
  \A n \in DOMAIN answers : answers[n].kind = "error" =>
    LET advertised == params[params[n].over].key
    IN  \/ /\ answers[n].code = "AUTH_REQUIRED"
           /\ answers[n].published = NoKey \/ BegunAfter(n) >= MAX_PENDING_CANDIDATES
        \/ /\ answers[n].code = "BAD_MAC"
           /\ params[n].key # advertised \/ answers[n].published # advertised

(***************************************************************************)
(* A session the registry lists, on the connection that is up, is open in  *)
(* the engine until the app sends its detach (SessionRegistry, "the app's  *)
(* map of live sessions"): nobody else's detach or clean-up ends it.  Of   *)
(* an older connection or engine process the map may list sessions that    *)
(* are gone: nothing tells it.                                             *)
(***************************************************************************)
IsOpen(n) ==
  /\ n \in DOMAIN answers /\ answers[n].kind = "session"
  /\ answers[n].session_id \in DOMAIN sessions

DetachSent(n) ==
  \E d \in DOMAIN params : params[d].method = "detach" /\ params[d].over = n

ListedIsLive ==
  \A did \in DOMAIN by_did :
    Current(by_did[did]) /\ ~ DetachSent(by_did[did]) => IsOpen(by_did[did])

(***************************************************************************)
(* A session that is open in the engine had no detach served, and if it is *)
(* not listed by the app, nor on its way to it, it was lost in one of four *)
(* ways: its connection went down, its attach was given up before the      *)
(* answer came, a later session for the same DID replaced it (insert), or  *)
(* the app removed it, and its detach has not been sent or not been served.*)
(***************************************************************************)
Listed(n) == params[n].did \in DOMAIN by_did /\ by_did[params[n].did] = n
OnItsWay(n) ==
  \E i \in DOMAIN inbox : inbox[i].kind = "answer" /\ inbox[i].to = n

Lost(n) ==
  \/ ~ Current(n)
  \/ n \in abandoned
  \/ \E m \in handles : m > n /\ params[m].did = params[n].did
  \/ n \in removed

Ended(n) == \E d \in DOMAIN answers : params[d].method = "detach" /\ params[d].over = n

OrphanHasCause ==
  \A n \in DOMAIN answers : IsOpen(n) =>
    /\ ~ Ended(n)
    /\ Listed(n) \/ OnItsWay(n) \/ Lost(n)

(***************************************************************************)
(* The engine with its host is one of the peers SessionClient is checked   *)
(* against, so what holds of the client there holds here.                  *)
(***************************************************************************)
AllowedPeer == ClientSpec

(***************************************************************************)
(* A call returns although the code has no timeout: the host serves every  *)
(* request of a live connection, and its callbacks cannot hold the call.   *)
(***************************************************************************)
AppCallsReturn == op \in Methods ~> op = "none"

(***************************************************************************)
(* The claim of SessionClient::detach's documentation (client.rs 200-203): *)
(* the engine drops a session when its connection closes.                  *)
(***************************************************************************)
ClosedSessionsEnd ==
  \A n \in 1 .. MaxRequests : IsOpen(n) /\ ~ Current(n) ~> ~ IsOpen(n)
=============================================================================
