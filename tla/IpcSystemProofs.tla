--------------------------- MODULE IpcSystemProofs --------------------------
(***************************************************************************)
(* The engine behind its host is one of the peers SessionClient is         *)
(* specified against: every step of IpcSystem is a step of SessionClient,  *)
(* or leaves it alone.  What is proved of the client against any peer      *)
(* holds of the two halves together.                                       *)
(*                                                                         *)
(* The second part proves what the two halves establish together, from one *)
(* invariant, SystemInv: its parts are introduced where they are needed,   *)
(* each with the lemma that a step keeps it.                               *)
(***************************************************************************)
EXTENDS IpcSystem, SessionClientProofs, EngineProofs

\* A sequence and one more element, of whatever kind.
LEMMA AppendAny ==
  ASSUME NEW S, NEW s \in Seq(S), NEW e
  PROVE  /\ Append(s, e) \in Seq(S \cup {e}) /\ Append(s, e) # << >>
         /\ Len(Append(s, e)) = Len(s) + 1 /\ Append(s, e)[Len(s) + 1] = e
         /\ \A i \in DOMAIN Append(s, e) :
              \/ i \in DOMAIN s /\ Append(s, e)[i] = s[i]
              \/ Append(s, e)[i] = e
PROOF
  <1>1. Len(s) \in Nat /\ s \in [1 .. Len(s) -> S]
    BY LenProperties
  <1>2. s \in [1 .. Len(s) -> S \cup {e}]
    BY <1>1
  <1>3. s \in Seq(S \cup {e})
    BY <1>1, <1>2, SeqDef
  <1>4. /\ Append(s, e) \in Seq(S \cup {e}) /\ Len(Append(s, e)) = Len(s) + 1
        /\ Append(s, e)[Len(s) + 1] = e
        /\ \A i \in 1 .. Len(s) : Append(s, e)[i] = s[i]
    BY <1>3, AppendProperties
  <1>5. DOMAIN Append(s, e) = 1 .. Len(s) + 1 /\ DOMAIN s = 1 .. Len(s)
    BY <1>1, <1>4, LenProperties
  <1>6. Append(s, e) # << >>
    BY <1>1, <1>4
  <1> QED
    BY <1>1, <1>4, <1>5, <1>6

(***************************************************************************)
(* The host answers a request once: what it has yet to serve of the        *)
(* connection that is up, the peer has not answered.                       *)
(***************************************************************************)
BacklogUnanswered ==
  \A i \in DOMAIN requests : requests[i].no \in backlog => requests[i].no \in unanswered

HostInv == BacklogUnanswered /\ \E S : requests \in Seq(S)

\* What a step of the client may do to its requests: nothing, send one more, or
\* start over on a new connection.
Nothing == UNCHANGED << requests, unanswered, issued >>
OneMore ==
  /\ issued' = issued + 1 /\ unanswered' = unanswered \cup {issued + 1}
  /\ \E e : e.no = issued + 1 /\ requests' = Append(requests, e)
StartsOver ==
  /\ issued' = issued + 1 /\ unanswered' = {issued + 1}
  /\ \E e : e.no = issued + 1 /\ requests' = << e >>
Breaks == issued' = issued /\ requests' = << >>

LEMMA HostInvKept ==
  ASSUME HostInv, Nothing \/ OneMore \/ StartsOver \/ Breaks,
         backlog' = backlog \/ (issued' # issued /\ backlog' = backlog \cup {issued'})
  PROVE  HostInv'
PROOF
  <1>0. PICK S : requests \in Seq(S)
    BY DEF HostInv
  <1>1. CASE Nothing
    BY <1>0, <1>1 DEF HostInv, BacklogUnanswered, Nothing
  <1>2. CASE OneMore
    <2>1. PICK e : e.no = issued + 1 /\ requests' = Append(requests, e)
      BY <1>2 DEF OneMore
    <2>2. /\ requests' \in Seq(S \cup {e})
          /\ \A i \in DOMAIN requests' :
               (i \in DOMAIN requests /\ requests'[i] = requests[i]) \/ requests'[i] = e
      BY <1>0, <2>1, AppendAny
    <2>3. /\ unanswered' = unanswered \cup {issued + 1}
          /\ backlog' \subseteq backlog \cup {issued + 1}
      BY <1>2 DEF OneMore
    <2>4. BacklogUnanswered'
      BY <2>1, <2>2, <2>3 DEF HostInv, BacklogUnanswered
    <2>5. \E T : requests' \in Seq(T)
      BY <2>2
    <2> QED
      BY <2>4, <2>5 DEF HostInv
  <1>3. CASE StartsOver
    <2>1. PICK e : e.no = issued + 1 /\ requests' = << e >>
      BY <1>3 DEF StartsOver
    <2>2. requests' \in Seq({e}) /\ \A i \in DOMAIN requests' : requests'[i] = e
      BY <2>1
    <2>3. issued + 1 \in unanswered'
      BY <1>3 DEF StartsOver
    <2> QED
      BY <2>1, <2>2, <2>3 DEF HostInv, BacklogUnanswered
  <1>4. CASE Breaks
    <2>1. requests' \in Seq({}) /\ DOMAIN requests' = {}
      BY <1>4 DEF Breaks
    <2> QED
      BY <2>1 DEF HostInv, BacklogUnanswered
  <1> QED
    BY <1>1, <1>2, <1>3, <1>4

LEMMA CallSends ==
  ASSUME NEW method, NEW id, NEW over, NEW signature,
         call(method, id, over, signature)
  PROVE  Nothing \/ OneMore
PROOF
  <1>1. CASE request_sent(method, id, over, signature)
    BY <1>1 DEF request_sent, OneMore
  <1>2. CASE request_failed(method)
    BY <1>2 DEF request_failed, Nothing
  <1> QED
    BY <1>1, <1>2 DEF call

LEMMA AppCallSends ==
  ASSUME AppCalls
  PROVE  Nothing \/ OneMore \/ StartsOver \/ Breaks
PROOF
  <1>1. CASE begin_and_attach
    BY <1>1, CallSends DEF begin_and_attach
  <1>2. ASSUME NEW handle \in handles, client_detach(handle)
        PROVE  Nothing \/ OneMore
    BY <1>2, CallSends DEF client_detach
  <1>3. CASE reattach_connected
    BY <1>3 DEF reattach_connected, StartsOver
  <1>4. CASE reattach_broken
    BY <1>4 DEF reattach_broken, Breaks
  <1>5. CASE handle_next_sign_callback
    BY <1>5 DEF handle_next_sign_callback, connection, Nothing
  <1> QED
    BY <1>1, <1>2, <1>3, <1>4, <1>5 DEF AppCalls, reattach

\* Only an answered begin sends in a step of the client.
LEMMA ClientStepSends ==
  ASSUME ClientStep
  PROVE  Nothing \/ (OneMore /\ op \in Methods)
PROOF
  <1>1. CASE recv_eof
    BY <1>1 DEF recv_eof, recv_fails, Nothing
  <1>2. ASSUME NEW decision \in Decisions, authorize(decision)
        PROVE  Nothing
    BY <1>2 DEF authorize, Nothing
  <1>3. CASE recv_frame
    <2> DEFINE frame == Head(inbox)
    <2>1. \/ recv_unparsable(frame)
          \/ read_answer(frame)
          \/ UNCHANGED << requests, unanswered, issued >>
      BY <1>3 DEF recv_frame
    <2> HIDE DEF frame
    <2>2. CASE recv_unparsable(frame)
      BY <2>2 DEF recv_unparsable, Nothing
    <2>3. CASE read_answer(frame)
      <3>1. CASE op = "begin" /\ begin_answered(frame)
        <4>1. Nothing \/ OneMore
          BY <3>1, CallSends DEF begin_answered, Nothing
        <4> QED
          BY <3>1, <4>1 DEF Methods
      <3>2. CASE ~ (op = "begin" /\ begin_answered(frame))
        BY <2>3, <3>2
          DEF read_answer, attach_answered, detach_answered, Nothing
      <3> QED
        BY <3>1, <3>2
    <2> QED
      BY <2>1, <2>2, <2>3 DEF Nothing
  <1> QED
    BY <1>1, <1>2, <1>3 DEF ClientStep

\* The host's answer is the peer's answer.
LEMMA ReplyIsAnswer ==
  ASSUME HostInv, NEW n \in backlog, NEW body \in {"ok", "error"}, Reply(n, body),
         backlog' = backlog \ {n}
  PROVE  [ClientNext]_client /\ HostInv'
PROOF
  <1>1. CASE Current(n)
    <2> DEFINE i == CHOOSE j \in DOMAIN requests : requests[j].no = n
    <2>1. i \in DOMAIN requests /\ requests[i].no = n
      BY <1>1 DEF Current
    <2>2. /\ unanswered' = unanswered \ {n}
          /\ Deliver(Answer(n, requests[i].id, body))
      BY <1>1 DEF Reply
    <2> HIDE DEF i
    <2>3. n \in unanswered
      BY <2>1 DEF HostInv, BacklogUnanswered
    <2>4. body \in Bodies(requests[i].method)
      BY DEF Bodies
    <2>5. PeerAnswers
      BY <2>1, <2>2, <2>3, <2>4 DEF PeerAnswers
    <2>6. requests' = requests
      BY <2>2 DEF Deliver
    <2>7. HostInv'
      BY <2>2, <2>6 DEF HostInv, BacklogUnanswered
    <2> QED
      BY <2>5, <2>7 DEF ClientNext, PeerStep
  <1>2. CASE ~ Current(n)
    <2>1. UNCHANGED client
      BY <1>2 DEF Reply
    <2>2. HostInv'
      BY <2>1 DEF client, control, connection, HostInv, BacklogUnanswered
    <2> QED
      BY <2>1, <2>2
  <1> QED
    BY <1>1, <1>2

\* A step of the engine, of its other callers, or of the user's keys.
LEMMA ClientIdle ==
  ASSUME HostInv, UNCHANGED client, backlog' \subseteq backlog
  PROVE  [ClientNext]_client /\ HostInv'
PROOF
  <1>1. HostInv'
    BY DEF client, control, connection, HostInv, BacklogUnanswered
  <1> QED
    BY <1>1

LEMMA PeerStepIsKept ==
  ASSUME HostInv, PeerStep, unanswered' = unanswered, backlog' \subseteq backlog
  PROVE  [ClientNext]_client /\ HostInv'
PROOF
  <1>1. requests' = requests
    BY DEF PeerStep, PeerAnswers, PeerCallsBack, PeerSendsJunk,
           PeerCloses, Deliver
  <1>2. HostInv'
    BY <1>1 DEF HostInv, BacklogUnanswered
  <1> QED
    BY <1>2 DEF ClientNext

LEMMA SystemStep ==
  ASSUME HostInv, [Next]_vars
  PROVE  [ClientNext]_client /\ HostInv'
PROOF
  <1>1. ASSUME AppCalls,
               backlog' = backlog \/ (issued' # issued /\ backlog' = backlog \cup {issued'})
        PROVE  [ClientNext]_client /\ HostInv'
    <2>1. HostInv'
      BY <1>1, AppCallSends, HostInvKept
    <2> QED
      BY <1>1, <2>1 DEF ClientNext
  <1>2. ASSUME NEW profile \in DIDs, Attach(profile)
        PROVE  [ClientNext]_client /\ HostInv'
    BY <1>1, <1>2 DEF Attach, Sends, AppCalls
  <1>3. ASSUME NEW handle \in handles, Detach(handle)
        PROVE  [ClientNext]_client /\ HostInv'
    BY <1>1, <1>3 DEF Detach, Sends, AppCalls
  <1>4. CASE HandleCallback
    BY <1>1, <1>4 DEF HandleCallback, host, AppCalls
  <1>5. CASE ClientRuns
    <2>1. /\ ClientStep
          /\ op \notin Methods => backlog' = backlog
          /\ backlog' = backlog \/ (issued' # issued /\ backlog' = backlog \cup {issued'})
      BY <1>5 DEF ClientRuns, Sends
    <2>2. HostInv'
      BY <2>1, ClientStepSends, HostInvKept
    <2> QED
      BY <2>1, <2>2 DEF ClientNext
  <1>6. CASE Lock \/ ReadFails
    <2>1. (UserLocks \/ recv_fails) /\ UNCHANGED << requests, unanswered, backlog >>
      BY <1>6 DEF Lock, ReadFails, host, UserLocks, connection, recv_fails
    <2> QED
      BY <2>1 DEF HostInv, BacklogUnanswered, ClientNext
  <1>7. ASSUME NEW n \in backlog, Serve(n)
        PROVE  [ClientNext]_client /\ HostInv'
    <2>1. backlog' = backlog \ {n}
      BY <1>7 DEF Serve, take_request
    <2>2. \E answer : Answered(n, answer)
      BY <1>7 DEF Serve, serve_begin, serve_attach, serve_detach
    <2>3. PICK answer : Answered(n, answer)
      BY <2>2
    <2>4. \E body \in {"ok", "error"} : Reply(n, body)
      BY <2>3 DEF Answered
    <2> QED
      BY <2>1, <2>4, ReplyIsAnswer
  <1>8. ASSUME NEW id \in CallbackIds, SendCallback(id)
        PROVE  [ClientNext]_client /\ HostInv'
    <2>1. PeerCallsBack /\ backlog' = backlog /\ unanswered' = unanswered
      BY <1>8 DEF SendCallback, host, PeerCallsBack, Params
    <2> QED
      BY <2>1, PeerStepIsKept DEF PeerStep
  <1>9. CASE Drop
    <2>1. PeerCloses /\ backlog' = backlog /\ unanswered' = unanswered
      BY <1>9 DEF Drop, host, PeerCloses
    <2> QED
      BY <2>1, PeerStepIsKept DEF PeerStep
  <1>10. CASE Restart
    <2>1. backlog' = {}
      BY <1>10 DEF Restart
    <2>2. CASE up
      <3>1. PeerCloses /\ unanswered' = unanswered
        BY <1>10, <2>2 DEF Restart, PeerCloses
      <3> QED
        BY <2>1, <3>1, PeerStepIsKept DEF PeerStep
    <2>3. CASE ~ up
      BY <1>10, <2>1, <2>3, ClientIdle DEF Restart
    <2> QED
      BY <2>2, <2>3
  <1>11. CASE \/ \E profile \in DIDs : Forget(profile)
              \/ \E k \in Keys : SwitchKey(k)
              \/ \E n \in DOMAIN answers : CleanUp(n)
              \/ \E did \in DIDs, k \in Keys : OtherBegins(did, k)
              \/ \E did \in DIDs, k \in Keys \cup {NoKey} : RepublishKey(did, k)
              \/ UNCHANGED vars
    <2>1. UNCHANGED client /\ backlog' \subseteq backlog
      BY <1>11 DEF Forget, SwitchKey, CleanUp, OtherBegins, RepublishKey, vars, host
    <2> QED
      BY <2>1, ClientIdle
  <1> QED
    BY <1>2, <1>3, <1>4, <1>5, <1>6, <1>7, <1>8, <1>9, <1>10, <1>11 DEF Next

(***************************************************************************)
(* IpcSystem implements SessionClient (client.rs, engine.rs and the host   *)
(* between them): with requests served in order and each answered once,    *)
(* under any loss of connections, restarts and other callers, the client   *)
(* meets no peer but those its own specification allows.                   *)
(***************************************************************************)
THEOREM EngineIsAllowedPeer == Spec => AllowedPeer
PROOF
  <1>1. Init => ClientInit /\ HostInv
    <2>1. Init => backlog = {} /\ requests = << >> /\ ClientInit
      BY DEF Init, ClientInit
    <2>2. requests = << >> => requests \in Seq({}) /\ DOMAIN requests = {}
      OBVIOUS
    <2> QED
      BY <2>1, <2>2 DEF HostInv, BacklogUnanswered
  <1>2. HostInv /\ [Next]_vars => [ClientNext]_client /\ HostInv'
    BY SystemStep
  <1> QED
    BY <1>1, <1>2, PTL DEF Spec, AllowedPeer, ClientSpec
-----------------------------------------------------------------------------
(***************************************************************************)
(* The two halves together.  What the app, the client and the host hold    *)
(* fits together: the requests of the connection are the last ones sent,   *)
(* an attach follows its own begin, a detach is for a handle, answers are  *)
(* of the kind asked for, and the handles are sessions.                    *)
(***************************************************************************)
RequestsMatch ==
  /\ \A i \in DOMAIN requests :
       /\ requests[i].no \in DOMAIN params
       /\ params[requests[i].no].method = requests[i].method
  /\ requests # << >> => requests[Len(requests)].no = issued

AttachFollowsBegin ==
  \A n \in DOMAIN params : params[n].method = "attach" =>
    /\ n - 1 \in DOMAIN answers
    /\ params[n].over = n - 1 /\ params[n - 1].method = "begin"
    /\ params[n].did = params[n - 1].did

DetachesHandle ==
  \A n \in DOMAIN params : params[n].method = "detach" => params[n].over \in handles

Fits(method, answer) ==
  /\ method = "begin" => answer.kind = "challenge"
  /\ method = "attach" => answer.kind \in {"session", "error"}
  /\ method = "detach" => answer.kind = "detached"

AnswersFit == \A n \in DOMAIN answers : Fits(params[n].method, answers[n])

IsChallenge(n) == n \in DOMAIN answers /\ answers[n].kind = "challenge"
IsSession(n) == n \in DOMAIN answers /\ answers[n].kind = "session"

HandlesAreSessions == \A n \in handles : IsSession(n)

BodyOf(answer) == IF answer.kind = "error" THEN "error" ELSE "ok"

InboxFits ==
  \A i \in DOMAIN inbox : inbox[i].kind = "answer" =>
    /\ inbox[i].to \in DOMAIN answers \ handles
    /\ inbox[i].body = BodyOf(answers[inbox[i].to])

TablesInv ==
  /\ TypeOK /\ RequestsMatch /\ AttachFollowsBegin /\ DetachesHandle /\ AnswersFit
  /\ HandlesAreSessions /\ InboxFits

LEMMA ParamFields ==
  ASSUME TypeOK
  PROVE  /\ issued \in Nat /\ DOMAIN params = 1 .. issued
         /\ \A n \in DOMAIN params : params[n] \in Request
PROOF
  <1>1. params \in Seq(Request) /\ Len(params) = issued
    BY DEF TypeOK
  <1>2. issued \in Nat /\ DOMAIN params = 1 .. issued
    BY <1>1, LenProperties
  <1> QED
    BY <1>1, <1>2, ElementOfSeq

LEMMA ParamsAppend ==
  ASSUME TypeOK, NEW rec \in Request, params' = Append(params, rec)
  PROVE  /\ params' \in Seq(Request) /\ Len(params') = issued + 1
         /\ DOMAIN params' = 1 .. issued + 1
         /\ \A n \in DOMAIN params : params'[n] = params[n]
         /\ params'[issued + 1] = rec
PROOF
  <1>1. params \in Seq(Request) /\ Len(params) = issued
    BY DEF TypeOK
  <1>2. issued \in Nat /\ DOMAIN params = 1 .. issued
    BY ParamFields
  <1>3. /\ Append(params, rec) \in Seq(Request)
        /\ Len(Append(params, rec)) = issued + 1
        /\ \A i \in 1 .. issued : Append(params, rec)[i] = params[i]
        /\ Append(params, rec)[issued + 1] = rec
    BY <1>1, AppendProperties
  <1>4. DOMAIN Append(params, rec) = 1 .. issued + 1
    BY <1>3, LenProperties
  <1> QED
    BY <1>2, <1>3, <1>4

(***************************************************************************)
(* What a step does to these tables.                                       *)
(***************************************************************************)
FramesKept == \A i \in DOMAIN inbox' : \E j \in DOMAIN inbox : inbox'[i] = inbox[j]

Sent(rec) ==
  /\ rec \in Request
  /\ issued' = issued + 1 /\ params' = Append(params, rec)
  /\ backlog' = backlog \cup {issued + 1}
  /\ \E e : /\ e.no = issued + 1 /\ e.method = rec.method
            /\ requests' = Append(requests, e) \/ requests' = << e >>
  /\ UNCHANGED << engine, answers, handles, by_did, removed >>
  /\ FramesKept

SentBegin(rec) == Sent(rec) /\ rec.method = "begin"

SentAttach(rec) ==
  /\ Sent(rec) /\ rec.method = "attach"
  /\ issued \in DOMAIN answers /\ params[issued].method = "begin" /\ Current(issued)
  /\ rec.over = issued /\ rec.did = params[issued].did

SentDetach(rec) == Sent(rec) /\ rec.method = "detach" /\ rec.over \in handles

Opens ==
  /\ UNCHANGED << engine, answers, params, backlog, issued, requests, removed >>
  /\ IsSession(issued) /\ issued \notin handles
  /\ handles' = handles \cup {issued} /\ by_did' = insert(params[issued].did, issued)
  /\ \A i \in DOMAIN inbox' :
       \E j \in DOMAIN inbox :
         inbox'[i] = inbox[j] /\ ~ (inbox[j].kind = "answer" /\ inbox[j].to = issued)

Served(n, answer) ==
  /\ n \in backlog /\ backlog' = backlog \ {n}
  /\ answer \in AnswerTo /\ Fits(params[n].method, answer)
  /\ Answered(n, answer)
  /\ UNCHANGED << app, params >>

Forgotten ==
  \E profile \in DOMAIN by_did :
    by_did' = remove(profile) /\ removed' = removed \cup {by_did[profile]}

Quiet ==
  /\ UNCHANGED << answers, params, issued, handles >>
  /\ backlog' \subseteq backlog /\ (up' => backlog' = backlog)
  /\ requests' = requests \/ requests' = << >>
  /\ UNCHANGED << by_did, removed >> \/ Forgotten
  /\ \A i \in DOMAIN inbox' :
       inbox'[i].kind = "sign" \/ \E j \in DOMAIN inbox : inbox'[i] = inbox[j]

TablesStep ==
  \/ \E rec : SentBegin(rec) \/ SentAttach(rec) \/ SentDetach(rec)
  \/ Opens
  \/ \E n, answer : Served(n, answer)
  \/ Quiet

\* What is read leaves the inbox, and nothing else does.
LEMMA TailKeeps ==
  ASSUME TypeInv, inbox # << >>, inbox' = Tail(inbox)
  PROVE  /\ FramesKept
         /\ \A i \in DOMAIN inbox' :
              i \in Nat \ {0} /\ i + 1 \in DOMAIN inbox /\ inbox'[i] = inbox[i + 1]
         /\ 1 \in DOMAIN inbox /\ Head(inbox) = inbox[1]
PROOF
  <1>1. Shifted(1)
    BY TailShifts
  <1>2. \A i \in DOMAIN inbox' : i + 1 \in DOMAIN inbox /\ inbox'[i] = inbox[i + 1]
    BY <1>1 DEF Shifted
  <1> QED
    BY <1>1, <1>2 DEF Shifted, FramesKept

\* The request that is awaited is the last one sent.
LEMMA AwaitedIsLast ==
  ASSUME TypeInv, Correlated, TablesInv, op \in Methods
  PROVE  /\ Awaited = issued /\ issued \in DOMAIN params /\ issued > 0
         /\ params[issued].method = op
         /\ \E i \in DOMAIN requests : requests[i].no = issued
PROOF
  <1>1. /\ Awaited = requests[Len(requests)].no /\ requests # << >>
    BY AwaitedType DEF TypeInv, InProgress
  <1>2. Len(requests) \in DOMAIN requests
    <2>1. requests \in Seq(RequestType)
      BY DEF TypeInv, ClientTypeOK, RequestType
    <2> QED
      BY <1>1, <2>1, EmptySeq, LenProperties
  <1>3. requests[Len(requests)].method = op
    BY DEF Correlated, LastIsAwaited
  <1>4. requests[Len(requests)].no = issued
    BY <1>1 DEF TablesInv, RequestsMatch
  <1>5. issued \in DOMAIN params /\ params[issued].method = op
    BY <1>2, <1>3, <1>4 DEF TablesInv, RequestsMatch
  <1>6. issued > 0
    BY <1>5, ParamFields DEF TablesInv
  <1> QED
    BY <1>1, <1>2, <1>4, <1>5, <1>6

\* A request the client sends, with the fields Sends gives it.
LEMMA RequestSent ==
  ASSUME TablesInv, TypeInv', NEW method \in Methods, NEW did \in DIDs,
         NEW over \in 0 .. MaxRequests, NEW e, e.no = issued + 1, e.method = method,
         requests' = Append(requests, e) \/ requests' = << e >>,
         TypeInv, issued' = issued + 1, Sends(method, did, over), FramesKept,
         UNCHANGED << engine, answers, handles, by_did, removed >>
  PROVE  \E rec : Sent(rec) /\ rec.method = method /\ rec.did = did /\ rec.over = over
PROOF
  <1> DEFINE rec == [method |-> method, conn |-> requests'[1].no, did |-> did, key |-> key,
                     over |-> over]
  <1>1. params' = Append(params, rec) /\ backlog' = backlog \cup {issued + 1}
    <2>1. issued \in Nat
      BY ParamFields DEF TablesInv
    <2>2. issued' # issued
      BY <2>1
    <2> QED
      BY <2>2 DEF Sends
  <1>2. requests'[1].no \in 1 .. MaxRequests
    <2>1. requests' \in Seq(RequestType) /\ requests \in Seq(RequestType)
      BY DEF TypeInv, ClientTypeOK, RequestType
    <2>2. requests' # << >>
      <3>1. Append(requests, e) # << >>
        BY <2>1, AppendAny
      <3>2. << e >> # << >>
        OBVIOUS
      <3> QED
        BY <3>1, <3>2
    <2>3. 1 \in 1 .. Len(requests')
      BY <2>1, <2>2, EmptySeq, LenProperties
    <2>4. requests'[1] \in RequestType
      BY <2>1, <2>3, ElementOfSeq
    <2> QED
      BY <2>4 DEF RequestType
  <1>3. rec \in Request
    BY <1>2 DEF Request, TablesInv, TypeOK
  <1>4. Sent(rec)
    BY <1>1, <1>3 DEF Sent
  <1> QED
    BY <1>4

LEMMA ClientRunsStep ==
  ASSUME TypeInv, Correlated, TablesInv, TypeInv', ClientRuns
  PROVE  TablesStep
PROOF
  <1>0. ClientStep /\ UNCHANGED << engine, key, removed, answers >>
    BY DEF ClientRuns
  <1>1. ASSUME UNCHANGED << issued, handles, requests >>, FramesKept
        PROVE  TablesStep
    <2>1. UNCHANGED << params, backlog, by_did >>
      BY <1>1 DEF ClientRuns, Sends
    <2>2. Quiet
      BY <1>0, <1>1, <2>1 DEF Quiet, FramesKept
    <2> QED
      BY <2>2 DEF TablesStep
  <1>2. CASE recv_eof \/ \E decision \in Decisions : authorize(decision)
    <2>1. UNCHANGED << issued, handles, requests, inbox >>
      BY <1>2 DEF recv_eof, recv_fails, authorize
    <2>2. FramesKept
      BY <2>1 DEF FramesKept
    <2> QED
      BY <1>1, <2>1, <2>2
  <1>3. CASE recv_frame
    <2> DEFINE frame == Head(inbox)
    <2>1. /\ inbox # << >> /\ inbox' = Tail(inbox) /\ up' = up
          /\ \/ frame.kind = "unparsable" /\ recv_unparsable(frame)
             \/ frame.kind = "answer" /\ read_answer(frame)
             \/ /\ frame.kind = "sign" /\ read_callback(frame)
                /\ UNCHANGED << requests, unanswered, issued >>
      BY <1>3 DEF recv_frame
    <2>2. /\ FramesKept /\ 1 \in DOMAIN inbox /\ frame = inbox[1]
          /\ \A i \in DOMAIN inbox' :
               i \in Nat \ {0} /\ i + 1 \in DOMAIN inbox /\ inbox'[i] = inbox[i + 1]
      BY <2>1, TailKeeps
    <2>3. Addressed(frame)
      BY <2>1, HeadIsAddressed DEF Correlated
    <2> HIDE DEF frame
    <2>4. CASE frame.kind = "unparsable" /\ recv_unparsable(frame)
      BY <1>1, <2>2, <2>4 DEF recv_unparsable
    <2>5. CASE /\ frame.kind = "sign" /\ read_callback(frame)
               /\ UNCHANGED << requests, unanswered, issued >>
      <3>1. UNCHANGED handles
        BY <2>5 DEF read_callback, give_up
      <3> QED
        BY <1>1, <2>2, <2>5, <3>1
    <2>6. CASE frame.kind = "answer" /\ read_answer(frame)
      <3>1. CASE op = "begin" /\ answer_verdict(frame) = "Ok" /\ begin_answered(frame)
        <4>1. CASE try_sign = "none" \/ request_failed("attach")
          <5>1. UNCHANGED << issued, handles, requests >>
            BY <3>1, <4>1 DEF begin_answered, request_failed
          <5> QED
            BY <1>1, <2>2, <5>1
        <4>2. CASE try_sign # "none" /\ request_sent("attach", next_id, frame.to, try_sign)
          <5> DEFINE e == [no |-> issued + 1, id |-> next_id, method |-> "attach",
                           over |-> frame.to, signature |-> try_sign]
          <5>1. /\ issued' = issued + 1 /\ requests' = Append(requests, e)
                /\ handles' = handles /\ up
            BY <3>1, <4>2 DEF begin_answered, request_sent
          <5>2. op \in Methods
            BY <3>1 DEF Methods
          <5>3. /\ Awaited = issued /\ issued \in DOMAIN params /\ issued > 0
                /\ params[issued].method = "begin"
                /\ \E i \in DOMAIN requests : requests[i].no = issued
            BY <3>1, <5>2, AwaitedIsLast
          <5>4. frame.to = issued
            <6>1. id_matches(frame)
              BY <3>1 DEF answer_verdict
            <6> QED
              BY <2>3, <2>6, <5>2, <5>3, <6>1, MatchIsOwn
          <5>5. issued \in DOMAIN answers
            BY <2>2, <2>6, <5>4 DEF TablesInv, InboxFits
          <5>6. Sends("attach", params[issued].did, issued) /\ by_did' = by_did
            BY <5>1, <5>2, <5>3 DEF ClientRuns
          <5>7. params[issued].did \in DIDs /\ issued \in 0 .. MaxRequests
            <6>1. params[issued] \in Request
              BY <5>3, ParamFields DEF TablesInv
            <6> QED
              BY <6>1 DEF Request, TypeInv, ClientTypeOK
          <5>8. "attach" \in Methods /\ e.no = issued + 1 /\ e.method = "attach"
            BY DEF Methods
          <5> HIDE DEF e
          <5>9. PICK rec : /\ Sent(rec) /\ rec.method = "attach"
                           /\ rec.did = params[issued].did /\ rec.over = issued
            BY <1>0, <2>2, <5>1, <5>6, <5>7, <5>8, RequestSent
          <5>10. SentAttach(rec)
            BY <5>1, <5>3, <5>5, <5>9 DEF SentAttach, Current
          <5> QED
            BY <5>10 DEF TablesStep
        <4> QED
          BY <3>1, <4>1, <4>2 DEF begin_answered, call
      <3>2. CASE op = "attach" /\ answer_verdict(frame) = "Ok" /\ attach_answered(frame)
        <4>1. /\ handles' = handles \cup {frame.to}
              /\ UNCHANGED << requests, issued >>
          BY <3>2 DEF attach_answered
        <4>2. op \in Methods
          BY <3>2 DEF Methods
        <4>3. /\ Awaited = issued /\ issued \in DOMAIN params /\ issued > 0
              /\ params[issued].method = "attach"
          BY <3>2, <4>2, AwaitedIsLast
        <4>4. id_matches(frame) /\ frame.body # "error"
          BY <3>2 DEF answer_verdict
        <4>5. frame.to = issued
          BY <2>3, <2>6, <4>2, <4>3, <4>4, MatchIsOwn
        <4>6. /\ issued \in DOMAIN answers \ handles
              /\ frame.body = BodyOf(answers[issued])
          BY <2>2, <2>6, <4>5 DEF TablesInv, InboxFits
        <4>7. IsSession(issued)
          BY <4>3, <4>4, <4>6 DEF TablesInv, AnswersFit, Fits, BodyOf, IsSession
        <4>8. UNCHANGED << params, backlog >> /\ by_did' = insert(params[issued].did, issued)
          <5>1. handles' # handles
            BY <4>1, <4>5, <4>6
          <5> QED
            BY <4>1, <4>2, <4>3, <5>1 DEF ClientRuns, Sends
        <4>9. ASSUME NEW i \in DOMAIN inbox'
              PROVE  \E j \in DOMAIN inbox :
                       /\ inbox'[i] = inbox[j]
                       /\ ~ (inbox[j].kind = "answer" /\ inbox[j].to = issued)
          <5>1. i + 1 \in DOMAIN inbox /\ inbox'[i] = inbox[i + 1] /\ i + 1 # 1
            BY <2>2, <4>9
          <5>2. inbox[1].kind = "answer" /\ inbox[1].to = issued
            BY <2>2, <2>6, <4>5
          <5>3. ~ (inbox[i + 1].kind = "answer" /\ inbox[i + 1].to = issued)
            BY <2>2, <4>3, <5>1, <5>2 DEF Correlated, AnswersAreSingle
          <5> QED
            BY <5>1, <5>3
        <4>10. Opens
          BY <1>0, <4>1, <4>5, <4>6, <4>7, <4>8, <4>9 DEF Opens
        <4> QED
          BY <4>10 DEF TablesStep
      <3>3. CASE ~ \/ op = "begin" /\ answer_verdict(frame) = "Ok" /\ begin_answered(frame)
                   \/ op = "attach" /\ answer_verdict(frame) = "Ok" /\ attach_answered(frame)
        <4>1. UNCHANGED << issued, handles, requests >>
          BY <2>6, <3>3 DEF read_answer, detach_answered
        <4> QED
          BY <1>1, <2>2, <4>1
      <3> QED
        BY <3>1, <3>2, <3>3
    <2> QED
      BY <2>1, <2>4, <2>5, <2>6
  <1> QED
    BY <1>0, <1>2, <1>3 DEF ClientStep

LEMMA AttachStep ==
  ASSUME TypeInv, TablesInv, TypeInv', NEW profile \in DIDs, Attach(profile)
  PROVE  TablesStep
PROOF
  <1>0. /\ Sends("begin", profile, 0)
        /\ UNCHANGED << engine, by_did, removed, answers >>
        /\ begin_and_attach \/ reattach
    BY DEF Attach, app
  <1>1. "begin" \in Methods /\ 0 \in 0 .. MaxRequests
    BY ClientAssumption DEF Methods
  <1>2. ASSUME NEW e, e.no = issued + 1, e.method = "begin", issued' = issued + 1,
               requests' = Append(requests, e) \/ requests' = << e >>, FramesKept,
               handles' = handles
        PROVE  TablesStep
    <2>1. PICK rec : Sent(rec) /\ rec.method = "begin"
      BY <1>0, <1>1, <1>2, RequestSent
    <2> QED
      BY <1>0, <2>1 DEF TablesStep, SentBegin
  <1>3. ASSUME UNCHANGED << issued, handles >>, requests' = requests \/ requests' = << >>,
               FramesKept
        PROVE  TablesStep
    <2>1. UNCHANGED << params, backlog >>
      BY <1>0, <1>3 DEF Sends
    <2> QED
      BY <1>0, <1>3, <2>1 DEF TablesStep, Quiet, FramesKept
  <1>4. inbox' = inbox \/ inbox' = << >> => FramesKept
    BY DEF FramesKept
  <1>5. CASE begin_and_attach
    <2> DEFINE e == [no |-> issued + 1, id |-> next_id, method |-> "begin",
                     over |-> 0, signature |-> "none"]
    <2>1. call("begin", next_id, 0, "none") /\ UNCHANGED << handles, inbox >>
      BY <1>5 DEF begin_and_attach
    <2>2. CASE request_sent("begin", next_id, 0, "none")
      <3>1. issued' = issued + 1 /\ requests' = Append(requests, e)
        BY <2>2 DEF request_sent
      <3>2. e.no = issued + 1 /\ e.method = "begin"
        OBVIOUS
      <3> HIDE DEF e
      <3> QED
        BY <1>2, <1>4, <2>1, <3>1, <3>2
    <2>3. CASE request_failed("begin")
      BY <1>3, <1>4, <2>1, <2>3 DEF request_failed
    <2> QED
      BY <2>1, <2>2, <2>3 DEF call
  <1>6. CASE reattach_connected
    <2> DEFINE e == [no |-> issued + 1, id |-> 1, method |-> "begin",
                     over |-> 0, signature |-> "none"]
    <2>1. /\ issued' = issued + 1 /\ requests' = << e >> /\ inbox' = << >>
          /\ handles' = handles
      BY <1>6 DEF reattach_connected
    <2>2. e.no = issued + 1 /\ e.method = "begin"
      OBVIOUS
    <2> HIDE DEF e
    <2> QED
      BY <1>2, <1>4, <2>1, <2>2
  <1>7. CASE reattach_broken
    BY <1>3, <1>4, <1>7 DEF reattach_broken
  <1> QED
    BY <1>0, <1>5, <1>6, <1>7 DEF reattach

LEMMA DetachStep ==
  ASSUME TypeInv, TablesInv, TypeInv', NEW handle \in handles, Detach(handle)
  PROVE  TablesStep
PROOF
  <1> DEFINE did == params[handle].did
             e == [no |-> issued + 1, id |-> next_id, method |-> "detach",
                   over |-> handle, signature |-> "none"]
  <1>1. /\ Sends("detach", did, handle)
        /\ UNCHANGED << engine, by_did, removed, answers >>
        /\ client_detach(handle)
    BY DEF Detach, app
  <1>2. call("detach", next_id, handle, "none") /\ UNCHANGED << handles, inbox, up >>
    BY <1>1 DEF client_detach
  <1>3. FramesKept
    BY <1>2 DEF FramesKept
  <1>4. CASE request_sent("detach", next_id, handle, "none")
    <2>1. issued' = issued + 1 /\ requests' = Append(requests, e)
      BY <1>4 DEF request_sent
    <2>2. e.no = issued + 1 /\ e.method = "detach"
      OBVIOUS
    <2>3. "detach" \in Methods /\ handle \in 0 .. MaxRequests
      <3>1. handles \subseteq 1 .. MaxRequests
        BY DEF TypeInv, ClientTypeOK
      <3> QED
        BY <3>1 DEF Methods
    <2>4. did \in DIDs
      <3>1. handle \in DOMAIN params
        BY DEF TablesInv, TypeOK, HandlesAreSessions, IsSession
      <3> QED
        BY <3>1, ParamFields DEF Request, TablesInv
    <2> HIDE DEF e, did
    <2>5. PICK rec : Sent(rec) /\ rec.method = "detach" /\ rec.over = handle
      BY <1>1, <1>2, <1>3, <2>1, <2>2, <2>3, <2>4, RequestSent
    <2> QED
      BY <2>5 DEF TablesStep, SentDetach
  <1>5. CASE request_failed("detach")
    <2>1. UNCHANGED << issued, requests >>
      BY <1>5 DEF request_failed
    <2>2. UNCHANGED << params, backlog >>
      BY <1>1, <2>1 DEF Sends
    <2> QED
      BY <1>1, <1>2, <2>1, <2>2 DEF TablesStep, Quiet
  <1> QED
    BY <1>2, <1>4, <1>5 DEF call

\* The steps that leave the tables of the app and the host alone.
LEMMA QuietStep ==
  ASSUME TypeInv,
         \/ HandleCallback \/ ReadFails \/ Lock \/ Drop \/ Restart
         \/ \E profile \in DIDs : Forget(profile)
         \/ \E k \in Keys : SwitchKey(k)
         \/ \E id \in CallbackIds : SendCallback(id)
         \/ \E n \in DOMAIN answers : CleanUp(n)
         \/ \E did \in DIDs, k \in Keys : OtherBegins(did, k)
         \/ \E did \in DIDs, k \in Keys \cup {NoKey} : RepublishKey(did, k)
         \/ UNCHANGED vars
  PROVE  Quiet
PROOF
  <1>1. \A i \in DOMAIN inbox : inbox[i] = inbox[i]
    OBVIOUS
  <1>2. ASSUME NEW id \in CallbackIds, SendCallback(id)
        PROVE  Quiet
    <2>1. /\ inbox' = Append(inbox, Callback(id, "good"))
          /\ UNCHANGED << control, requests, issued, host, app >>
      BY <1>2 DEF SendCallback, Deliver
    <2>2. inbox \in Seq(Frames)
      BY DEF TypeInv, ClientTypeOK
    <2>3. \A i \in DOMAIN Append(inbox, Callback(id, "good")) :
            \/ i \in DOMAIN inbox /\ Append(inbox, Callback(id, "good"))[i] = inbox[i]
            \/ Append(inbox, Callback(id, "good"))[i] = Callback(id, "good")
      BY <2>2, AppendAny
    <2>4. Callback(id, "good").kind = "sign"
      BY DEF Callback
    <2>5. \A i \in DOMAIN inbox' :
            inbox'[i].kind = "sign" \/ \E j \in DOMAIN inbox : inbox'[i] = inbox[j]
      BY <2>1, <2>3, <2>4
    <2> QED
      BY <2>1, <2>5 DEF Quiet, control, host, app
  <1>3. CASE HandleCallback \/ ReadFails
    BY <1>3
      DEF HandleCallback, handle_next_sign_callback, ReadFails, recv_fails, connection,
          host, app, Quiet
  <1>4. CASE Lock
    BY <1>4 DEF Lock, UserLocks, control, connection, host, app, Quiet
  <1>5. CASE Drop
    BY <1>5 DEF Drop, PeerCloses, control, host, app, Quiet
  <1>6. CASE Restart
    <2>1. UNCHANGED << inbox, requests, issued, handles >> /\ ~ up'
      BY <1>6 DEF Restart, PeerCloses, client, control, connection
    <2> QED
      BY <1>6, <2>1 DEF Restart, Quiet, app
  <1>7. CASE \/ \E k \in Keys : SwitchKey(k)
             \/ \E n \in DOMAIN answers : CleanUp(n)
             \/ \E did \in DIDs, k \in Keys : OtherBegins(did, k)
             \/ \E did \in DIDs, k \in Keys \cup {NoKey} : RepublishKey(did, k)
             \/ UNCHANGED vars
    <2>1. UNCHANGED << client, by_did, removed, host >>
      BY <1>7 DEF SwitchKey, CleanUp, OtherBegins, RepublishKey, vars, app
    <2> QED
      BY <2>1 DEF client, control, connection, host, Quiet
  <1>8. ASSUME NEW profile \in DIDs, Forget(profile)
        PROVE  Quiet
    BY <1>8 DEF Forget, Forgotten, client, control, connection, host, Quiet
  <1> QED
    BY <1>2, <1>3, <1>4, <1>5, <1>6, <1>7, <1>8

-----------------------------------------------------------------------------
(***************************************************************************)
(* The engine, in this system: the invariants of EngineProofs, which its   *)
(* restart keeps too, and session ids that were drawn.                     *)
(***************************************************************************)
SessionsAreDrawn == \A s \in opened : s.session_id <= drawn

EngineInv == CapacityInv /\ AgreementInv /\ OrderInv /\ SessionsAreDrawn

\* What a begin adds to the history.
NewBegin(did, k) ==
  [candidate |-> drawn + 2,
   handshake |-> [nonce |-> drawn + 1, advertised_key |-> k, profile_did |-> did]]

LEMMA BeginServed ==
  ASSUME EngineInv, NEW did \in DIDs, NEW k \in Keys, begin_ok(did, k)
  PROVE  /\ EngineInv' /\ BeginSpares
         /\ UNCHANGED << sessions, published, spent, opened >>
         /\ begins'[Len(begins')] = NewBegin(did, k) /\ drawn' = drawn + 2
PROOF
  <1>1. CapacityInv /\ AgreementInv /\ OrderInv /\ SessionsAreDrawn /\ FreshEntropy
    BY EntropyAssumption DEF EngineInv
  <1>2. CapacityInv' /\ AgreementInv' /\ OrderInv' /\ BeginSpares
    BY <1>1, BeginCapacity, BeginAgreement, BeginOrder
  <1>3. /\ begins' = Append(begins, NewBegin(did, k)) /\ drawn' = drawn + 2
        /\ UNCHANGED << sessions, published, spent, opened >>
    BY <1>1 DEF begin_ok, fill_nonce, NewBegin
  <1>4. begins'[Len(begins')] = NewBegin(did, k)
    <2>1. begins \in Seq([candidate: Token, handshake: PendingCandidate])
      BY <1>1 DEF CapacityInv, EngineTypeOK
    <2>2. /\ Append(begins, NewBegin(did, k))[Len(begins) + 1] = NewBegin(did, k)
          /\ Len(Append(begins, NewBegin(did, k))) = Len(begins) + 1
      BY <2>1, AppendAny
    <2> QED
      BY <1>3, <2>2
  <1>5. SessionsAreDrawn'
    <2>1. drawn \in Nat /\ \A s \in opened : s.session_id \in Nat
      BY <1>1 DEF CapacityInv, EngineTypeOK, OpenedSession, Token
    <2> QED
      BY <1>1, <1>3, <2>1 DEF SessionsAreDrawn
  <1> QED
    BY <1>2, <1>3, <1>4, <1>5 DEF EngineInv

\* The session an attach that succeeds opens.
NewSession(candidate, signature, did) ==
  [session_id |-> drawn + 1, candidate |-> candidate, did |-> did,
   published |-> published[did], signature |-> signature]

Opening(candidate, signature, did) ==
  /\ drawn + 1 \in Token /\ drawn + 1 \notin DOMAIN sessions
  /\ \A s \in opened : s.session_id # drawn + 1
  /\ DOMAIN sessions' = DOMAIN sessions \cup {drawn + 1}
  /\ opened' = opened \cup {NewSession(candidate, signature, did)}

LEMMA AttachServed ==
  ASSUME EngineInv, NEW candidate, NEW signature, NEW did \in DIDs,
         attach(candidate, signature, did)
  PROVE  /\ EngineInv'
         /\ DOMAIN pending \ {candidate} \subseteq DOMAIN pending'
         /\ spent' \subseteq spent \cup {candidate}
         /\ UNCHANGED << published, begins >>
         /\ attach_verdict(candidate, signature, did) \in Refusals \cup {"Ok"}
         /\ IF attach_verdict(candidate, signature, did) = "Ok"
              THEN Opening(candidate, signature, did)
              ELSE UNCHANGED << sessions, opened >>
PROOF
  <1>1. /\ CapacityInv /\ AgreementInv /\ OrderInv /\ SessionsAreDrawn /\ FreshEntropy
        /\ EngineTypeOK
    BY EntropyAssumption DEF EngineInv, CapacityInv
  <1>2. /\ drawn \in Nat /\ MaxDraws \in Nat
        /\ \A s \in opened : s.session_id \in Nat /\ s.session_id <= drawn
    BY <1>1, EngineAssumption DEF EngineTypeOK, OpenedSession, Token, SessionsAreDrawn
  <1>3. CASE attach_ok(candidate, signature, did)
    <2>1. CapacityInv' /\ AgreementInv' /\ candidate \in DOMAIN pending
      BY <1>1, <1>3, AttachOkCapacity, AttachOkAgreement DEF attach_ok, attach_verdict
    <2>2. /\ take_candidate(candidate) /\ drawn < MaxDraws /\ drawn' = drawn + 1
          /\ attach_verdict(candidate, signature, did) = "Ok"
          /\ sessions' = Insert(sessions, drawn + 1, did)
          /\ opened' = opened \cup {NewSession(candidate, signature, did)}
          /\ spent' = spent \cup {candidate}
          /\ UNCHANGED << published, begins >>
      BY <1>1, <1>3 DEF attach_ok, fill_nonce, NewSession
    <2>3. OrderInv' /\ DOMAIN pending' = DOMAIN pending \ {candidate}
      BY <1>1, <2>1, <2>2, TakeOrder, TakeCapacity
    <2>4. NewSession(candidate, signature, did).session_id = drawn + 1
      BY DEF NewSession
    <2>5. SessionsAreDrawn'
      BY <1>2, <2>2, <2>4 DEF SessionsAreDrawn
    <2>6. drawn + 1 \in Token /\ drawn + 1 \notin DOMAIN sessions
      <3>1. \A id \in DOMAIN sessions : \E s \in opened : s.session_id = id
        BY <1>1 DEF AgreementInv, SessionsWereOpened
      <3> QED
        BY <1>2, <2>2, <3>1 DEF Token
    <2>7. DOMAIN sessions' = DOMAIN sessions \cup {drawn + 1}
      BY <2>2 DEF Insert
    <2>8. Opening(candidate, signature, did)
      BY <1>2, <2>2, <2>6, <2>7 DEF Opening
    <2> QED
      BY <2>1, <2>2, <2>3, <2>5, <2>8 DEF EngineInv
  <1>4. CASE attach_refused(candidate, signature, did)
    <2>1. CapacityInv' /\ AgreementInv' /\ candidate \in DOMAIN pending
      BY <1>1, <1>4, AttachRefusedCapacity, AttachRefusedAgreement
        DEF attach_refused, attach_verdict, Refusals
    <2>2. /\ take_candidate(candidate) /\ spent' = spent \cup {candidate}
          /\ attach_verdict(candidate, signature, did) \in Refusals
          /\ UNCHANGED << drawn, sessions, published, begins, opened >>
      BY <1>4 DEF attach_refused
    <2>3. attach_verdict(candidate, signature, did) # "Ok"
      BY <2>2 DEF Refusals
    <2>4. OrderInv' /\ DOMAIN pending' = DOMAIN pending \ {candidate}
      BY <1>1, <2>1, <2>2, TakeOrder, TakeCapacity
    <2> QED
      BY <1>1, <2>1, <2>2, <2>3, <2>4 DEF EngineInv, SessionsAreDrawn
  <1>5. CASE attach_unknown(candidate, signature, did)
    <2>1. /\ attach_verdict(candidate, signature, did) = "UnknownCandidate"
          /\ UNCHANGED << drawn, pending, candidate_order, sessions, published, begins, spent,
                          opened >>
      BY <1>5 DEF attach_unknown, engine, registry, history
    <2>2. CapacityInv' /\ AgreementInv'
      BY <1>1, <2>1, UnchangedCapacity, OtherAgreement DEF history, EngineTypeOK
    <2>3. OrderInv' /\ SessionsAreDrawn'
      BY <1>1, <2>1 DEF OrderInv, BeginsIncrease, SessionsAreDrawn
    <2> QED
      BY <2>1, <2>2, <2>3 DEF EngineInv, Refusals
  <1> QED
    BY <1>3, <1>4, <1>5 DEF attach

LEMMA DetachServed ==
  ASSUME EngineInv, NEW session_id, detach(session_id)
  PROVE  /\ EngineInv' /\ UNCHANGED << pending, published, begins, spent, opened >>
         /\ DOMAIN sessions' = DOMAIN sessions \ {session_id}
PROOF
  <1>1. CapacityInv /\ AgreementInv /\ OrderInv /\ SessionsAreDrawn
    BY DEF EngineInv
  <1>2. /\ UNCHANGED << drawn, pending, candidate_order, published, begins, spent, opened >>
        /\ DOMAIN sessions' = DOMAIN sessions \ {session_id}
        /\ \A id \in DOMAIN sessions' : sessions'[id] = sessions[id]
    BY DEF detach, history, RemoveKeys, Restrict
  <1>3. CapacityInv' /\ AgreementInv'
    BY <1>1, <1>2, DetachCapacity, OtherAgreement
  <1>4. OrderInv' /\ SessionsAreDrawn'
    BY <1>1, <1>2 DEF OrderInv, BeginsIncrease, SessionsAreDrawn
  <1> QED
    BY <1>2, <1>3, <1>4 DEF EngineInv

\* The resolver's keys are not the engine's.
LEMMA EngineIdle ==
  ASSUME EngineInv, UNCHANGED << registry, history >>,
         published' \in [DIDs -> Keys \cup {NoKey}]
  PROVE  EngineInv'
PROOF
  <1>1. CapacityInv /\ AgreementInv /\ OrderInv /\ SessionsAreDrawn
    BY DEF EngineInv
  <1>2. CapacityInv' /\ AgreementInv'
    BY <1>1, UnchangedCapacity, OtherAgreement DEF registry, history
  <1>3. OrderInv' /\ SessionsAreDrawn'
    BY <1>1 DEF OrderInv, BeginsIncrease, SessionsAreDrawn, registry, history
  <1> QED
    BY <1>2, <1>3 DEF EngineInv

\* A new registry is empty; what was opened stays opened, what was spent spent.
LEMMA RestartKeeps ==
  ASSUME EngineInv, Restart
  PROVE  EngineInv' /\ DOMAIN pending' = {} /\ DOMAIN sessions' = {}
PROOF
  <1>1. CapacityInv /\ AgreementInv /\ OrderInv /\ SessionsAreDrawn
    BY DEF EngineInv
  <1>2. /\ pending' = << >> /\ candidate_order' = << >> /\ sessions' = << >>
        /\ UNCHANGED << drawn, published, begins, spent, opened >>
    BY DEF Restart
  <1>3. DOMAIN pending' = {} /\ DOMAIN sessions' = {}
    BY <1>2
  <1>4. EngineTypeOK'
    BY <1>1, <1>2, <1>3 DEF CapacityInv, EngineTypeOK, OpenedSession
  <1>5. PendingIsQueued' /\ PendingBounded'
    <2>1. Cardinality(DOMAIN pending') = 0
      BY <1>3, FS_EmptySet
    <2> QED
      BY <1>3, <2>1, EngineAssumption DEF PendingIsQueued, PendingBounded
  <1>6. AgreementInv'
    BY <1>1, <1>2, <1>3
      DEF AgreementInv, BeginsAreFresh, PendingWasBegun, SpentIsGone, OpenedOnce,
          SessionsWereOpened, AllJustified, Justified
  <1>7. OrderInv' /\ SessionsAreDrawn'
    BY <1>1, <1>2, <1>3, EmptySeq
      DEF OrderInv, Increasing, ToSet, BeginsIncrease, SessionsAreDrawn
  <1> QED
    BY <1>3, <1>4, <1>5, <1>6, <1>7 DEF EngineInv, CapacityInv

(***************************************************************************)
(* What the host's answers say.                                            *)
(***************************************************************************)
LEMMA AnswerFields ==
  ASSUME NEW answer \in AnswerTo
  PROVE  /\ answer.kind \in {"challenge", "session", "detached", "error"}
         /\ answer.kind = "challenge" => answer.nonce \in Token /\ answer.candidate \in Token
         /\ answer.kind = "session" => answer.session_id \in Token
         /\ answer.kind = "error" => answer.begun \in Nat
PROOF
  <1>1. CASE answer \in [kind: {"challenge"}, nonce: Token, candidate: Token]
    BY <1>1
  <1>2. CASE answer \in [kind: {"session"}, session_id: Token]
    BY <1>2
  <1>3. CASE answer \in [kind: {"detached"}]
    BY <1>3
  <1>4. CASE answer \in [kind: {"error"}, code: Codes, published: Keys \cup {NoKey}, begun: Nat]
    BY <1>4
  <1> QED
    BY <1>1, <1>2, <1>3, <1>4, Zenon DEF AnswerTo

Challenge == [kind |-> "challenge", nonce |-> drawn + 1, candidate |-> drawn + 2]
Session == [kind |-> "session", session_id |-> drawn + 1]
Refused(n, verdict) ==
  [kind |-> "error", code |-> error_code(verdict),
   published |-> published[params[n].did], begun |-> Len(begins)]
SignatureOf(n) ==
  [key |-> params[n].key, over |-> challenge_message(answers[n - 1].nonce, params[n].did)]
VerdictOn(n) == attach_verdict(answers[n - 1].candidate, SignatureOf(n), params[n].did)

ServedBegin(n) ==
  /\ params[n].method = "begin"
  /\ begin_ok(params[n].did, params[n].key)
  /\ Served(n, Challenge)

ServedAttach(n) ==
  /\ params[n].method = "attach" /\ IsChallenge(n - 1) /\ params[n - 1].method = "begin"
  /\ params[n].did = params[n - 1].did
  /\ attach(answers[n - 1].candidate, SignatureOf(n), params[n].did)
  /\ Served(n, IF VerdictOn(n) = "Ok" THEN Session ELSE Refused(n, VerdictOn(n)))

ServedDetach(n) ==
  /\ params[n].method = "detach" /\ IsSession(params[n].over)
  /\ detach(answers[params[n].over].session_id)
  /\ Served(n, [kind |-> "detached"])

LEMMA ServeStep ==
  ASSUME TablesInv, EngineInv, NEW n \in backlog, Serve(n)
  PROVE  ServedBegin(n) \/ ServedAttach(n) \/ ServedDetach(n)
PROOF
  <1>1. /\ backlog' = backlog \ {n} /\ UNCHANGED << app, params >>
        /\ n \in DOMAIN params /\ params[n] \in Request /\ n \notin DOMAIN answers
    <2>1. n \in DOMAIN params /\ n \notin DOMAIN answers
      BY DEF TablesInv, TypeOK
    <2> QED
      BY <2>1, ParamFields DEF TablesInv, Serve, take_request
  <1>2. /\ params[n].did \in DIDs /\ params[n].key \in Keys
        /\ \A m \in DOMAIN answers : answers[m] \in AnswerTo
    BY <1>1 DEF Request, TablesInv, TypeOK
  <1>3. /\ EngineTypeOK /\ drawn \in Nat /\ Len(begins) \in Nat
        /\ published \in [DIDs -> Keys \cup {NoKey}]
    BY LenProperties DEF EngineInv, CapacityInv, EngineTypeOK
  <1>4. ASSUME params[n].method = "begin", serve_begin(n)
        PROVE  ServedBegin(n)
    <2>1. begin_ok(params[n].did, params[n].key)
      BY <1>4 DEF serve_begin
    <2>2. begins'[Len(begins')] = NewBegin(params[n].did, params[n].key) /\ drawn' = drawn + 2
      BY <1>2, <2>1, BeginServed
    <2>3. /\ NewBegin(params[n].did, params[n].key).candidate = drawn + 2
          /\ NewBegin(params[n].did, params[n].key).handshake.nonce = drawn + 1
      BY DEF NewBegin
    <2>4. Answered(n, Challenge)
      BY <1>4, <2>2, <2>3 DEF serve_begin, Challenge
    <2>5. drawn + 1 \in Token /\ drawn + 2 \in Token
      <3>1. drawn + 2 <= MaxDraws /\ MaxDraws \in Nat
        BY <2>1, EngineAssumption DEF begin_ok
      <3> QED
        BY <1>3, <3>1 DEF Token
    <2>6. Challenge \in AnswerTo /\ Challenge.kind = "challenge"
      BY <2>5 DEF Challenge, AnswerTo
    <2> QED
      BY <1>1, <1>4, <2>1, <2>4, <2>6 DEF ServedBegin, Served, Fits
  <1>5. ASSUME params[n].method = "attach", serve_attach(n)
        PROVE  ServedAttach(n)
    <2>1. /\ n - 1 \in DOMAIN answers /\ params[n].over = n - 1
          /\ params[n - 1].method = "begin" /\ params[n].did = params[n - 1].did
      BY <1>1, <1>5 DEF TablesInv, AttachFollowsBegin
    <2>2. IsChallenge(n - 1)
      BY <2>1 DEF TablesInv, AnswersFit, Fits, IsChallenge
    <2> DEFINE verdict == VerdictOn(n)
               answer == IF verdict = "Ok" THEN Session ELSE Refused(n, verdict)
    <2>3. attach(answers[n - 1].candidate, SignatureOf(n), params[n].did)
      BY <1>5, <2>1 DEF serve_attach, SignatureOf
    <2>4. /\ verdict \in Refusals \cup {"Ok"}
          /\ UNCHANGED << published, begins >>
          /\ IF verdict = "Ok"
               THEN Opening(answers[n - 1].candidate, SignatureOf(n), params[n].did)
               ELSE UNCHANGED << sessions, opened >>
      BY <1>2, <2>3, AttachServed DEF VerdictOn
    <2>5. verdict = "Ok" =>
            (CHOOSE s \in DOMAIN sessions' : s \notin DOMAIN sessions) = drawn + 1
      BY <2>4 DEF Opening
    <2>6. Answered(n, answer)
      BY <1>5, <2>1, <2>5 DEF serve_attach, Session, Refused, VerdictOn, SignatureOf
    <2>7. answer \in AnswerTo /\ answer.kind \in {"session", "error"}
      <3>1. CASE verdict = "Ok"
        <4>1. drawn + 1 \in Token
          BY <2>4, <3>1 DEF Opening
        <4> QED
          BY <3>1, <4>1 DEF Session, AnswerTo
      <3>2. CASE verdict # "Ok"
        <4>1. error_code(verdict) \in Codes
          BY DEF error_code, Codes
        <4>2. published[params[n].did] \in Keys \cup {NoKey}
          BY <1>2, <1>3
        <4>3. Refused(n, verdict) \in
                [kind: {"error"}, code: Codes, published: Keys \cup {NoKey}, begun: Nat]
          BY <1>3, <4>1, <4>2 DEF Refused
        <4> QED
          BY <3>2, <4>3 DEF AnswerTo
      <3> QED
        BY <3>1, <3>2
    <2> HIDE DEF answer
    <2>8. Served(n, answer)
      BY <1>1, <1>5, <2>6, <2>7 DEF Served, Fits
    <2> QED
      BY <1>5, <2>1, <2>2, <2>3, <2>8 DEF ServedAttach, answer
  <1>6. ASSUME params[n].method = "detach", serve_detach(n)
        PROVE  ServedDetach(n)
    <2>1. IsSession(params[n].over)
      BY <1>1, <1>6 DEF TablesInv, DetachesHandle, HandlesAreSessions
    <2>2. /\ detach(answers[params[n].over].session_id)
          /\ Answered(n, [kind |-> "detached"])
      BY <1>6 DEF serve_detach
    <2>3. [kind |-> "detached"] \in AnswerTo
      BY DEF AnswerTo
    <2> QED
      BY <1>1, <1>6, <2>1, <2>2, <2>3 DEF ServedDetach, Served, Fits
  <1> QED
    BY <1>4, <1>5, <1>6 DEF Serve

(***************************************************************************)
(* The tables are kept.                                                    *)
(***************************************************************************)
LEMMA TableFields ==
  ASSUME TablesInv
  PROVE  /\ issued \in Nat /\ DOMAIN params = 1 .. issued
         /\ DOMAIN answers \subseteq DOMAIN params
         /\ handles \subseteq DOMAIN answers
         /\ \A did \in DOMAIN by_did : by_did[did] \in handles
         /\ backlog \subseteq DOMAIN params \ DOMAIN answers
         /\ issued + 1 \notin DOMAIN params
PROOF
  <1>1. issued \in Nat /\ DOMAIN params = 1 .. issued
    BY ParamFields DEF TablesInv
  <1>2. issued + 1 \notin 1 .. issued
    BY <1>1
  <1> QED
    BY <1>1, <1>2 DEF TablesInv, TypeOK, HandlesAreSessions, IsSession

LEMMA SentKeeps ==
  ASSUME TypeInv, TablesInv, key' = key, NEW rec, Sent(rec),
         rec.method = "attach" =>
           /\ issued \in DOMAIN answers /\ params[issued].method = "begin"
           /\ rec.over = issued /\ rec.did = params[issued].did,
         rec.method = "detach" => rec.over \in handles
  PROVE  TablesInv'
PROOF
  <1>1. /\ issued \in Nat /\ DOMAIN params = 1 .. issued
        /\ DOMAIN answers \subseteq DOMAIN params /\ handles \subseteq DOMAIN answers
        /\ \A did \in DOMAIN by_did : by_did[did] \in handles
        /\ backlog \subseteq DOMAIN params \ DOMAIN answers
        /\ issued + 1 \notin DOMAIN params
    BY TableFields
  <1>2. /\ params' \in Seq(Request) /\ Len(params') = issued + 1
        /\ DOMAIN params' = 1 .. issued + 1
        /\ \A n \in DOMAIN params : params'[n] = params[n]
        /\ params'[issued + 1] = rec
    BY ParamsAppend DEF TablesInv, Sent
  <1>3. /\ issued' = issued + 1 /\ backlog' = backlog \cup {issued + 1}
        /\ UNCHANGED << answers, handles, by_did, removed >>
    BY DEF Sent
  <1>4. /\ issued + 1 \in DOMAIN params' /\ DOMAIN params \subseteq DOMAIN params'
        /\ \A n \in DOMAIN params' : n \in DOMAIN params \/ n = issued + 1
    BY <1>1, <1>2
  <1>5. TypeOK'
    BY <1>1, <1>2, <1>3, <1>4 DEF TablesInv, TypeOK
  <1>6. RequestsMatch'
    <2>1. PICK e : /\ e.no = issued + 1 /\ e.method = rec.method
                   /\ requests' = Append(requests, e) \/ requests' = << e >>
      BY DEF Sent
    <2>2. requests \in Seq(RequestType)
      BY DEF TypeInv, ClientTypeOK, RequestType
    <2>3. /\ \A i \in DOMAIN requests' :
               (i \in DOMAIN requests /\ requests'[i] = requests[i]) \/ requests'[i] = e
          /\ requests'[Len(requests')] = e
      <3>1. CASE requests' = Append(requests, e)
        <4>1. /\ Len(Append(requests, e)) = Len(requests) + 1
              /\ Append(requests, e)[Len(requests) + 1] = e
              /\ \A i \in DOMAIN Append(requests, e) :
                   \/ i \in DOMAIN requests /\ Append(requests, e)[i] = requests[i]
                   \/ Append(requests, e)[i] = e
          BY <2>2, AppendAny
        <4> QED
          BY <3>1, <4>1
      <3>2. CASE requests' = << e >>
        BY <3>2
      <3> QED
        BY <2>1, <3>1, <3>2
    <2> QED
      BY <1>2, <1>3, <1>4, <2>1, <2>3 DEF TablesInv, RequestsMatch
  <1>7. AttachFollowsBegin'
    <2> SUFFICES ASSUME NEW n \in DOMAIN params', params'[n].method = "attach"
                 PROVE  /\ n - 1 \in DOMAIN answers
                        /\ params'[n].over = n - 1 /\ params'[n - 1].method = "begin"
                        /\ params'[n].did = params'[n - 1].did
      BY <1>3 DEF AttachFollowsBegin
    <2>1. CASE n \in DOMAIN params
      BY <1>1, <1>2, <2>1 DEF TablesInv, AttachFollowsBegin
    <2>2. CASE n = issued + 1
      <3>1. n - 1 = issued
        BY <1>1, <2>2
      <3> QED
        BY <1>1, <1>2, <2>2, <3>1
    <2> QED
      BY <1>4, <2>1, <2>2
  <1>8. DetachesHandle' /\ AnswersFit' /\ HandlesAreSessions'
    BY <1>1, <1>2, <1>3, <1>4
      DEF TablesInv, DetachesHandle, AnswersFit, HandlesAreSessions, IsSession
  <1>9. InboxFits'
    BY <1>3 DEF TablesInv, InboxFits, Sent, FramesKept, BodyOf
  <1> QED
    BY <1>5, <1>6, <1>7, <1>8, <1>9 DEF TablesInv

LEMMA TablesKept ==
  ASSUME TypeInv, TypeInv', TablesInv, key' \in Keys, TablesStep,
         (\E rec : Sent(rec)) \/ Opens => key' = key
  PROVE  TablesInv'
PROOF
  <1>1. /\ issued \in Nat /\ DOMAIN params = 1 .. issued
        /\ DOMAIN answers \subseteq DOMAIN params /\ handles \subseteq DOMAIN answers
        /\ \A did \in DOMAIN by_did : by_did[did] \in handles
        /\ backlog \subseteq DOMAIN params \ DOMAIN answers
    BY TableFields
  <1>2. ASSUME NEW rec, SentBegin(rec)
        PROVE  TablesInv'
    BY <1>2, SentKeeps DEF SentBegin
  <1>3. ASSUME NEW rec, SentAttach(rec)
        PROVE  TablesInv'
    BY <1>3, SentKeeps DEF SentAttach
  <1>4. ASSUME NEW rec, SentDetach(rec)
        PROVE  TablesInv'
    BY <1>4, SentKeeps DEF SentDetach
  <1>5. CASE Opens
    <2>1. /\ UNCHANGED << answers, params, backlog, issued, requests, key, removed >>
          /\ IsSession(issued) /\ handles' = handles \cup {issued}
          /\ by_did' = insert(params[issued].did, issued)
      BY <1>5 DEF Opens
    <2>2. issued \in DOMAIN answers /\ issued \in DOMAIN params
      BY <1>1, <2>1 DEF IsSession
    <2>3. /\ DOMAIN by_did' = DOMAIN by_did \cup {params[issued].did}
          /\ by_did'[params[issued].did] = issued
          /\ \A did \in DOMAIN by_did' : did # params[issued].did => by_did'[did] = by_did[did]
      BY <2>1 DEF insert
    <2>4. params[issued].did \in DIDs
      <3>1. params[issued] \in Request
        BY <2>2, ParamFields DEF TablesInv
      <3> QED
        BY <3>1 DEF Request
    <2>5. TypeOK'
      BY <1>1, <2>1, <2>3, <2>4 DEF TablesInv, TypeOK
    <2>6. RequestsMatch' /\ AttachFollowsBegin' /\ DetachesHandle' /\ AnswersFit'
      BY <2>1 DEF TablesInv, RequestsMatch, AttachFollowsBegin, DetachesHandle, AnswersFit
    <2>7. HandlesAreSessions'
      BY <2>1 DEF TablesInv, HandlesAreSessions, IsSession
    <2>8. InboxFits'
      BY <1>5, <2>1 DEF TablesInv, InboxFits, Opens, BodyOf
    <2> QED
      BY <2>5, <2>6, <2>7, <2>8 DEF TablesInv
  <1>6. ASSUME NEW n, NEW answer, Served(n, answer)
        PROVE  TablesInv'
    <2>1. /\ n \in backlog /\ backlog' = backlog \ {n}
          /\ UNCHANGED << key, by_did, removed, params >>
          /\ answer \in AnswerTo /\ Fits(params[n].method, answer)
          /\ answers' = [m \in DOMAIN answers \cup {n} |-> IF m = n THEN answer ELSE answers[m]]
          /\ Reply(n, BodyOf(answer))
      BY <1>6 DEF Served, Answered, BodyOf, app
    <2>2. /\ DOMAIN answers' = DOMAIN answers \cup {n} /\ answers'[n] = answer
          /\ \A m \in DOMAIN answers : answers'[m] = answers[m]
          /\ n \in DOMAIN params /\ n \notin DOMAIN answers
      BY <1>1, <2>1
    <2>3. /\ UNCHANGED << handles, requests, issued >>
          /\ \/ inbox' = inbox
             \/ \E id : inbox' = Append(inbox, Answer(n, id, BodyOf(answer)))
      <3>1. CASE Current(n)
        BY <2>1, <3>1 DEF Reply, Deliver, control
      <3>2. CASE ~ Current(n)
        BY <2>1, <3>2 DEF Reply, client, control, connection
      <3> QED
        BY <3>1, <3>2
    <2>4. TypeOK'
      BY <1>1, <2>1, <2>2, <2>3 DEF TablesInv, TypeOK
    <2>5. /\ RequestsMatch' /\ AttachFollowsBegin' /\ DetachesHandle' /\ AnswersFit'
          /\ HandlesAreSessions'
      BY <1>1, <2>1, <2>2, <2>3
        DEF TablesInv, RequestsMatch, AttachFollowsBegin, DetachesHandle, AnswersFit,
            HandlesAreSessions, IsSession
    <2>6. InboxFits'
      <3>1. CASE inbox' = inbox
        BY <2>2, <2>3, <3>1 DEF TablesInv, InboxFits, BodyOf
      <3>2. ASSUME NEW id, inbox' = Append(inbox, Answer(n, id, BodyOf(answer)))
            PROVE  InboxFits'
        <4>1. inbox \in Seq(Frames)
          BY DEF TypeInv, ClientTypeOK
        <4>2. \A i \in DOMAIN inbox' :
                \/ i \in DOMAIN inbox /\ inbox'[i] = inbox[i]
                \/ inbox'[i] = Answer(n, id, BodyOf(answer))
          BY <3>2, <4>1, AppendAny
        <4>3. /\ Answer(n, id, BodyOf(answer)).to = n
              /\ Answer(n, id, BodyOf(answer)).body = BodyOf(answer)
          BY DEF Answer
        <4>4. n \notin handles
          BY <1>1, <2>2
        <4> QED
          BY <2>2, <2>3, <4>2, <4>3, <4>4 DEF TablesInv, InboxFits, BodyOf
      <3> QED
        BY <2>3, <3>1, <3>2
    <2> QED
      BY <2>4, <2>5, <2>6 DEF TablesInv
  <1>7. CASE Quiet
    <2>1. /\ UNCHANGED << answers, params, issued, handles >> /\ backlog' \subseteq backlog
          /\ requests' = requests \/ requests' = << >>
          /\ \A i \in DOMAIN inbox' :
               inbox'[i].kind = "sign" \/ \E j \in DOMAIN inbox : inbox'[i] = inbox[j]
      BY <1>7 DEF Quiet
    <2>2. TypeOK'
      <3>1. /\ DOMAIN by_did' \subseteq DOMAIN by_did
            /\ \A did \in DOMAIN by_did' : by_did'[did] = by_did[did]
            /\ removed' \subseteq handles
        BY <1>1, <1>7 DEF Quiet, Forgotten, remove, TablesInv, TypeOK
      <3> QED
        BY <2>1, <3>1 DEF TablesInv, TypeOK
    <2>3. RequestsMatch'
      <3>1. CASE requests' = << >>
        <4>1. DOMAIN requests' = {}
          BY <3>1
        <4> QED
          BY <3>1, <4>1 DEF RequestsMatch
      <3>2. CASE requests' = requests
        BY <2>1, <3>2 DEF TablesInv, RequestsMatch
      <3> QED
        BY <2>1, <3>1, <3>2
    <2>4. AttachFollowsBegin' /\ DetachesHandle' /\ AnswersFit' /\ HandlesAreSessions'
      BY <2>1
        DEF TablesInv, AttachFollowsBegin, DetachesHandle, AnswersFit,
            HandlesAreSessions, IsSession
    <2>5. InboxFits'
      BY <2>1 DEF TablesInv, InboxFits, BodyOf
    <2> QED
      BY <2>2, <2>3, <2>4, <2>5 DEF TablesInv
  <1> QED
    BY <1>2, <1>3, <1>4, <1>5, <1>6, <1>7 DEF TablesStep

(***************************************************************************)
(* Every step of the system is one of these.                               *)
(***************************************************************************)
QuietEngine ==
  \/ UNCHANGED engine
  \/ \E did \in DIDs, k \in Keys : OtherBegins(did, k)
  \/ \E did \in DIDs, k \in Keys \cup {NoKey} : RepublishKey(did, k)
  \/ \E n \in DOMAIN answers : CleanUp(n)
  \/ Restart

SystemMoves ==
  \/ \E rec : SentBegin(rec) \/ SentAttach(rec) \/ SentDetach(rec)
  \/ Opens
  \/ \E n \in backlog : ServedBegin(n) \/ ServedAttach(n) \/ ServedDetach(n)
  \/ Quiet /\ QuietEngine

LEMMA StepKinds ==
  ASSUME TypeInv, Correlated, TablesInv, EngineInv, TypeInv', [Next]_vars
  PROVE  /\ SystemMoves /\ TablesStep /\ key' \in Keys
         /\ (\E rec : Sent(rec)) \/ Opens => key' = key
PROOF
  <1>0. key \in Keys /\ issued \in Nat
    BY ParamFields DEF TablesInv, TypeOK
  <1>1. ASSUME TablesStep, UNCHANGED << engine, key, answers >>
        PROVE  SystemMoves
    <2>1. ASSUME NEW n, NEW answer, Served(n, answer)
          PROVE  FALSE
      <3>1. n \in DOMAIN answers' /\ n \notin DOMAIN answers
        BY <2>1 DEF Served, Answered, TablesInv, TypeOK
      <3> QED
        BY <1>1, <3>1
    <2> QED
      BY <1>1, <2>1 DEF TablesStep, SystemMoves, QuietEngine
  <1>2. ASSUME \/ \E profile \in DIDs : Attach(profile)
               \/ \E handle \in handles : Detach(handle)
        PROVE  SystemMoves /\ TablesStep /\ key' = key
    <2>1. TablesStep /\ UNCHANGED << engine, key, answers >>
      BY <1>2, AttachStep, DetachStep DEF Attach, Detach, app
    <2> QED
      BY <1>1, <2>1
  <1>3. CASE ClientRuns
    <2>1. TablesStep /\ UNCHANGED << engine, key, answers >>
      BY <1>3, ClientRunsStep DEF ClientRuns
    <2> QED
      BY <1>0, <1>1, <2>1
  <1>4. ASSUME NEW n \in backlog, Serve(n)
        PROVE  SystemMoves /\ TablesStep /\ key' = key
    <2>1. ServedBegin(n) \/ ServedAttach(n) \/ ServedDetach(n)
      BY <1>4, ServeStep
    <2>2. \E answer : Served(n, answer)
      BY <2>1 DEF ServedBegin, ServedAttach, ServedDetach
    <2> QED
      BY <1>4, <2>1, <2>2 DEF SystemMoves, TablesStep, Serve, app
  <1>5. ASSUME \/ HandleCallback \/ ReadFails \/ Lock \/ Drop \/ Restart
               \/ \E profile \in DIDs : Forget(profile)
               \/ \E k \in Keys : SwitchKey(k)
               \/ \E id \in CallbackIds : SendCallback(id)
               \/ \E n \in DOMAIN answers : CleanUp(n)
               \/ \E did \in DIDs, k \in Keys : OtherBegins(did, k)
               \/ \E did \in DIDs, k \in Keys \cup {NoKey} : RepublishKey(did, k)
               \/ UNCHANGED vars
        PROVE  /\ Quiet /\ QuietEngine /\ key' \in Keys
               /\ (\E rec : Sent(rec)) \/ Opens => key' = key
    <2>1. Quiet
      BY <1>5, QuietStep
    <2>2. QuietEngine
      BY <1>5
        DEF QuietEngine, HandleCallback, ReadFails, Forget, Lock, Drop, SwitchKey, SendCallback,
            vars
    <2>3. key' \in Keys
      BY <1>0, <1>5
        DEF HandleCallback, ReadFails, Forget, Lock, Drop, Restart, SwitchKey, SendCallback,
            CleanUp, OtherBegins, RepublishKey, vars, app
    <2>4. ~ \E rec : Sent(rec)
      BY <1>0, <2>1 DEF Quiet, Sent
    <2>5. ~ Opens
      <3>1. handles' = handles
        BY <2>1 DEF Quiet
      <3> QED
        BY <3>1 DEF Opens
    <2> QED
      BY <2>1, <2>2, <2>3, <2>4, <2>5
  <1>6. Quiet /\ QuietEngine => SystemMoves /\ TablesStep
    BY DEF SystemMoves, TablesStep
  <1>7. ClientRuns => key' = key
    BY DEF ClientRuns
  <1>8. \/ \E profile \in DIDs : Attach(profile)
        \/ \E handle \in handles : Detach(handle)
        \/ ClientRuns
        \/ \E n \in backlog : Serve(n)
        \/ HandleCallback \/ ReadFails \/ Lock \/ Drop \/ Restart
        \/ \E profile \in DIDs : Forget(profile)
        \/ \E k \in Keys : SwitchKey(k)
        \/ \E id \in CallbackIds : SendCallback(id)
        \/ \E n \in DOMAIN answers : CleanUp(n)
        \/ \E did \in DIDs, k \in Keys : OtherBegins(did, k)
        \/ \E did \in DIDs, k \in Keys \cup {NoKey} : RepublishKey(did, k)
        \/ UNCHANGED vars
    BY DEF Next
  <1> HIDE DEF Next, vars, SystemMoves, TablesStep
  <1> QED
    BY <1>0, <1>2, <1>3, <1>4, <1>5, <1>6, <1>7, <1>8

LEMMA EngineKept ==
  ASSUME TablesInv, EngineInv, SystemMoves
  PROVE  EngineInv'
PROOF
  <1>0. /\ published \in [DIDs -> Keys \cup {NoKey}]
        /\ \A n \in backlog : params[n].did \in DIDs /\ params[n].key \in Keys
    <2>1. \A n \in backlog : params[n] \in Request
      BY ParamFields DEF TablesInv, TypeOK
    <2> QED
      BY <2>1 DEF EngineInv, CapacityInv, EngineTypeOK, Request
  <1>1. UNCHANGED engine => EngineInv'
    BY <1>0, EngineIdle DEF engine
  <1>2. ASSUME NEW rec, SentBegin(rec) \/ SentAttach(rec) \/ SentDetach(rec)
        PROVE  EngineInv'
    BY <1>1, <1>2 DEF SentBegin, SentAttach, SentDetach, Sent
  <1>3. CASE Opens
    BY <1>1, <1>3 DEF Opens
  <1>4. ASSUME NEW n \in backlog, ServedBegin(n) \/ ServedAttach(n) \/ ServedDetach(n)
        PROVE  EngineInv'
    BY <1>0, <1>4, BeginServed, AttachServed, DetachServed
      DEF ServedBegin, ServedAttach, ServedDetach
  <1>5. CASE QuietEngine
    <2>1. ASSUME NEW did \in DIDs, NEW k \in Keys, OtherBegins(did, k)
          PROVE  EngineInv'
      BY <2>1, BeginServed DEF OtherBegins
    <2>2. ASSUME NEW did \in DIDs, NEW k \in Keys \cup {NoKey}, RepublishKey(did, k)
          PROVE  EngineInv'
      BY <1>0, <2>2, EngineIdle DEF RepublishKey, Republish
    <2>3. ASSUME NEW n \in DOMAIN answers, CleanUp(n)
          PROVE  EngineInv'
      BY <2>3, DetachServed DEF CleanUp
    <2>4. CASE Restart
      BY <2>4, RestartKeeps
    <2> QED
      BY <1>1, <1>5, <2>1, <2>2, <2>3, <2>4 DEF QuietEngine
  <1> QED
    BY <1>2, <1>3, <1>4, <1>5 DEF SystemMoves

(***************************************************************************)
(* The connection of a request, once gone, is gone for good, and a request *)
(* given up stays given up as long as its connection lasts.                *)
(***************************************************************************)
LEMMA ConnectionStays ==
  ASSUME TypeInv, [ClientNext]_client, NEW n \in 1 .. issued, Current(n)'
  PROVE  Current(n) /\ abandoned \subseteq abandoned'
PROOF
  <1>0. /\ requests \in Seq(RequestType) /\ issued \in Nat /\ n # issued + 1
        /\ up' /\ \E i \in DOMAIN requests' : requests'[i].no = n
    BY ClientAssumption DEF TypeInv, ClientTypeOK, RequestType, Current
  <1>1. ASSUME up' => up, requests' = requests, abandoned \subseteq abandoned'
        PROVE  Current(n) /\ abandoned \subseteq abandoned'
    BY <1>0, <1>1 DEF Current
  <1>2. ASSUME NEW method, NEW id, NEW over, NEW signature,
               call(method, id, over, signature), up' = up
        PROVE  Current(n) /\ abandoned \subseteq abandoned'
    <2> DEFINE e == [no |-> issued + 1, id |-> id, method |-> method,
                     over |-> over, signature |-> signature]
    <2>1. CASE request_sent(method, id, over, signature)
      <3>1. requests' = Append(requests, e) /\ abandoned' = abandoned /\ up
        BY <2>1 DEF request_sent
      <3>2. \A i \in DOMAIN Append(requests, e) :
              \/ i \in DOMAIN requests /\ Append(requests, e)[i] = requests[i]
              \/ Append(requests, e)[i] = e
        BY <1>0, AppendAny
      <3>3. e.no = issued + 1
        OBVIOUS
      <3> HIDE DEF e
      <3> QED
        BY <1>0, <3>1, <3>2, <3>3 DEF Current
    <2>2. CASE request_failed(method)
      BY <1>1, <1>2, <2>2 DEF request_failed
    <2> QED
      BY <1>2, <2>1, <2>2 DEF call
  <1>3. CASE AppCalls
    <2>1. CASE begin_and_attach
      BY <1>2, <2>1 DEF begin_and_attach
    <2>2. ASSUME NEW handle \in handles, client_detach(handle)
          PROVE  Current(n) /\ abandoned \subseteq abandoned'
      BY <1>2, <2>2 DEF client_detach
    <2>3. CASE reattach_connected
      <3> DEFINE e == [no |-> issued + 1, id |-> 1, method |-> "begin",
                       over |-> 0, signature |-> "none"]
      <3>1. requests' = << e >> /\ e.no = issued + 1
        BY <2>3 DEF reattach_connected
      <3> HIDE DEF e
      <3>2. \A i \in DOMAIN requests' : requests'[i] = e
        BY <3>1
      <3> QED
        BY <1>0, <3>1, <3>2
    <2>4. CASE reattach_broken
      BY <1>0, <2>4 DEF reattach_broken
    <2>5. CASE handle_next_sign_callback
      BY <1>1, <2>5 DEF handle_next_sign_callback, connection
    <2> QED
      BY <1>3, <2>1, <2>2, <2>3, <2>4, <2>5 DEF AppCalls, reattach
  <1>4. CASE ClientStep \/ recv_fails
    <2>1. CASE recv_fails
      BY <1>1, <2>1 DEF recv_fails, Return
    <2>2. ASSUME NEW decision \in Decisions, authorize(decision)
          PROVE  Current(n) /\ abandoned \subseteq abandoned'
      BY <1>1, <2>2 DEF authorize, send_reply, reply_sent, reply_failed, Return
    <2>3. CASE recv_frame
      <3> DEFINE frame == Head(inbox)
      <3>1. /\ up' = up
            /\ \/ recv_unparsable(frame)
               \/ read_answer(frame)
               \/ read_callback(frame) /\ UNCHANGED << requests, unanswered, issued >>
        BY <2>3 DEF recv_frame
      <3> HIDE DEF frame
      <3>2. CASE recv_unparsable(frame)
        BY <1>1, <3>1, <3>2 DEF recv_unparsable, Return
      <3>3. CASE read_answer(frame)
        <4>1. CASE op = "begin" /\ begin_answered(frame) /\ try_sign # "none"
          BY <1>2, <3>1, <4>1 DEF begin_answered
        <4>2. CASE ~ (op = "begin" /\ begin_answered(frame) /\ try_sign # "none")
          <5>1. requests' = requests /\ abandoned \subseteq abandoned'
            BY <3>3, <4>2 DEF read_answer, begin_answered, attach_answered, detach_answered, Return
          <5> QED
            BY <1>1, <3>1, <5>1
        <4> QED
          BY <4>1, <4>2
      <3>4. CASE read_callback(frame) /\ UNCHANGED << requests, unanswered, issued >>
        <4>1. abandoned \subseteq abandoned'
          BY <3>4
            DEF read_callback, give_up, service_malformed, service_bad_base64, ask_policy,
                send_reply, reply_sent, reply_failed, Return
        <4> QED
          BY <1>1, <3>1, <3>4, <4>1
      <3> QED
        BY <3>1, <3>2, <3>3, <3>4
    <2> QED
      BY <1>4, <2>1, <2>2, <2>3 DEF ClientStep, recv_eof
  <1>5. CASE PeerStep
    <2>1. requests' = requests /\ abandoned' = abandoned /\ (up' => up)
      BY <1>5 DEF PeerStep, PeerAnswers, PeerCallsBack, PeerSendsJunk, PeerCloses, Deliver
    <2> QED
      BY <1>1, <2>1
  <1>6. CASE UserLocks
    BY <1>1, <1>6 DEF UserLocks, connection
  <1>7. CASE UNCHANGED client
    BY <1>1, <1>7 DEF client, connection
  <1> QED
    BY <1>3, <1>4, <1>5, <1>6, <1>7 DEF ClientNext

\* An answer that grants a session is read by the attach it answers, unless
\* that attach was given up.
LEMMA SessionIsRead ==
  ASSUME TypeInv, Correlated, TablesInv, [ClientNext]_client,
         NEW n, IsSession(n), OnItsWay(n)
  PROVE  \/ OnItsWay(n)'
         \/ ~ Current(n)' \/ n \in abandoned'
         \/ n = issued /\ handles' = handles \cup {n}
PROOF
  <1>0. /\ inbox \in Seq(Frames) /\ requests \in Seq(RequestType)
        /\ n \in 1 .. issued /\ issued \in Nat /\ n # 0 /\ n # issued + 1
    <2>1. n \in 1 .. issued /\ issued \in Nat
      BY TableFields DEF IsSession
    <2> QED
      BY <2>1 DEF TypeInv, ClientTypeOK, RequestType
  <1>1. PICK i \in DOMAIN inbox : inbox[i].kind = "answer" /\ inbox[i].to = n
    BY DEF OnItsWay
  <1>2. inbox' = inbox => OnItsWay(n)'
    BY <1>1 DEF OnItsWay
  <1>3. ASSUME Current(n)', n \notin abandoned', inbox' # inbox
        PROVE  OnItsWay(n)' \/ (n = issued /\ handles' = handles \cup {n})
    <2>0. Current(n) /\ n \notin abandoned
      BY <1>0, <1>3, ConnectionStays
    <2>1. CASE AppCalls
      <3>1. \/ inbox' = inbox
            \/ reattach_connected \/ reattach_broken
        BY <2>1
          DEF AppCalls, begin_and_attach, client_detach, handle_next_sign_callback, connection,
              reattach
      <3>2. CASE reattach_connected
        <4> DEFINE e == [no |-> issued + 1, id |-> 1, method |-> "begin",
                         over |-> 0, signature |-> "none"]
        <4>1. requests' = << e >> /\ e.no = issued + 1
          BY <3>2 DEF reattach_connected
        <4> HIDE DEF e
        <4>2. \A j \in DOMAIN requests' : requests'[j] = e
          BY <4>1
        <4> QED
          BY <1>0, <1>3, <4>1, <4>2 DEF Current
      <3>3. CASE reattach_broken
        BY <1>3, <3>3 DEF reattach_broken, Current
      <3> QED
        BY <1>3, <3>1, <3>2, <3>3
    <2>2. CASE recv_frame
      <3> DEFINE frame == Head(inbox)
      <3>1. /\ inbox # << >> /\ inbox' = Tail(inbox) /\ frame = inbox[1] /\ 1 \in DOMAIN inbox
            /\ frame.kind = "answer" => read_answer(frame)
        <4>1. /\ inbox # << >> /\ inbox' = Tail(inbox)
              /\ \/ frame.kind = "unparsable"
                 \/ frame.kind = "answer" /\ read_answer(frame)
                 \/ frame.kind = "sign"
          BY <2>2 DEF recv_frame
        <4>2. frame = inbox[1] /\ 1 \in DOMAIN inbox
          BY <4>1, TailKeeps
        <4> QED
          BY <4>1, <4>2
      <3>2. CASE i # 1
        <4>1. i - 1 \in DOMAIN inbox' /\ inbox'[i - 1] = inbox[i]
          <5>1. /\ Len(inbox) \in Nat /\ DOMAIN inbox = 1 .. Len(inbox) /\ i \in Nat
                /\ inbox' \in Seq(Frames) /\ Len(inbox') = Len(inbox) - 1
                /\ \A j \in 1 .. Len(inbox) - 1 : inbox'[j] = inbox[j + 1]
            BY <1>0, <1>1, <3>1, LenProperties, HeadTailProperties
          <5>2. DOMAIN inbox' = 1 .. Len(inbox) - 1
            BY <5>1, LenProperties
          <5>3. i - 1 \in 1 .. Len(inbox) - 1 /\ i - 1 + 1 = i
            BY <1>1, <3>2, <5>1
          <5> QED
            BY <5>1, <5>2, <5>3
        <4> QED
          BY <1>1, <4>1 DEF OnItsWay
      <3>3. CASE i = 1
        <4>1. frame.kind = "answer" /\ frame.to = n /\ read_answer(frame)
          BY <1>1, <3>1, <3>3
        <4>2. op \in Methods /\ n = Awaited
          BY <1>0, <1>1, <2>0 DEF Correlated, OutstandingIsWaited, Waited
        <4>3. /\ Awaited = issued /\ params[issued].method = op
          BY <4>2, AwaitedIsLast
        <4>4. PICK j \in DOMAIN requests : requests[j].no = n
          BY <2>0 DEF Current
        <4>5. id_matches(frame)
          BY <2>0, <3>1, <4>1, <4>2, <4>4, MismatchIsEarlier
        <4>6. op = "attach"
          <5>1. op \in {"begin", "attach", "detach"}
            BY <4>2 DEF Methods
          <5>2. n \in DOMAIN answers /\ answers[n].kind = "session" /\ Fits(op, answers[n])
            BY <4>2, <4>3 DEF IsSession, TablesInv, AnswersFit
          <5> QED
            BY <5>1, <5>2 DEF Fits
        <4>7. frame.body = "ok"
          <5>1. frame.body = BodyOf(answers[n])
            BY <1>1, <3>1, <3>3 DEF TablesInv, InboxFits
          <5> QED
            BY <5>1 DEF IsSession, BodyOf
        <4>8. answer_verdict(frame) = "Ok"
          BY <4>5, <4>7 DEF answer_verdict
        <4>9. attach_answered(frame)
          BY <4>1, <4>6, <4>8 DEF read_answer
        <4> QED
          BY <4>1, <4>2, <4>3, <4>9 DEF attach_answered
      <3> QED
        BY <3>2, <3>3
    <2>3. CASE PeerStep
      <3>1. \/ inbox' = inbox
            \/ \E f : inbox' = Append(inbox, f)
        BY <2>3 DEF PeerStep, PeerAnswers, PeerCallsBack, PeerSendsJunk, PeerCloses, Deliver
      <3>2. PICK f : inbox' = Append(inbox, f)
        BY <1>3, <3>1
      <3>3. i \in DOMAIN Append(inbox, f) /\ Append(inbox, f)[i] = inbox[i]
        <4>1. i \in 1 .. Len(inbox) /\ Len(inbox) \in Nat
          BY <1>0, <1>1, LenProperties
        <4> QED
          BY <1>0, <4>1
      <3> QED
        BY <1>1, <3>2, <3>3 DEF OnItsWay
    <2>4. CASE recv_fails \/ (ClientStep /\ ~ recv_frame)
      BY <1>3, <2>4 DEF ClientStep, recv_eof, recv_fails, authorize
    <2>5. CASE UserLocks \/ UNCHANGED client
      BY <1>3, <2>5 DEF UserLocks, client, connection
    <2> QED
      BY <2>1, <2>2, <2>3, <2>4, <2>5 DEF ClientNext
  <1> QED
    BY <1>2, <1>3

-----------------------------------------------------------------------------
(***************************************************************************)
(* What the answers say of the engine.  A challenge is a begin of its own, *)
(* with the fields of the request; a session was opened for the request's  *)
(* DID and for the key both its attach and its begin named.                *)
(***************************************************************************)
BegunFor(n) ==
  \E i \in DOMAIN begins :
    /\ begins[i].candidate = answers[n].candidate
    /\ begins[i].handshake =
         [nonce |-> answers[n].nonce, advertised_key |-> params[n].key,
          profile_did |-> params[n].did]

ChallengesAreBegins ==
  /\ \A n \in DOMAIN answers : IsChallenge(n) => BegunFor(n)
  /\ \A n, m \in DOMAIN answers :
       IsChallenge(n) /\ IsChallenge(m) /\ answers[n].candidate = answers[m].candidate => n = m

OpenedFor(n) ==
  \E s \in opened :
    /\ s.session_id = answers[n].session_id
    /\ s.did = params[n].did
    /\ s.published = params[n].key /\ s.published = params[n - 1].key

SessionsAgree ==
  /\ \A n \in DOMAIN answers : IsSession(n) => OpenedFor(n)
  /\ \A n, m \in DOMAIN answers :
       IsSession(n) /\ IsSession(m) /\ answers[n].session_id = answers[m].session_id => n = m

\* Begins, opened sessions, requests and answers are only ever added to.
Grows ==
  /\ \A i \in DOMAIN begins : i \in DOMAIN begins' /\ begins'[i] = begins[i]
  /\ opened \subseteq opened'
  /\ \A n \in DOMAIN params : n \in DOMAIN params' /\ params'[n] = params[n]
  /\ \A n \in DOMAIN answers : n \in DOMAIN answers' /\ answers'[n] = answers[n]

LEMMA BeginsGrow ==
  ASSUME EngineInv, BeginSpares
  PROVE  \A i \in DOMAIN begins : i \in DOMAIN begins' /\ begins'[i] = begins[i]
PROOF
  <1>1. \A i \in 1 .. Len(begins) : i \in 1 .. Len(begins) + 1
    <2>1. Len(begins) \in Nat
      BY LenProperties DEF EngineInv, CapacityInv, EngineTypeOK
    <2> QED
      BY <2>1
  <1> QED
    BY <1>1 DEF BeginSpares

\* How a request that is served gets its answer.
LEMMA ServedAnswers ==
  ASSUME TablesInv, NEW n \in backlog, NEW answer, Served(n, answer)
  PROVE  /\ params' = params /\ backlog' = backlog \ {n} /\ issued' = issued
         /\ n \in DOMAIN params /\ n \notin DOMAIN answers
         /\ DOMAIN answers' = DOMAIN answers \cup {n} /\ answers'[n] = answer
         /\ \A m \in DOMAIN answers : answers'[m] = answers[m]
PROOF
  <1>1. /\ params' = params /\ backlog' = backlog \ {n} /\ Reply(n, BodyOf(answer))
        /\ answers' = [m \in DOMAIN answers \cup {n} |-> IF m = n THEN answer ELSE answers[m]]
    BY DEF Served, Answered, BodyOf
  <1>2. n \in DOMAIN params /\ n \notin DOMAIN answers
    BY TableFields
  <1>3. issued' = issued
    <2>1. CASE Current(n)
      BY <1>1, <2>1 DEF Reply, Deliver
    <2>2. CASE ~ Current(n)
      BY <1>1, <2>2 DEF Reply, client, connection
    <2> QED
      BY <2>1, <2>2
  <1> QED
    BY <1>1, <1>2, <1>3

LEMMA SystemGrows ==
  ASSUME TablesInv, EngineInv, SystemMoves
  PROVE  Grows
PROOF
  <1>0. \A n \in backlog : params[n].did \in DIDs /\ params[n].key \in Keys
    <2>1. \A n \in backlog : params[n] \in Request
      BY ParamFields DEF TablesInv, TypeOK
    <2> QED
      BY <2>1 DEF Request
  <1>1. UNCHANGED << begins, opened, params, answers >> => Grows
    BY DEF Grows
  <1>2. ASSUME NEW rec, Sent(rec)
        PROVE  Grows
    <2>1. \A n \in DOMAIN params : n \in DOMAIN params' /\ params'[n] = params[n]
      <3>1. /\ DOMAIN params' = 1 .. issued + 1 /\ DOMAIN params = 1 .. issued /\ issued \in Nat
            /\ \A n \in DOMAIN params : params'[n] = params[n]
        BY <1>2, ParamsAppend, ParamFields DEF TablesInv, Sent
      <3> QED
        BY <3>1
    <2> QED
      BY <1>2, <2>1 DEF Grows, Sent, engine, history
  <1>3. CASE Opens
    BY <1>1, <1>3 DEF Opens, engine, history
  <1>4. ASSUME NEW n \in backlog, NEW answer, Served(n, answer),
               \A i \in DOMAIN begins : i \in DOMAIN begins' /\ begins'[i] = begins[i],
               opened \subseteq opened'
        PROVE  Grows
    <2>1. /\ params' = params /\ DOMAIN answers' = DOMAIN answers \cup {n}
          /\ \A m \in DOMAIN answers : answers'[m] = answers[m]
      BY <1>4, ServedAnswers
    <2> QED
      BY <1>4, <2>1 DEF Grows
  <1>5. ASSUME NEW n \in backlog, ServedBegin(n)
        PROVE  Grows
    <2>1. BeginSpares /\ opened' = opened
      BY <1>0, <1>5, BeginServed DEF ServedBegin
    <2> QED
      BY <1>4, <1>5, <2>1, BeginsGrow DEF ServedBegin
  <1>6. ASSUME NEW n \in backlog, ServedAttach(n)
        PROVE  Grows
    <2>1. begins' = begins /\ opened \subseteq opened'
      BY <1>0, <1>6, AttachServed DEF ServedAttach, Opening
    <2> QED
      BY <1>4, <1>6, <2>1 DEF ServedAttach
  <1>7. ASSUME NEW n \in backlog, ServedDetach(n)
        PROVE  Grows
    <2>1. begins' = begins /\ opened' = opened
      BY <1>7, DetachServed DEF ServedDetach
    <2> QED
      BY <1>4, <1>7, <2>1 DEF ServedDetach
  <1>8. CASE Quiet /\ QuietEngine
    <2>1. UNCHANGED << params, answers >>
      BY <1>8 DEF Quiet
    <2>2. ASSUME NEW did \in DIDs, NEW k \in Keys, OtherBegins(did, k)
          PROVE  Grows
      <3>1. BeginSpares /\ opened' = opened
        BY <2>2, BeginServed DEF OtherBegins
      <3> QED
        BY <2>1, <3>1, BeginsGrow DEF Grows
    <2>3. ASSUME ~ \E did \in DIDs, k \in Keys : OtherBegins(did, k)
          PROVE  Grows
      <3>1. UNCHANGED << begins, opened >>
        BY <1>8, <2>3
          DEF QuietEngine, engine, history, RepublishKey, Republish, CleanUp, detach, Restart
      <3> QED
        BY <1>1, <2>1, <3>1
    <2> QED
      BY <2>2, <2>3
  <1> QED
    BY <1>2, <1>3, <1>5, <1>6, <1>7, <1>8
      DEF SystemMoves, SentBegin, SentAttach, SentDetach

LEMMA ChallengesKept ==
  ASSUME TablesInv, EngineInv, SystemMoves, ChallengesAreBegins
  PROVE  ChallengesAreBegins'
PROOF
  <1>0. /\ Grows
        /\ \A n \in backlog : params[n].did \in DIDs /\ params[n].key \in Keys
        /\ DOMAIN answers \subseteq DOMAIN params
    <2>1. \A n \in backlog : params[n] \in Request
      BY ParamFields DEF TablesInv, TypeOK
    <2> QED
      BY <2>1, SystemGrows, TableFields DEF Request
  <1>1. ASSUME NEW n \in DOMAIN answers, IsChallenge(n)
        PROVE  BegunFor(n)'
    BY <1>0, <1>1 DEF ChallengesAreBegins, BegunFor, Grows
  <1>2. ASSUME \A n \in DOMAIN answers' : n \in DOMAIN answers \/ answers'[n].kind # "challenge"
        PROVE  ChallengesAreBegins'
    BY <1>0, <1>1, <1>2 DEF ChallengesAreBegins, IsChallenge, Grows
  <1>3. answers' = answers => ChallengesAreBegins'
    BY <1>2
  <1>4. ASSUME NEW n \in backlog, ServedBegin(n)
        PROVE  ChallengesAreBegins'
    <2>1. /\ EngineInv' /\ begins'[Len(begins')] = NewBegin(params[n].did, params[n].key)
          /\ BeginSpares
      BY <1>0, <1>4, BeginServed DEF ServedBegin
    <2>2. /\ DOMAIN answers' = DOMAIN answers \cup {n} /\ answers'[n] = Challenge
          /\ \A m \in DOMAIN answers : answers'[m] = answers[m]
          /\ params' = params
      BY <1>4, ServedAnswers DEF ServedBegin
    <2>3. Len(begins') \in DOMAIN begins' /\ drawn \in Nat
      <3>1. Len(begins) \in Nat /\ drawn \in Nat
        BY LenProperties DEF EngineInv, CapacityInv, EngineTypeOK
      <3> QED
        BY <2>1, <3>1 DEF BeginSpares
    <2>4. BegunFor(n)'
      <3>1. /\ begins'[Len(begins')].candidate = drawn + 2
            /\ begins'[Len(begins')].handshake =
                 [nonce |-> drawn + 1, advertised_key |-> params[n].key,
                  profile_did |-> params[n].did]
        BY <2>1 DEF NewBegin
      <3>2. answers'[n].candidate = drawn + 2 /\ answers'[n].nonce = drawn + 1
        BY <2>2 DEF Challenge
      <3> QED
        BY <2>2, <2>3, <3>1, <3>2 DEF BegunFor
    <2>5. ASSUME NEW m \in DOMAIN answers, IsChallenge(m)
          PROVE  answers'[m].candidate # answers'[n].candidate
      <3>1. PICK i \in DOMAIN begins : begins[i].candidate = answers[m].candidate
        BY <2>5 DEF ChallengesAreBegins, BegunFor
      <3>2. begins[i].candidate \in Nat /\ begins[i].candidate <= drawn
        <4>1. begins[i] \in [candidate: Token, handshake: PendingCandidate]
          <5>1. begins \in Seq([candidate: Token, handshake: PendingCandidate])
            BY DEF EngineInv, CapacityInv, EngineTypeOK
          <5> QED
            BY <5>1, ElementOfSeq, LenProperties
        <4> QED
          BY <4>1 DEF EngineInv, AgreementInv, BeginsAreFresh, Token
      <3>3. answers'[n].candidate = drawn + 2
        BY <2>2 DEF Challenge
      <3> QED
        BY <2>2, <2>3, <3>1, <3>2, <3>3
    <2> QED
      BY <1>1, <2>2, <2>4, <2>5 DEF ChallengesAreBegins, IsChallenge
  <1>5. ASSUME NEW n \in backlog, ServedAttach(n) \/ ServedDetach(n)
        PROVE  ChallengesAreBegins'
    <2>1. PICK answer : Served(n, answer) /\ answer.kind # "challenge"
      BY <1>5 DEF ServedAttach, ServedDetach, Session, Refused
    <2> QED
      BY <1>2, <2>1, ServedAnswers
  <1> QED
    BY <1>3, <1>4, <1>5
      DEF SystemMoves, SentBegin, SentAttach, SentDetach, Sent, Opens, Quiet

\* A pending handshake is the one its begin was answered with.
LEMMA PendingIsChallenge ==
  ASSUME EngineInv, ChallengesAreBegins, NEW n \in DOMAIN answers, IsChallenge(n),
         answers[n].candidate \in DOMAIN pending
  PROVE  pending[answers[n].candidate] =
           [nonce |-> answers[n].nonce, advertised_key |-> params[n].key,
            profile_did |-> params[n].did]
PROOF
  <1>1. PICK i \in DOMAIN begins :
          /\ begins[i].candidate = answers[n].candidate
          /\ begins[i].handshake =
               [nonce |-> answers[n].nonce, advertised_key |-> params[n].key,
                profile_did |-> params[n].did]
    BY DEF ChallengesAreBegins, BegunFor
  <1>2. PICK j \in DOMAIN begins :
          /\ begins[j].candidate = answers[n].candidate
          /\ begins[j].handshake = pending[answers[n].candidate]
    BY DEF EngineInv, AgreementInv, PendingWasBegun
  <1>3. i = j
    BY <1>1, <1>2 DEF EngineInv, AgreementInv, BeginsAreFresh
  <1> QED
    BY <1>1, <1>2, <1>3

LEMMA SessionsAgreeKept ==
  ASSUME TablesInv, EngineInv, SystemMoves, ChallengesAreBegins, SessionsAgree
  PROVE  SessionsAgree'
PROOF
  <1>0. /\ Grows
        /\ \A n \in backlog : params[n].did \in DIDs /\ params[n].key \in Keys
        /\ DOMAIN answers \subseteq DOMAIN params
    <2>1. \A n \in backlog : params[n] \in Request
      BY ParamFields DEF TablesInv, TypeOK
    <2> QED
      BY <2>1, SystemGrows, TableFields DEF Request
  <1>1. ASSUME NEW n \in DOMAIN answers, IsSession(n)
        PROVE  OpenedFor(n)'
    <2>1. n - 1 \in DOMAIN params
      <3>1. params[n] \in Request /\ Fits(params[n].method, answers[n])
        BY <1>0, ParamFields DEF TablesInv, AnswersFit
      <3>2. params[n].method = "attach"
        BY <1>1, <3>1 DEF Request, Methods, Fits, IsSession
      <3> QED
        BY <1>0, <3>2 DEF TablesInv, AttachFollowsBegin
    <2> QED
      BY <1>0, <1>1, <2>1 DEF SessionsAgree, OpenedFor, Grows
  <1>2. ASSUME \A n \in DOMAIN answers' : n \in DOMAIN answers \/ answers'[n].kind # "session"
        PROVE  SessionsAgree'
    BY <1>0, <1>1, <1>2 DEF SessionsAgree, IsSession, Grows
  <1>3. answers' = answers => SessionsAgree'
    BY <1>2
  <1>4. ASSUME NEW n \in backlog, ServedAttach(n)
        PROVE  SessionsAgree'
    <2> DEFINE c == answers[n - 1].candidate
               did == params[n].did
    <2>1. /\ IsChallenge(n - 1) /\ params[n].did = params[n - 1].did
          /\ attach(c, SignatureOf(n), did)
          /\ Served(n, IF VerdictOn(n) = "Ok" THEN Session ELSE Refused(n, VerdictOn(n)))
      BY <1>4 DEF ServedAttach
    <2>2. /\ DOMAIN answers' = DOMAIN answers \cup {n}
          /\ answers'[n] = IF VerdictOn(n) = "Ok" THEN Session ELSE Refused(n, VerdictOn(n))
          /\ \A m \in DOMAIN answers : answers'[m] = answers[m]
          /\ params' = params
      BY <2>1, ServedAnswers
    <2>3. CASE VerdictOn(n) # "Ok"
      <3>1. answers'[n].kind = "error"
        BY <2>2, <2>3 DEF Refused
      <3> QED
        BY <1>2, <2>2, <3>1
    <2>4. CASE VerdictOn(n) = "Ok"
      <3>1. answers'[n].kind = "session" /\ answers'[n].session_id = drawn + 1
        BY <2>2, <2>4 DEF Session
      <3>2. Opening(c, SignatureOf(n), did)
        BY <1>0, <2>1, <2>4, AttachServed DEF VerdictOn
      <3>3. /\ c \in DOMAIN pending
            /\ published[did] = pending[c].advertised_key
            /\ SignatureOf(n) =
                 [key |-> published[did], over |-> challenge_message(pending[c].nonce, did)]
        BY <1>0, <2>4, OkVerdict DEF VerdictOn, EngineInv, CapacityInv
      <3>4. pending[c].advertised_key = params[n - 1].key
        <4>1. pending[c] = [nonce |-> answers[n - 1].nonce, advertised_key |-> params[n - 1].key,
                            profile_did |-> params[n - 1].did]
          BY <2>1, <3>3, PendingIsChallenge DEF IsChallenge
        <4> QED
          BY <4>1
      <3>5. params[n].key = published[did]
        BY <3>3 DEF SignatureOf
      <3>6. OpenedFor(n)'
        <4>1. NewSession(c, SignatureOf(n), did) \in opened'
          BY <3>2 DEF Opening
        <4>2. /\ NewSession(c, SignatureOf(n), did).session_id = drawn + 1
              /\ NewSession(c, SignatureOf(n), did).did = did
              /\ NewSession(c, SignatureOf(n), did).published = published[did]
          BY DEF NewSession
        <4> QED
          BY <2>2, <3>1, <3>3, <3>4, <3>5, <4>1, <4>2 DEF OpenedFor
      <3>7. ASSUME NEW m \in DOMAIN answers, IsSession(m)
            PROVE  answers[m].session_id # drawn + 1
        BY <3>2, <3>7 DEF SessionsAgree, OpenedFor, Opening
      <3> QED
        BY <1>1, <2>2, <3>1, <3>6, <3>7 DEF SessionsAgree, IsSession
    <2> QED
      BY <2>3, <2>4
  <1>5. ASSUME NEW n \in backlog, ServedBegin(n) \/ ServedDetach(n)
        PROVE  SessionsAgree'
    <2>1. PICK answer : Served(n, answer) /\ answer.kind # "session"
      BY <1>5 DEF ServedBegin, ServedDetach, Challenge
    <2> QED
      BY <1>2, <2>1, ServedAnswers
  <1> QED
    BY <1>3, <1>4, <1>5
      DEF SystemMoves, SentBegin, SentAttach, SentDetach, Sent, Opens, Quiet

-----------------------------------------------------------------------------
(***************************************************************************)
(* A challenge the app may still attach to has not been spent, and is      *)
(* pending unless MAX_PENDING_CANDIDATES begins came after it.             *)
(***************************************************************************)
Spared(c) ==
  /\ c \notin spent
  /\ \E i \in DOMAIN begins :
       /\ begins[i].candidate = c
       /\ c \in DOMAIN pending \/ Len(begins) - i >= MAX_PENDING_CANDIDATES

Expected(b) ==
  /\ IsChallenge(b)
  /\ \/ Current(b) /\ b = issued
     \/ b + 1 \in backlog /\ params[b + 1].method = "attach"

ChallengesWait == \A b \in DOMAIN answers : Expected(b) => Spared(answers[b].candidate)

LEMMA BeginSparesOthers ==
  ASSUME EngineInv, BeginSpares, spent' = spent, NEW c, Spared(c)
  PROVE  Spared(c)'
PROOF
  <1>1. PICK i \in DOMAIN begins :
          /\ begins[i].candidate = c
          /\ c \in DOMAIN pending \/ Len(begins) - i >= MAX_PENDING_CANDIDATES
    BY DEF Spared
  <1>2. Len(begins) \in Nat /\ MAX_PENDING_CANDIDATES \in Nat
    BY LenProperties, EngineAssumption DEF EngineInv, CapacityInv, EngineTypeOK
  <1>3. i \in 1 .. Len(begins) /\ i \in DOMAIN begins' /\ Len(begins') = Len(begins) + 1
    BY <1>1, BeginsGrow DEF BeginSpares
  <1>4. /\ begins'[i].candidate = c
        /\ c \in DOMAIN pending => c \in DOMAIN pending' \/ Len(begins) + 1 - i >= MAX_PENDING_CANDIDATES
    BY <1>1, <1>3 DEF BeginSpares
  <1>5. c \in DOMAIN pending' \/ Len(begins') - i >= MAX_PENDING_CANDIDATES
    BY <1>1, <1>2, <1>3, <1>4
  <1> QED
    BY <1>3, <1>4, <1>5 DEF Spared

LEMMA OthersSpared ==
  ASSUME NEW c, Spared(c), begins' = begins, c \in DOMAIN pending => c \in DOMAIN pending',
         c \notin spent'
  PROVE  Spared(c)'
PROOF
  BY DEF Spared

LEMMA ChallengesWaitKept ==
  ASSUME TypeInv, TablesInv, EngineInv, SystemMoves, ChallengesAreBegins, ChallengesWait,
         \A n \in 1 .. issued : Current(n)' => Current(n)
  PROVE  ChallengesWait'
PROOF
  <1>0. /\ Grows /\ issued \in Nat /\ DOMAIN params = 1 .. issued
        /\ DOMAIN answers \subseteq DOMAIN params
        /\ \A n \in backlog : params[n].did \in DIDs /\ params[n].key \in Keys
        /\ issued + 1 \notin DOMAIN params
    <2>1. \A n \in backlog : params[n] \in Request
      BY ParamFields DEF TablesInv, TypeOK
    <2> QED
      BY <2>1, SystemGrows, TableFields DEF Request
  <1>1. ASSUME NEW b \in DOMAIN answers, Expected(b)', issued' = issued, params' = params,
               backlog' \subseteq backlog
        PROVE  Expected(b) /\ Spared(answers[b].candidate) /\ answers'[b] = answers[b]
    <2>1. answers'[b] = answers[b] /\ (Current(b)' => Current(b))
      BY <1>0 DEF Grows
    <2>2. Expected(b)
      BY <1>1, <2>1 DEF Expected, IsChallenge
    <2> QED
      BY <2>1, <2>2 DEF ChallengesWait
  <1>2. ASSUME answers' = answers, UNCHANGED << issued, params, engine >>, backlog' \subseteq backlog
        PROVE  ChallengesWait'
    BY <1>1, <1>2 DEF ChallengesWait, Spared, engine, registry, history
  <1>3. ASSUME NEW rec, SentBegin(rec) \/ SentAttach(rec) \/ SentDetach(rec)
        PROVE  ChallengesWait'
    <2>1. Sent(rec) /\ (rec.method = "attach" => Current(issued))
      BY <1>3 DEF SentBegin, SentAttach, SentDetach
    <2>2. /\ issued' = issued + 1 /\ backlog' = backlog \cup {issued + 1} /\ answers' = answers
          /\ params'[issued + 1] = rec
          /\ \A n \in DOMAIN params : params'[n] = params[n]
          /\ UNCHANGED << pending, begins, spent >>
      BY <2>1, ParamsAppend DEF Sent, TablesInv, engine, registry, history
    <2> SUFFICES ASSUME NEW b \in DOMAIN answers, Expected(b)'
                 PROVE  Spared(answers[b].candidate)
      BY <2>2 DEF ChallengesWait, Spared
    <2>3. b \in DOMAIN params /\ b \in Nat /\ b # issued + 1
      BY <1>0
    <2>4. IsChallenge(b) /\ b + 1 \in backlog' /\ params'[b + 1].method = "attach"
      BY <2>2, <2>3 DEF Expected, IsChallenge
    <2>5. CASE b + 1 \in backlog
      <3>1. params'[b + 1] = params[b + 1]
        BY <2>2, <2>5, TableFields
      <3> QED
        BY <2>4, <2>5, <3>1 DEF ChallengesWait, Expected
    <2>6. CASE b + 1 = issued + 1
      <3>1. b = issued /\ rec.method = "attach"
        BY <1>0, <2>2, <2>3, <2>4, <2>6
      <3> QED
        BY <2>1, <2>4, <3>1 DEF ChallengesWait, Expected
    <2> QED
      BY <2>2, <2>4, <2>5, <2>6
  <1>4. CASE Opens
    BY <1>2, <1>4 DEF Opens
  <1>5. ASSUME NEW n \in backlog, ServedBegin(n)
        PROVE  ChallengesWait'
    <2>1. /\ EngineInv' /\ BeginSpares /\ spent' = spent
          /\ begins'[Len(begins')] = NewBegin(params[n].did, params[n].key)
      BY <1>0, <1>5, BeginServed DEF ServedBegin
    <2>2. /\ DOMAIN answers' = DOMAIN answers \cup {n} /\ answers'[n] = Challenge
          /\ UNCHANGED << issued, params >> /\ backlog' \subseteq backlog
      BY <1>5, ServedAnswers DEF ServedBegin
    <2>3. Spared(answers[n].candidate)'
      <3>1. Len(begins) \in Nat /\ drawn \in Nat
        BY LenProperties DEF EngineInv, CapacityInv, EngineTypeOK
      <3>2. /\ Len(begins') \in DOMAIN begins'
            /\ begins'[Len(begins')].candidate \in DOMAIN pending'
        BY <2>1, <3>1 DEF BeginSpares
      <3>3. begins'[Len(begins')].candidate = drawn + 2 /\ answers'[n].candidate = drawn + 2
        BY <2>1, <2>2 DEF NewBegin, Challenge
      <3>4. drawn + 2 \notin spent'
        <4>1. \A x \in spent : x \in Nat /\ x <= drawn
          BY DEF EngineInv, AgreementInv, SpentIsGone, CapacityInv, EngineTypeOK, Token
        <4> QED
          BY <2>1, <3>1, <4>1
      <3> QED
        BY <3>2, <3>3, <3>4 DEF Spared
    <2>4. ASSUME NEW b \in DOMAIN answers, Expected(b)'
          PROVE  Spared(answers[b].candidate)'
      <3>1. Spared(answers[b].candidate) /\ answers'[b] = answers[b]
        BY <1>1, <2>2, <2>4
      <3> QED
        BY <2>1, <3>1, BeginSparesOthers
    <2> QED
      BY <2>2, <2>3, <2>4 DEF ChallengesWait
  <1>6. ASSUME NEW n \in backlog, ServedAttach(n)
        PROVE  ChallengesWait'
    <2> DEFINE c == answers[n - 1].candidate
    <2>1. /\ IsChallenge(n - 1) /\ params[n].method = "attach"
          /\ attach(c, SignatureOf(n), params[n].did)
          /\ Served(n, IF VerdictOn(n) = "Ok" THEN Session ELSE Refused(n, VerdictOn(n)))
      BY <1>6 DEF ServedAttach
    <2>2. /\ DOMAIN answers' = DOMAIN answers \cup {n} /\ answers'[n].kind # "challenge"
          /\ UNCHANGED << issued, params >> /\ backlog' = backlog \ {n}
          /\ n \in DOMAIN params
      <3>1. PICK answer : Served(n, answer) /\ answer.kind # "challenge"
        BY <2>1 DEF Session, Refused
      <3> QED
        BY <3>1, ServedAnswers
    <2>3. /\ begins' = begins /\ DOMAIN pending \ {c} \subseteq DOMAIN pending'
          /\ spent' \subseteq spent \cup {c}
      BY <1>0, <2>1, AttachServed
    <2> SUFFICES ASSUME NEW b \in DOMAIN answers, Expected(b)'
                 PROVE  Spared(answers[b].candidate)'
      BY <2>2 DEF ChallengesWait, Expected, IsChallenge
    <2>4. Expected(b) /\ Spared(answers[b].candidate) /\ answers'[b] = answers[b]
      BY <1>1, <2>2
    <2>5. answers[b].candidate # c
      <3>1. b # n - 1
        <4>1. b + 1 = n => b # issued
          BY <1>0, <2>2
        <4>2. b \in Nat
          BY <1>0
        <4>3. b = n - 1 => b + 1 = n
          BY <1>0, <2>2, <4>2
        <4> QED
          BY <2>2, <4>1, <4>3 DEF Expected
      <3> QED
        BY <2>1, <2>4, <3>1 DEF ChallengesAreBegins, IsChallenge, Expected
    <2> HIDE DEF c
    <2>6. /\ answers[b].candidate \in DOMAIN pending => answers[b].candidate \in DOMAIN pending'
          /\ answers[b].candidate \notin spent'
      BY <2>3, <2>4, <2>5 DEF Spared
    <2> QED
      BY <2>3, <2>4, <2>6, OthersSpared
  <1>7. ASSUME NEW n \in backlog, ServedDetach(n)
        PROVE  ChallengesWait'
    <2>1. UNCHANGED << pending, begins, spent >>
      BY <1>7, DetachServed DEF ServedDetach
    <2>2. /\ DOMAIN answers' = DOMAIN answers \cup {n} /\ answers'[n].kind = "detached"
          /\ UNCHANGED << issued, params >> /\ backlog' \subseteq backlog
      <3>1. PICK answer : Served(n, answer) /\ answer.kind = "detached"
        BY <1>7 DEF ServedDetach
      <3> QED
        BY <3>1, ServedAnswers
    <2> SUFFICES ASSUME NEW b \in DOMAIN answers, Expected(b)'
                 PROVE  Spared(answers[b].candidate)'
      BY <2>2 DEF ChallengesWait, Expected, IsChallenge
    <2>3. Spared(answers[b].candidate) /\ answers'[b] = answers[b]
      BY <1>1, <2>2
    <2> QED
      BY <2>1, <2>3 DEF Spared
  <1>8. CASE Quiet /\ QuietEngine
    <2>1. UNCHANGED << answers, params, issued >> /\ backlog' \subseteq backlog
      BY <1>8 DEF Quiet
    <2> SUFFICES ASSUME NEW b \in DOMAIN answers, Expected(b)'
                 PROVE  Spared(answers[b].candidate)'
      BY <2>1 DEF ChallengesWait
    <2>2. Spared(answers[b].candidate)
      BY <1>1, <2>1
    <2>3. ASSUME NEW did \in DIDs, NEW k \in Keys, OtherBegins(did, k)
          PROVE  Spared(answers[b].candidate)'
      <3>1. BeginSpares /\ spent' = spent
        BY <2>3, BeginServed DEF OtherBegins
      <3> QED
        BY <2>1, <2>2, <3>1, BeginSparesOthers
    <2>4. CASE Restart
      <3>1. backlog' = {} /\ ~ up'
        BY <2>4 DEF Restart, PeerCloses, client, connection
      <3> QED
        BY <3>1 DEF Expected, Current
    <2>5. ASSUME ~ \E did \in DIDs, k \in Keys : OtherBegins(did, k), ~ Restart
          PROVE  Spared(answers[b].candidate)'
      <3>1. UNCHANGED << pending, begins, spent >>
        BY <1>8, <2>5
          DEF QuietEngine, engine, registry, history, RepublishKey, Republish, CleanUp, detach
      <3> QED
        BY <2>1, <2>2, <3>1 DEF Spared
    <2> QED
      BY <2>3, <2>4, <2>5
  <1> QED
    BY <1>3, <1>4, <1>5, <1>6, <1>7, <1>8 DEF SystemMoves

(***************************************************************************)
(* Every refusal has one of the causes of error_code, with the begin that  *)
(* was evicted.                                                            *)
(***************************************************************************)
Caused(n) ==
  /\ IsChallenge(n - 1)
  /\ \/ /\ answers[n].code = "AUTH_REQUIRED"
        /\ \/ answers[n].published = NoKey
           \/ \E i \in DOMAIN begins :
                /\ begins[i].candidate = answers[n - 1].candidate
                /\ answers[n].begun - i >= MAX_PENDING_CANDIDATES
     \/ /\ answers[n].code = "BAD_MAC"
        /\ params[n].key # params[n - 1].key \/ answers[n].published # params[n - 1].key

RefusalsCaused == \A n \in DOMAIN answers : answers[n].kind = "error" => Caused(n)

\* Only an attach is answered with a session or an error.
LEMMA AttachAnswered ==
  ASSUME TablesInv, NEW n \in DOMAIN answers, answers[n].kind \in {"session", "error"}
  PROVE  /\ params[n].method = "attach" /\ n \in DOMAIN params
         /\ n - 1 \in DOMAIN answers /\ n - 1 \in DOMAIN params
         /\ params[n].over = n - 1 /\ params[n].did = params[n - 1].did
PROOF
  <1>1. n \in DOMAIN params /\ DOMAIN answers \subseteq DOMAIN params
    BY TableFields
  <1>2. params[n] \in Request /\ Fits(params[n].method, answers[n])
    BY <1>1, ParamFields DEF TablesInv, AnswersFit
  <1>3. params[n].method = "attach"
    BY <1>2 DEF Request, Methods, Fits
  <1> QED
    BY <1>1, <1>3 DEF TablesInv, AttachFollowsBegin

LEMMA RefusalsKept ==
  ASSUME TablesInv, EngineInv, SystemMoves, ChallengesAreBegins, ChallengesWait, RefusalsCaused
  PROVE  RefusalsCaused'
PROOF
  <1>0. /\ Grows
        /\ \A n \in backlog : params[n].did \in DIDs /\ params[n].key \in Keys
    <2>1. \A n \in backlog : params[n] \in Request
      BY ParamFields DEF TablesInv, TypeOK
    <2> QED
      BY <2>1, SystemGrows DEF Request
  <1>1. ASSUME NEW n \in DOMAIN answers, answers[n].kind = "error"
        PROVE  Caused(n)' /\ answers'[n] = answers[n]
    <2>1. Caused(n) /\ n \in DOMAIN params /\ n - 1 \in DOMAIN answers /\ n - 1 \in DOMAIN params
      BY <1>1, AttachAnswered DEF RefusalsCaused
    <2>2. /\ answers'[n] = answers[n] /\ answers'[n - 1] = answers[n - 1]
          /\ params'[n] = params[n] /\ params'[n - 1] = params[n - 1]
          /\ n - 1 \in DOMAIN answers'
          /\ \A i \in DOMAIN begins : i \in DOMAIN begins' /\ begins'[i] = begins[i]
      BY <1>0, <2>1 DEF Grows
    <2> QED
      BY <2>1, <2>2 DEF Caused, IsChallenge
  <1>2. ASSUME \A n \in DOMAIN answers' : n \in DOMAIN answers \/ answers'[n].kind # "error"
        PROVE  RefusalsCaused'
    BY <1>0, <1>1, <1>2 DEF RefusalsCaused, Grows
  <1>3. answers' = answers => RefusalsCaused'
    BY <1>2
  <1>4. ASSUME NEW n \in backlog, ServedBegin(n) \/ ServedDetach(n)
        PROVE  RefusalsCaused'
    <2>1. PICK answer : Served(n, answer) /\ answer.kind # "error"
      BY <1>4 DEF ServedBegin, ServedDetach, Challenge
    <2> QED
      BY <1>2, <2>1, ServedAnswers
  <1>5. ASSUME NEW n \in backlog, ServedAttach(n)
        PROVE  RefusalsCaused'
    <2> DEFINE c == answers[n - 1].candidate
               did == params[n].did
               verdict == VerdictOn(n)
               answer == IF verdict = "Ok" THEN Session ELSE Refused(n, verdict)
    <2>1. /\ IsChallenge(n - 1) /\ params[n].did = params[n - 1].did
          /\ params[n].method = "attach"
          /\ attach(c, SignatureOf(n), did)
          /\ Served(n, answer)
      BY <1>5 DEF ServedAttach
    <2>2. /\ DOMAIN answers' = DOMAIN answers \cup {n} /\ answers'[n] = answer
          /\ \A m \in DOMAIN answers : answers'[m] = answers[m]
          /\ params' = params /\ n \in DOMAIN params
      <3> HIDE DEF answer
      <3> QED
        BY <2>1, ServedAnswers
    <2>3. CASE verdict = "Ok"
      <3>1. answers'[n].kind # "error"
        BY <2>2, <2>3 DEF Session
      <3> QED
        BY <1>2, <2>2, <3>1
    <2>4. CASE verdict # "Ok"
      <3>1. /\ answers'[n].code = error_code(verdict)
            /\ answers'[n].published = published[did] /\ answers'[n].begun = Len(begins)
        BY <2>2, <2>4 DEF Refused
      <3>2. begins' = begins /\ verdict \in Refusals
        BY <1>0, <2>1, <2>4, AttachServed DEF VerdictOn
      <3>3. Spared(c)
        <4>1. n - 1 + 1 = n
          BY <2>2, ParamFields DEF TablesInv
        <4>2. Expected(n - 1)
          BY <2>1, <4>1 DEF Expected
        <4> QED
          BY <2>1, <4>2 DEF ChallengesWait, IsChallenge
      <3>4. c \in DOMAIN pending =>
              pending[c] = [nonce |-> answers[n - 1].nonce, advertised_key |-> params[n - 1].key,
                            profile_did |-> did]
        BY <2>1, PendingIsChallenge DEF IsChallenge
      <3>5. IsChallenge(n - 1)' /\ answers'[n - 1] = answers[n - 1]
        BY <2>1, <2>2 DEF IsChallenge
      <3>6. CASE c \notin DOMAIN pending
        <4>1. verdict = "UnknownCandidate"
          BY <3>6 DEF VerdictOn, attach_verdict
        <4>2. PICK i \in DOMAIN begins :
                begins[i].candidate = c /\ Len(begins) - i >= MAX_PENDING_CANDIDATES
          BY <3>3, <3>6 DEF Spared
        <4>3. error_code(verdict) = "AUTH_REQUIRED"
          BY <4>1 DEF error_code
        <4>4. Caused(n)'
          BY <3>1, <3>2, <3>5, <4>2, <4>3 DEF Caused
        <4> QED
          BY <1>1, <2>2, <4>4 DEF RefusalsCaused
      <3>7. CASE c \in DOMAIN pending
        <4>1. pending[c].profile_did = did /\ pending[c].advertised_key = params[n - 1].key
              /\ pending[c].nonce = answers[n - 1].nonce
          BY <3>4, <3>7
        <4>2. SignatureOf(n) # BadText
          <5>1. answers[n - 1] \in AnswerTo
            BY <2>1 DEF TablesInv, TypeOK, IsChallenge
          <5>2. answers[n - 1].nonce \in Token
            BY <2>1, <5>1, AnswerFields DEF IsChallenge
          <5>3. SignatureOf(n) \in
                  [key: Keys, over: {challenge_message(x, d) : x \in Token, d \in DIDs}]
            BY <1>0, <5>2 DEF SignatureOf
          <5> QED
            BY <5>3, TextAssumption
        <4>3. \/ verdict = "UnknownDid" /\ published[did] = NoKey
              \/ verdict = "KeyMismatch" /\ published[did] # params[n - 1].key
              \/ verdict = "BadSignature" /\ params[n].key # params[n - 1].key
          <5>1. verify_signature(params[n - 1].key,
                                 challenge_message(answers[n - 1].nonce, did), SignatureOf(n))
                  <=> params[n].key = params[n - 1].key
            BY DEF verify_signature, SignatureOf
          <5> QED
            BY <2>4, <3>7, <4>1, <4>2, <5>1 DEF VerdictOn, attach_verdict
        <4>4. /\ error_code("UnknownDid") = "AUTH_REQUIRED"
              /\ error_code("KeyMismatch") = "BAD_MAC" /\ error_code("BadSignature") = "BAD_MAC"
          BY DEF error_code
        <4>5. Caused(n)'
          BY <2>2, <3>1, <3>5, <4>3, <4>4 DEF Caused
        <4> QED
          BY <1>1, <2>2, <4>5 DEF RefusalsCaused
      <3> QED
        BY <3>6, <3>7
    <2> QED
      BY <2>3, <2>4
  <1> QED
    BY <1>3, <1>4, <1>5
      DEF SystemMoves, SentBegin, SentAttach, SentDetach, Sent, Opens, Quiet

LEMMA RefusalFollows ==
  ASSUME TablesInv, EngineInv, RefusalsCaused
  PROVE  RefusalHasCause
PROOF
  <1> SUFFICES ASSUME NEW n \in DOMAIN answers, answers[n].kind = "error"
               PROVE  \/ /\ answers[n].code = "AUTH_REQUIRED"
                         /\ \/ answers[n].published = NoKey
                            \/ BegunAfter(n) >= MAX_PENDING_CANDIDATES
                      \/ /\ answers[n].code = "BAD_MAC"
                         /\ \/ params[n].key # params[params[n].over].key
                            \/ answers[n].published # params[params[n].over].key
    BY DEF RefusalHasCause
  <1>1. Caused(n) /\ params[n].over = n - 1
    BY AttachAnswered DEF RefusalsCaused
  <1>2. ASSUME NEW i \in DOMAIN begins, begins[i].candidate = answers[n - 1].candidate
        PROVE  BegunAfter(n) = answers[n].begun - i
    <2>1. \A j \in DOMAIN begins : begins[j].candidate = answers[n - 1].candidate => j = i
      BY <1>2 DEF EngineInv, AgreementInv, BeginsAreFresh
    <2>2. (CHOOSE j \in DOMAIN begins : begins[j].candidate = answers[n - 1].candidate) = i
      BY <1>2, <2>1
    <2> QED
      BY <1>1, <2>2 DEF BegunAfter
  <1> QED
    BY <1>1, <1>2 DEF Caused

-----------------------------------------------------------------------------
(***************************************************************************)
(* What becomes of a session: only the detach of its own handle, a host    *)
(* cleaning up after a connection that is gone, or a restart closes it.    *)
(***************************************************************************)
SessionsStay ==
  \A n \in DOMAIN answers : IsSession(n) /\ Current(n) /\ ~ DetachSent(n) => IsOpen(n)

\* What a step does to the sessions that were answered before.
LEMMA SessionsAfter ==
  ASSUME TablesInv, EngineInv, SystemMoves, SessionsAgree, NEW n \in DOMAIN answers, IsSession(n)
  PROVE  /\ IsSession(n)' /\ answers'[n] = answers[n]
         /\ IsOpen(n)' => IsOpen(n)
         /\ IsOpen(n) => \/ IsOpen(n)'
                         \/ DetachSent(n) \/ ~ Current(n) \/ ~ up'
PROOF
  <1>0. /\ IsSession(n)' /\ answers'[n] = answers[n]
        /\ \A m \in backlog : params[m].did \in DIDs
        /\ \A m \in DOMAIN answers :
             IsSession(m) /\ answers[m].session_id = answers[n].session_id => m = n
    <2>1. \A m \in backlog : params[m] \in Request
      BY ParamFields DEF TablesInv, TypeOK
    <2> QED
      BY <2>1, SystemGrows DEF Request, Grows, IsSession, SessionsAgree
  <1>1. sessions' = sessions => (IsOpen(n)' <=> IsOpen(n))
    BY <1>0 DEF IsOpen, IsSession
  <1>2. UNCHANGED engine => sessions' = sessions
    BY DEF engine, registry
  <1>3. ASSUME NEW m \in backlog, ServedBegin(m)
        PROVE  sessions' = sessions
    BY <1>3 DEF ServedBegin, begin_ok
  <1>4. ASSUME NEW m \in backlog, ServedAttach(m)
        PROVE  IsOpen(n)' <=> IsOpen(n)
    <2> DEFINE c == answers[m - 1].candidate
    <2>1. IF VerdictOn(m) = "Ok"
            THEN Opening(c, SignatureOf(m), params[m].did)
            ELSE UNCHANGED << sessions, opened >>
      BY <1>0, <1>4, AttachServed DEF ServedAttach, VerdictOn
    <2>2. \E s \in opened : s.session_id = answers[n].session_id
      BY DEF SessionsAgree, OpenedFor
    <2>3. CASE VerdictOn(m) = "Ok"
      BY <1>0, <2>1, <2>2, <2>3 DEF Opening, IsOpen, IsSession
    <2> QED
      BY <1>1, <2>1, <2>3
  <1>5. ASSUME NEW m \in backlog, ServedDetach(m)
        PROVE  /\ IsOpen(n)' => IsOpen(n)
               /\ IsOpen(n) => IsOpen(n)' \/ DetachSent(n)
    <2> DEFINE d == params[m].over
    <2>1. /\ DOMAIN sessions' = DOMAIN sessions \ {answers[d].session_id}
          /\ IsSession(d) /\ params[m].method = "detach" /\ m \in DOMAIN params
      BY <1>5, DetachServed, TableFields DEF ServedDetach
    <2>2. n = d => DetachSent(n)
      BY <2>1 DEF DetachSent
    <2>3. n # d => answers[d].session_id # answers[n].session_id
      BY <1>0, <2>1 DEF IsSession
    <2> QED
      BY <1>0, <2>1, <2>2, <2>3 DEF IsOpen, IsSession
  <1>6. CASE QuietEngine
    <2>1. ASSUME NEW m \in DOMAIN answers, CleanUp(m)
          PROVE  /\ IsOpen(n)' => IsOpen(n)
                 /\ IsOpen(n) => IsOpen(n)' \/ ~ Current(n)
      <3>1. /\ DOMAIN sessions' = DOMAIN sessions \ {answers[m].session_id}
            /\ IsSession(m) /\ ~ Current(m)
        BY <2>1, DetachServed DEF CleanUp, IsSession
      <3>2. n # m => answers[m].session_id # answers[n].session_id
        BY <1>0, <3>1
      <3> QED
        BY <1>0, <3>1, <3>2 DEF IsOpen, IsSession
    <2>2. CASE Restart
      <3>1. ~ up' /\ DOMAIN sessions' = {}
        BY <2>2, RestartKeeps DEF Restart, PeerCloses, client, connection
      <3> QED
        BY <1>0, <3>1 DEF IsOpen
    <2>3. CASE \/ \E did \in DIDs, k \in Keys : OtherBegins(did, k)
               \/ \E did \in DIDs, k \in Keys \cup {NoKey} : RepublishKey(did, k)
      <3>1. sessions' = sessions
        BY <2>3 DEF OtherBegins, begin_ok, RepublishKey, Republish, registry
      <3> QED
        BY <1>0, <1>1, <3>1
    <2> QED
      BY <1>0, <1>1, <1>2, <1>6, <2>1, <2>2, <2>3 DEF QuietEngine
  <1>7. (\E rec : SentBegin(rec) \/ SentAttach(rec) \/ SentDetach(rec)) \/ Opens
          => UNCHANGED engine
    BY DEF SentBegin, SentAttach, SentDetach, Sent, Opens
  <1> QED
    BY <1>0, <1>1, <1>2, <1>3, <1>4, <1>5, <1>6, <1>7 DEF SystemMoves

\* A session that is answered in this step was opened in this step.
LEMMA NewSessionIsOpen ==
  ASSUME TablesInv, EngineInv, SystemMoves, NEW n \in DOMAIN answers' \ DOMAIN answers,
         IsSession(n)'
  PROVE  IsOpen(n)' /\ n \in backlog /\ Served(n, answers'[n])
PROOF
  <1>0. \A m \in backlog : params[m].did \in DIDs
    <2>1. \A m \in backlog : params[m] \in Request
      BY ParamFields DEF TablesInv, TypeOK
    <2> QED
      BY <2>1 DEF Request
  <1>1. answers' # answers
    OBVIOUS
  <1>2. PICK m \in backlog : ServedBegin(m) \/ ServedAttach(m) \/ ServedDetach(m)
    BY <1>1 DEF SystemMoves, SentBegin, SentAttach, SentDetach, Sent, Opens, Quiet
  <1>3. PICK answer : /\ Served(m, answer)
                      /\ ServedBegin(m) => answer = Challenge
                      /\ ServedAttach(m) =>
                           answer = IF VerdictOn(m) = "Ok" THEN Session
                                    ELSE Refused(m, VerdictOn(m))
                      /\ ServedDetach(m) => answer = [kind |-> "detached"]
    <2>1. ServedBegin(m) => ~ ServedAttach(m) /\ ~ ServedDetach(m)
      BY DEF ServedBegin, ServedAttach, ServedDetach
    <2>2. ServedAttach(m) => ~ ServedDetach(m)
      BY DEF ServedAttach, ServedDetach
    <2> QED
      BY <1>2, <2>1, <2>2 DEF ServedBegin, ServedAttach, ServedDetach
  <1>4. m = n /\ answers'[n] = answer
    BY <1>3, ServedAnswers
  <1>5. answer.kind = "session"
    BY <1>4 DEF IsSession
  <1>6. ServedAttach(m) /\ VerdictOn(m) = "Ok" /\ answer = Session
    BY <1>2, <1>3, <1>5 DEF Challenge, Refused
  <1>7. Opening(answers[m - 1].candidate, SignatureOf(m), params[m].did)
    BY <1>0, <1>6, AttachServed DEF ServedAttach, VerdictOn
  <1>8. answers'[n].session_id \in DOMAIN sessions'
    BY <1>4, <1>6, <1>7 DEF Session, Opening
  <1> QED
    BY <1>2, <1>3, <1>4, <1>8 DEF IsOpen, IsSession

LEMMA SessionsStayKept ==
  ASSUME TablesInv, EngineInv, SystemMoves, SessionsAgree, SessionsStay,
         \A n \in 1 .. issued : Current(n)' => Current(n)
  PROVE  SessionsStay'
PROOF
  <1> SUFFICES ASSUME NEW n \in DOMAIN answers', IsSession(n)', Current(n)', ~ DetachSent(n)'
               PROVE  IsOpen(n)'
    BY DEF SessionsStay
  <1>1. CASE n \in DOMAIN answers
    <2>1. answers'[n] = answers[n] /\ IsSession(n)
      BY <1>1, SystemGrows DEF Grows, IsSession
    <2>2. Current(n)
      BY <1>1, TableFields
    <2>3. ~ DetachSent(n)
      BY SystemGrows DEF Grows, DetachSent
    <2>4. up'
      BY DEF Current
    <2> QED
      BY <1>1, <2>1, <2>2, <2>3, <2>4, SessionsAfter DEF SessionsStay
  <1>2. CASE n \notin DOMAIN answers
    BY <1>2, NewSessionIsOpen
  <1> QED
    BY <1>1, <1>2

LEMMA ListedFollows ==
  ASSUME TablesInv, SessionsStay
  PROVE  ListedIsLive
PROOF
  <1>1. ASSUME NEW did \in DOMAIN by_did
        PROVE  IsSession(by_did[did]) /\ by_did[did] \in DOMAIN answers
    BY TableFields DEF TablesInv, HandlesAreSessions
  <1> QED
    BY <1>1 DEF SessionsStay, ListedIsLive

LEMMA HalvesFollow ==
  ASSUME TablesInv, SessionsAgree
  PROVE  HalvesAgree
PROOF
  <1>1. ASSUME NEW n \in handles
        PROVE  /\ answers[n].kind = "session" /\ IsSession(n) /\ n \in DOMAIN answers
               /\ \E s \in opened :
                    /\ s.session_id = answers[n].session_id
                    /\ s.did = params[n].did /\ s.did = params[params[n].over].did
                    /\ s.published = params[n].key
                    /\ s.published = params[params[n].over].key
    <2>1. IsSession(n) /\ n \in DOMAIN answers /\ answers[n].kind = "session"
      BY TableFields DEF TablesInv, HandlesAreSessions, IsSession
    <2>2. params[n].over = n - 1 /\ params[n].did = params[n - 1].did
      BY <2>1, AttachAnswered
    <2> QED
      BY <2>1, <2>2 DEF SessionsAgree, OpenedFor
  <1>2. ASSUME NEW n \in handles, NEW m \in handles, answers[n] = answers[m]
        PROVE  n = m
    BY <1>1, <1>2 DEF SessionsAgree
  <1> QED
    BY <1>1, <1>2 DEF HalvesAgree

(***************************************************************************)
(* An open session had no detach served, and is listed, on its way, or     *)
(* lost for one of the reasons Lost gives.                                 *)
(***************************************************************************)
Accounted(n) == Listed(n) \/ OnItsWay(n) \/ Lost(n)

LEMMA HandlesGrow ==
  ASSUME SystemMoves
  PROVE  /\ handles \subseteq handles' /\ removed \subseteq removed'
         /\ handles' = handles \/ Opens
PROOF
  <1>1. ASSUME NEW n, NEW answer, Served(n, answer)
        PROVE  handles' = handles /\ removed' = removed
    BY <1>1 DEF Served, Answered, Reply, Deliver, client, control, app
  <1>2. ASSUME NEW n \in backlog, ServedBegin(n) \/ ServedAttach(n) \/ ServedDetach(n)
        PROVE  handles' = handles /\ removed' = removed
    BY <1>1, <1>2 DEF ServedBegin, ServedAttach, ServedDetach
  <1>3. ASSUME NEW rec, SentBegin(rec) \/ SentAttach(rec) \/ SentDetach(rec)
        PROVE  handles' = handles /\ removed' = removed
    BY <1>3 DEF SentBegin, SentAttach, SentDetach, Sent
  <1>4. Quiet => handles' = handles /\ removed \subseteq removed'
    BY DEF Quiet, Forgotten
  <1>5. Opens => handles \subseteq handles' /\ removed' = removed
    BY DEF Opens
  <1> QED
    BY <1>2, <1>3, <1>4, <1>5 DEF SystemMoves

\* A detach that is served closes its session, for good.
LEMMA NotEnded ==
  ASSUME TablesInv, EngineInv, SystemMoves, SessionsAgree, OrphanHasCause,
         NEW n, IsOpen(n)'
  PROVE  ~ Ended(n)'
PROOF
  <1> SUFFICES ASSUME NEW d \in DOMAIN answers', params'[d].method = "detach",
                      params'[d].over = n
               PROVE  FALSE
    BY DEF Ended
  <1>1. CASE d \in DOMAIN answers
    <2>1. params[d].method = "detach" /\ params[d].over = n
      BY <1>1, SystemGrows, TableFields DEF Grows
    <2>2. IsSession(n) /\ n \in DOMAIN answers
      BY <1>1, <2>1, TableFields DEF TablesInv, DetachesHandle, HandlesAreSessions, IsSession
    <2>3. IsOpen(n)
      BY <2>2, SessionsAfter
    <2> QED
      BY <1>1, <2>1, <2>2, <2>3 DEF OrphanHasCause, Ended
  <1>2. CASE d \notin DOMAIN answers
    <2>1. PICK m \in backlog : ServedBegin(m) \/ ServedAttach(m) \/ ServedDetach(m)
      BY <1>2 DEF SystemMoves, SentBegin, SentAttach, SentDetach, Sent, Opens, Quiet
    <2>2. params' = params /\ m = d
      BY <1>2, <2>1, ServedAnswers DEF ServedBegin, ServedAttach, ServedDetach
    <2>3. ServedDetach(d)
      BY <2>1, <2>2 DEF ServedBegin, ServedAttach
    <2>4. /\ DOMAIN sessions' = DOMAIN sessions \ {answers[n].session_id}
          /\ IsSession(n)
      BY <2>2, <2>3, DetachServed DEF ServedDetach
    <2>5. answers'[n] = answers[n]
      BY <2>4, SystemGrows DEF Grows, IsSession
    <2> QED
      BY <2>4, <2>5 DEF IsOpen
  <1> QED
    BY <1>1, <1>2

LEMMA LostStays ==
  ASSUME TypeInv, TablesInv, EngineInv, SystemMoves,
         NEW n \in DOMAIN answers,
         Current(n)' => Current(n) /\ abandoned \subseteq abandoned', Lost(n)
  PROVE  Lost(n)'
PROOF
  <1> SUFFICES ASSUME Current(n)'
               PROVE  Lost(n)'
    BY DEF Lost
  <1>0. /\ Grows /\ handles \subseteq handles' /\ removed \subseteq removed'
        /\ n \in DOMAIN params /\ handles \subseteq DOMAIN params
    BY SystemGrows, HandlesGrow, TableFields
  <1>1. CASE n \in abandoned
    BY <1>1 DEF Lost
  <1>2. ASSUME NEW m \in handles, m > n, params[m].did = params[n].did
        PROVE  Lost(n)'
    <2>1. m \in handles' /\ params'[m] = params[m] /\ params'[n] = params[n]
      BY <1>0 DEF Grows
    <2> QED
      BY <1>2, <2>1 DEF Lost
  <1>3. CASE n \in removed
    BY <1>0, <1>3 DEF Lost
  <1> QED
    BY <1>1, <1>2, <1>3 DEF Lost

LEMMA ListedStays ==
  ASSUME TypeInv, TablesInv, EngineInv, SystemMoves,
         NEW n \in DOMAIN answers, Listed(n)
  PROVE  Accounted(n)'
PROOF
  <1>0. /\ n \in DOMAIN params /\ params'[n] = params[n] /\ n \in handles
        /\ DOMAIN params = 1 .. issued /\ issued \in Nat
    BY SystemGrows, TableFields DEF Grows, Listed
  <1>1. by_did' = by_did => Accounted(n)'
    BY <1>0 DEF Listed, Accounted
  <1>2. CASE Forgotten
    <2>1. PICK profile \in DOMAIN by_did :
            by_did' = remove(profile) /\ removed' = removed \cup {by_did[profile]}
      BY <1>2 DEF Forgotten
    <2>2. CASE params[n].did = profile
      BY <2>1, <2>2 DEF Accounted, Lost, Listed
    <2>3. CASE params[n].did # profile
      BY <1>0, <2>1, <2>3 DEF Accounted, Listed, remove
    <2> QED
      BY <2>2, <2>3
  <1>3. CASE Opens
    <2>1. /\ by_did' = insert(params[issued].did, issued) /\ params' = params
          /\ issued \notin handles /\ issued \in handles'
      BY <1>3 DEF Opens
    <2>2. issued > n
      BY <1>0, <2>1
    <2>3. CASE params[n].did = params[issued].did
      BY <2>1, <2>2, <2>3 DEF Accounted, Lost
    <2>4. CASE params[n].did # params[issued].did
      BY <2>1, <2>4 DEF Accounted, Listed, insert
    <2> QED
      BY <2>3, <2>4
  <1> QED
    BY <1>1, <1>2, <1>3
      DEF SystemMoves, SentBegin, SentAttach, SentDetach, Sent, ServedBegin, ServedAttach,
          ServedDetach, Served, app, Quiet

LEMMA OrphanKept ==
  ASSUME TypeInv, Correlated, TablesInv, EngineInv, SystemMoves, [ClientNext]_client,
         SessionsAgree, OrphanHasCause
  PROVE  OrphanHasCause'
PROOF
  <1> SUFFICES ASSUME NEW n \in DOMAIN answers', IsOpen(n)'
               PROVE  Accounted(n)'
    BY NotEnded DEF OrphanHasCause, Accounted
  <1>0. IsSession(n)'
    BY DEF IsOpen, IsSession
  <1>1. CASE n \notin DOMAIN answers
    <2>1. n \in backlog /\ Served(n, answers'[n])
      BY <1>0, <1>1, NewSessionIsOpen
    <2>2. Answered(n, answers'[n])
      BY <2>1 DEF Served
    <2>3. n \in 1 .. issued
      BY <2>1, TableFields
    <2>4. CASE Current(n)
      <3>1. PICK id, body : inbox' = Append(inbox, Answer(n, id, body))
        BY <2>2, <2>4 DEF Answered, Reply, Deliver
      <3>2. inbox \in Seq(Frames)
        BY DEF TypeInv, ClientTypeOK
      <3>3. /\ Append(inbox, Answer(n, id, body))[Len(inbox) + 1] = Answer(n, id, body)
            /\ Len(inbox) + 1 \in DOMAIN Append(inbox, Answer(n, id, body))
        <4>1. /\ Append(inbox, Answer(n, id, body)) \in Seq(Frames \cup {Answer(n, id, body)})
              /\ Len(Append(inbox, Answer(n, id, body))) = Len(inbox) + 1
              /\ Append(inbox, Answer(n, id, body))[Len(inbox) + 1] = Answer(n, id, body)
          BY <3>2, AppendAny
        <4>2. Len(inbox) \in Nat
          BY <3>2, LenProperties
        <4>3. DOMAIN Append(inbox, Answer(n, id, body)) = 1 .. Len(inbox) + 1
          BY <4>1, LenProperties
        <4> QED
          BY <4>1, <4>2, <4>3
      <3>4. Answer(n, id, body).kind = "answer" /\ Answer(n, id, body).to = n
        BY DEF Answer
      <3> QED
        BY <3>1, <3>3, <3>4 DEF Accounted, OnItsWay
    <2>5. CASE ~ Current(n)
      <3>1. ~ Current(n)'
        BY <2>3, <2>5, ConnectionStays
      <3> QED
        BY <3>1 DEF Accounted, Lost
    <2> QED
      BY <2>4, <2>5
  <1>2. CASE n \in DOMAIN answers
    <2>1. IsSession(n) /\ IsOpen(n) /\ answers'[n] = answers[n] /\ params'[n] = params[n]
      <3>1. answers'[n] = answers[n] /\ params'[n] = params[n]
        BY <1>2, SystemGrows, TableFields DEF Grows
      <3>2. IsSession(n)
        BY <1>0, <1>2, <3>1 DEF IsSession
      <3> QED
        BY <1>2, <3>1, <3>2, SessionsAfter
    <2>2. Listed(n) \/ OnItsWay(n) \/ Lost(n)
      BY <1>2, <2>1 DEF OrphanHasCause
    <2>3. n \in 1 .. issued
      BY <1>2, TableFields
    <2>4. Current(n)' => Current(n) /\ abandoned \subseteq abandoned'
      BY <2>3, ConnectionStays
    <2>5. ~ Current(n)' => Accounted(n)'
      BY DEF Accounted, Lost
    <2>6. CASE Lost(n)
      BY <1>2, <2>4, <2>6, LostStays DEF Accounted
    <2>7. CASE Listed(n)
      BY <1>2, <2>7, ListedStays
    <2>8. CASE OnItsWay(n)
      <3>1. \/ OnItsWay(n)' \/ ~ Current(n)' \/ n \in abandoned'
            \/ n = issued /\ handles' = handles \cup {n}
        BY <2>1, <2>8, SessionIsRead
      <3>2. ASSUME n = issued, handles' = handles \cup {n}
            PROVE  Accounted(n)'
        <4>1. n \notin handles
          BY <2>8 DEF TablesInv, InboxFits, OnItsWay
        <4>2. Opens
          BY <3>2, <4>1, HandlesGrow
        <4>3. by_did' = insert(params[n].did, n)
          BY <3>2, <4>2 DEF Opens
        <4> QED
          BY <2>1, <4>3 DEF Accounted, Listed, insert
      <3> QED
        BY <2>5, <3>1, <3>2 DEF Accounted, Lost
    <2> QED
      BY <2>2, <2>6, <2>7, <2>8
  <1> QED
    BY <1>1, <1>2

-----------------------------------------------------------------------------
(***************************************************************************)
(* The inductive invariant of the two halves.  What holds of the client    *)
(* against any peer (ClientInv) is not part of it: EngineIsAllowedPeer     *)
(* gives it.                                                               *)
(***************************************************************************)
SystemInv ==
  /\ TablesInv /\ EngineInv
  /\ ChallengesAreBegins /\ SessionsAgree
  /\ ChallengesWait /\ RefusalsCaused
  /\ SessionsStay /\ OrphanHasCause

LEMMA SystemInit ==
  ASSUME Init
  PROVE  SystemInv
PROOF
  <1>1. /\ key \in Keys /\ DOMAIN by_did = {} /\ removed = {}
        /\ params = << >> /\ DOMAIN params = {}
        /\ backlog = {} /\ DOMAIN answers = {} /\ handles = {} /\ issued = 0
        /\ requests = << >> /\ DOMAIN requests = {} /\ DOMAIN inbox = {}
    BY DEF Init, ClientInit
  <1>2. TypeOK
    <2>1. params \in Seq(Request) /\ Len(params) = 0
      BY <1>1
    <2> QED
      BY <1>1, <2>1 DEF TypeOK
  <1>3. TablesInv
    BY <1>1, <1>2
      DEF TablesInv, RequestsMatch, AttachFollowsBegin, DetachesHandle, AnswersFit,
          HandlesAreSessions, InboxFits
  <1>4. EngineInv
    <2>1. /\ EngineInit /\ DOMAIN pending = {} /\ DOMAIN sessions = {} /\ DOMAIN begins = {}
          /\ spent = {} /\ opened = {}
      BY DEF Init, EngineInit
    <2>2. EngineTypeOK
      BY <2>1, EngineAssumption DEF EngineInit, EngineTypeOK
    <2>3. Cardinality(DOMAIN pending) = 0
      BY <2>1, FS_EmptySet
    <2>4. PendingIsQueued /\ PendingBounded
      BY <2>1, <2>3, EngineAssumption DEF PendingIsQueued, PendingBounded
    <2>5. AgreementInv
      BY <2>1 DEF AgreementInv, BeginsAreFresh, PendingWasBegun, SpentIsGone, OpenedOnce,
                  SessionsWereOpened, AllJustified
    <2>6. OrderInv
      BY <2>1, EmptySeq DEF EngineInit, OrderInv, Increasing, ToSet, BeginsIncrease
    <2>7. SessionsAreDrawn
      BY <2>1 DEF SessionsAreDrawn
    <2> QED
      BY <2>2, <2>4, <2>5, <2>6, <2>7 DEF EngineInv, CapacityInv
  <1> QED
    BY <1>1, <1>3, <1>4
      DEF SystemInv, ChallengesAreBegins, SessionsAgree, ChallengesWait, RefusalsCaused,
          SessionsStay, OrphanHasCause

LEMMA SystemInvKept ==
  ASSUME SystemInv, ClientInv, ClientInv', [ClientNext]_client, [Next]_vars
  PROVE  SystemInv'
PROOF
  <1>1. /\ TablesInv /\ EngineInv /\ ChallengesAreBegins /\ SessionsAgree
        /\ ChallengesWait /\ RefusalsCaused /\ SessionsStay /\ OrphanHasCause
    BY DEF SystemInv
  <1>2. TypeInv /\ Correlated /\ TypeInv'
    BY DEF ClientInv
  <1>3. /\ SystemMoves /\ TablesStep /\ key' \in Keys
        /\ (\E rec : Sent(rec)) \/ Opens => key' = key
    BY <1>1, <1>2, StepKinds
  <1>4. TablesInv' /\ EngineInv'
    BY <1>1, <1>2, <1>3, TablesKept, EngineKept
  <1>5. \A n \in 1 .. issued : Current(n)' => Current(n)
    BY <1>2, ConnectionStays
  <1>6. ChallengesAreBegins' /\ SessionsAgree'
    BY <1>1, <1>3, ChallengesKept, SessionsAgreeKept
  <1>7. ChallengesWait' /\ RefusalsCaused'
    BY <1>1, <1>2, <1>3, <1>5, ChallengesWaitKept, RefusalsKept
  <1>8. SessionsStay' /\ OrphanHasCause'
    BY <1>1, <1>2, <1>3, <1>5, SessionsStayKept, OrphanKept
  <1> QED
    BY <1>4, <1>6, <1>7, <1>8 DEF SystemInv

(***************************************************************************)
(* The invariant holds of every behaviour of the app (client.rs), the      *)
(* engine (engine.rs), the host between them and the other callers.        *)
(***************************************************************************)
THEOREM SystemInvariant == Spec => []SystemInv
PROOF
  <1>1. Init => SystemInv
    BY SystemInit
  <1>2. SystemInv /\ ClientInv /\ ClientInv' /\ [ClientNext]_client /\ [Next]_vars => SystemInv'
    BY SystemInvKept
  <1>3. Spec => [][ClientNext]_client
    BY EngineIsAllowedPeer, PTL DEF AllowedPeer, ClientSpec
  <1>4. Spec => []ClientInv
    BY EngineIsAllowedPeer, ClientInvHolds, PTL DEF AllowedPeer
  <1> QED
    BY <1>1, <1>2, <1>3, <1>4, PTL DEF Spec

(***************************************************************************)
(* The fields the host and the app exchange have their types: every        *)
(* handle the SessionRegistry lists is one the app was given, the requests *)
(* are those the client sent, and none is both waiting and answered.       *)
(***************************************************************************)
THEOREM SystemTypes == Spec => []TypeOK
PROOF
  <1>1. SystemInv => TypeOK
    BY DEF SystemInv, TablesInv
  <1> QED
    BY <1>1, SystemInvariant, PTL

(***************************************************************************)
(* The halves agree (client.rs begin_and_attach, engine.rs attach): behind *)
(* every handle is a session of its own, opened for the DID and the key    *)
(* the app named, for any number of requests, connections and restarts.    *)
(***************************************************************************)
THEOREM HalvesAgreeTheorem == Spec => []HalvesAgree
PROOF
  <1>1. SystemInv => HalvesAgree
    BY HalvesFollow DEF SystemInv
  <1> QED
    BY <1>1, SystemInvariant, PTL

(***************************************************************************)
(* An honest attach is refused only for a cause the app can act on         *)
(* (AttachError::error_code): no published key or eviction, a changed key. *)
(***************************************************************************)
THEOREM RefusalTheorem == Spec => []RefusalHasCause
PROOF
  <1>1. SystemInv => RefusalHasCause
    BY RefusalFollows DEF SystemInv
  <1> QED
    BY <1>1, SystemInvariant, PTL

(***************************************************************************)
(* A session the app lists, of the connection that is up, is open in the   *)
(* engine until its own detach is sent (SessionRegistry, "the app's map of *)
(* live sessions").                                                        *)
(***************************************************************************)
THEOREM ListedIsLiveTheorem == Spec => []ListedIsLive
PROOF
  <1>1. SystemInv => ListedIsLive
    BY ListedFollows DEF SystemInv
  <1> QED
    BY <1>1, SystemInvariant, PTL

(***************************************************************************)
(* A session the engine holds had no detach served, and if the app does    *)
(* not hold it (SessionRegistry::insert and ::remove,                      *)
(* EngineSessionRegistry::detach), it was lost in one of the four ways     *)
(* Lost lists, and in no other.                                            *)
(***************************************************************************)
THEOREM OrphanTheorem == Spec => []OrphanHasCause
PROOF
  <1>1. SystemInv => OrphanHasCause
    BY DEF SystemInv
  <1> QED
    BY <1>1, SystemInvariant, PTL
=============================================================================
