---------------------------- MODULE SessionClient ---------------------------
(***************************************************************************)
(* The app role-half (client.rs): SessionClient drives begin -> attach,    *)
(* detach and reattach over one connection, and services the `sign`        *)
(* callbacks that interleave.  The client is one thread: it blocks in      *)
(* recv_frame, in SignPolicy::authorize, and nowhere else, so an operation *)
(* is a run of atomic steps between those two calls.  In between, the peer *)
(* sends frames or closes the connection and the user locks the profile.   *)
(* Any read and any write may fail.                                        *)
(*                                                                         *)
(* The peer is not the engine of this crate but any peer that answers a    *)
(* request at most once and under its own id: late, out of order, with any *)
(* body, among callbacks, frames that do not parse and answers nobody      *)
(* asked for.  Requests are numbered over the whole run (ghost); an answer *)
(* carries the number of its request (ghost: `to`), which also stands for  *)
(* the nonce or the session id it grants.                                  *)
(***************************************************************************)
EXTENDS Integers, Sequences

CONSTANTS
  CallbackIds,                \* ids the peer gives its callbacks
  MAX_INTERLEAVED_CALLBACKS,  \* 64
  MaxRequests,                \* bound: requests over the whole run, ids on a connection
  MaxInbox                    \* bound: unread frames

ASSUME ClientAssumption ==
  /\ MAX_INTERLEAVED_CALLBACKS \in Nat
  /\ MaxRequests \in Nat
  /\ MaxInbox \in Nat \ {0}

VARIABLES
  op,          \* what the client is doing: the request awaited, or "handle"
  pc,          \* where it is: idle, blocked in recv, blocked in authorize
  next_id,
  awaited_id,
  callbacks_serviced,
  handles,     \* the session handles the app was given
  result,      \* how the last operation returned
  up, inbox,   \* the connection: still open, frames not read yet
  requests,    \* requests sent on this connection
  unanswered,  \* peer: requests of this connection it has not answered
  locked,      \* signer: the profile is locked
  issued,      \* ghost: requests sent over the whole run
  abandoned,   \* ghost: requests of this connection given up before their answer
  consumed,    \* ghost: callbacks read since the last request (or "handle")
  replies      \* ghost: what was answered to them

control == << op, pc, next_id, awaited_id, callbacks_serviced, handles, result >>
connection == << up, inbox, requests, unanswered, issued, abandoned >>
callbacks == << consumed, replies >>
client == << control, connection, locked, callbacks >>

Methods == {"begin", "attach", "detach"}
Outcomes ==
  {"Ok", "Denied", "Io", "Frame", "Engine", "IdMismatch", "MalformedResponse",
   "InvalidNonceLength", "NotASignCallback", "TooManyCallbacks", "Locked"}

(***************************************************************************)
(* Frames, as the client tells them apart.  A body is what the typed reader *)
(* makes of the answer: an error, neither error nor result, a result of    *)
(* another shape, a nonce that is not base64 or not NONCE_LEN bytes long.  *)
(* A frame with an unknown method, or an id that is null, foreign or not a *)
(* number, is an answer under id 0.                                        *)
(***************************************************************************)
Bodies(method) ==
  {"ok", "error", "none", "bad_type"} \cup
    (IF method = "begin" THEN {"bad_base64", "bad_length"} ELSE {})
Answer(to, id, body) == [kind |-> "answer", to |-> to, id |-> id, body |-> body]
Unparsable == [kind |-> "unparsable"]
Decisions == {"Allow", "Deny"}   \* SignDecision
Params == {"good", "malformed", "bad_base64", "long_type"}
Callback(id, params) == [kind |-> "sign", id |-> id, params |-> params]

Frames ==
  {Unparsable}
    \cup {Answer(to, id, body) : to \in 0 .. MaxRequests, id \in 0 .. MaxRequests,
                                 body \in Bodies("begin")}
    \cup {Callback(id, params) : id \in CallbackIds, params \in Params}

NoResult == [op |-> "none", outcome |-> "Ok", request |-> 0, answer |-> 0]

ClientInit ==
  /\ op = "none" /\ pc = "idle" /\ next_id = 1 /\ awaited_id = 0
  /\ callbacks_serviced = 0 /\ handles = {} /\ result = NoResult
  /\ up = TRUE /\ inbox = << >> /\ requests = << >> /\ unanswered = {}
  /\ locked \in BOOLEAN /\ issued = 0 /\ abandoned = {}
  /\ consumed = << >> /\ replies = << >>
-----------------------------------------------------------------------------
(***************************************************************************)
(* Operations: call, and how an operation returns.                         *)
(***************************************************************************)

\* The number of the request whose answer is awaited (0: none).
Awaited == IF op \in Methods THEN requests[Len(requests)].no ELSE 0

Return(outcome, answer) ==
  /\ op' = "none" /\ pc' = "idle" /\ awaited_id' = 0 /\ callbacks_serviced' = 0
  /\ result' = [op |-> op, outcome |-> outcome, request |-> Awaited, answer |-> answer]
  /\ abandoned' = abandoned \cup ({Awaited} \ {0, answer})

request_sent(method, id, over, signature) ==
  /\ up
  /\ op' = method /\ pc' = "recv"
  /\ awaited_id' = id /\ callbacks_serviced' = 0
  /\ issued' = issued + 1
  /\ requests' = Append(requests, [no |-> issued + 1, id |-> id, method |-> method,
                                   over |-> over, signature |-> signature])
  /\ unanswered' = unanswered \cup {issued + 1}
  /\ consumed' = << >> /\ replies' = << >>
  /\ UNCHANGED << result, abandoned >>

\* A write may fail on an open connection, too.  (If it fails when all of the
\* request has gone out, that is the request sent and its answer not read.)
request_failed(method) ==
  /\ op' = "none" /\ pc' = "idle"
  /\ awaited_id' = 0 /\ callbacks_serviced' = 0
  /\ result' = [op |-> method, outcome |-> "Io", request |-> 0, answer |-> 0]
  /\ UNCHANGED << issued, requests, unanswered, abandoned, callbacks >>

\* call: the id is taken first, whether or not the request can be sent.
call(method, id, over, signature) ==
  /\ next_id' = id + 1
  /\ request_sent(method, id, over, signature) \/ request_failed(method)

\* The bound on requests and ids.
CanSend(n) == issued + n <= MaxRequests /\ next_id + n <= MaxRequests + 1

begin_and_attach ==
  /\ pc = "idle" /\ CanSend(2)
  /\ call("begin", next_id, 0, "none")
  /\ UNCHANGED << handles, up, inbox, locked >>

\* The app may pass any handle it was ever given, whatever became of it.
client_detach(handle) ==
  /\ pc = "idle" /\ handle \in handles /\ CanSend(1)
  /\ call("detach", next_id, handle, "none")
  /\ UNCHANGED << handles, up, inbox, locked >>

\* Mutant: the ids start over, but on the old connection.
reattach_same_transport ==
  /\ pc = "idle" /\ issued + 2 <= MaxRequests
  /\ call("begin", 1, 0, "none")
  /\ UNCHANGED << handles, up, inbox, locked >>

\* reattach: a new connection, nothing sent or received on it, ids from 1; the
\* begin may fail to be sent on it.
reattach_connected ==
  /\ op' = "begin" /\ pc' = "recv" /\ next_id' = 2 /\ awaited_id' = 1
  /\ callbacks_serviced' = 0
  /\ up' = TRUE /\ inbox' = << >> /\ issued' = issued + 1 /\ abandoned' = {}
  /\ requests' = << [no |-> issued + 1, id |-> 1, method |-> "begin",
                     over |-> 0, signature |-> "none"] >>
  /\ unanswered' = {issued + 1}
  /\ consumed' = << >> /\ replies' = << >>
  /\ UNCHANGED << handles, result >>

reattach_broken ==
  /\ next_id' = 2
  /\ result' = [op |-> "begin", outcome |-> "Io", request |-> 0, answer |-> 0]
  /\ up' \in BOOLEAN /\ inbox' = << >> /\ abandoned' = {}
  /\ requests' = << >> /\ unanswered' = {}
  /\ UNCHANGED << op, pc, awaited_id, callbacks_serviced, handles, issued, callbacks >>

reattach ==
  /\ pc = "idle" /\ issued + 2 <= MaxRequests
  /\ reattach_connected \/ reattach_broken
  /\ UNCHANGED locked

handle_next_sign_callback ==
  /\ pc = "idle"
  /\ op' = "handle" /\ pc' = "recv"
  /\ consumed' = << >> /\ replies' = << >>
  /\ UNCHANGED << next_id, awaited_id, callbacks_serviced, handles, result, connection, locked >>
-----------------------------------------------------------------------------
(***************************************************************************)
(* Answers (read_response, begin_and_attach).                              *)
(***************************************************************************)

\* SessionSigner::try_sign: None when locked.  Mutant: sign, which yields the
\* all-zero fail-safe signature instead.
sign_infallibly == IF locked THEN "zero" ELSE "key"
try_sign == IF locked THEN "none" ELSE "key"

\* What an answer in the right shape, to the right id, comes to.
begin_answered(frame) ==
  IF try_sign = "none"
    THEN /\ Return("Locked", frame.to)
         /\ UNCHANGED << next_id, handles, requests, unanswered, issued, callbacks >>
    ELSE /\ call("attach", next_id, frame.to, try_sign)
         /\ UNCHANGED handles

attach_answered(frame) ==
  /\ handles' = handles \cup {frame.to}
  /\ Return("Ok", frame.to)
  /\ UNCHANGED << next_id, requests, unanswered, issued, callbacks >>

detach_answered(frame) ==
  /\ Return("Ok", frame.to)
  /\ UNCHANGED << next_id, handles, requests, unanswered, issued, callbacks >>

\* Why an answer fails the call, in the order of the code's checks.  Mutant:
\* the id is compared with the id of the next request.
id_matches_next(frame) == frame.id = next_id
id_matches(frame) == frame.id = awaited_id

answer_verdict(frame) ==
  IF ~ id_matches(frame) THEN "IdMismatch"
  ELSE CASE frame.body = "error" -> "Engine"
         [] frame.body \in {"none", "bad_base64"} -> "MalformedResponse"
         [] frame.body = "bad_type" -> "Frame"
         [] frame.body = "bad_length" -> "InvalidNonceLength"
         [] frame.body = "ok" -> "Ok"

read_answer(frame) ==
  IF op = "handle"
    THEN /\ Return("NotASignCallback", frame.to)
         /\ UNCHANGED << next_id, handles, requests, unanswered, issued, callbacks >>
    ELSE \/ /\ answer_verdict(frame) # "Ok"
            /\ Return(answer_verdict(frame), frame.to)
            /\ UNCHANGED << next_id, handles, requests, unanswered, issued, callbacks >>
         \/ answer_verdict(frame) = "Ok" /\ op = "begin" /\ begin_answered(frame)
         \/ answer_verdict(frame) = "Ok" /\ op = "attach" /\ attach_answered(frame)
         \/ answer_verdict(frame) = "Ok" /\ op = "detach" /\ detach_answered(frame)
-----------------------------------------------------------------------------
(***************************************************************************)
(* Callbacks (read_response, service_sign_callback).                       *)
(***************************************************************************)
Consume(frame) ==
  consumed' = Append(consumed, [id |-> frame.id, params |-> frame.params,
                                decision |-> "none"])

\* Mutants: no limit; one callback too few is serviced; the excess ones are
\* skipped and the call goes on.
no_limit == FALSE
too_many_at_limit == callbacks_serviced + 1 >= MAX_INTERLEAVED_CALLBACKS
too_many == callbacks_serviced + 1 > MAX_INTERLEAVED_CALLBACKS

skip_excess(frame) ==
  /\ op # "handle" /\ too_many
  /\ UNCHANGED << control, abandoned, callbacks >>
give_up(frame) ==
  /\ op # "handle" /\ too_many
  /\ Return("TooManyCallbacks", 0)
  /\ Consume(frame)
  /\ UNCHANGED << next_id, handles, replies >>

count_callback ==
  callbacks_serviced' = IF op = "handle" THEN callbacks_serviced ELSE callbacks_serviced + 1

\* The reply to a callback, and the decision reported for the audit log.
\* Mutants: the policy is not asked; a locked profile is reported as allowed.
ungated_body(params, decision) ==
  IF params \in {"bad_base64", "long_type"} THEN "SIGN_DENIED"
  ELSE IF try_sign = "none" THEN "LOCKED" ELSE try_sign
reply_body(params, decision) ==
  IF params = "bad_base64" \/ decision = "Deny" \/ params = "long_type" THEN "SIGN_DENIED"
  ELSE IF try_sign = "none" THEN "LOCKED"
  ELSE try_sign

report_policy(params, decision) == IF decision = "Allow" THEN "Ok" ELSE "Denied"
report(params, decision) ==
  IF reply_body(params, decision) \in {"SIGN_DENIED", "LOCKED"} THEN "Denied" ELSE "Ok"

\* send_result or send_error, then back to the read loop or to the caller.
\* Mutant: a denial is not sent.
reply_unless_denied(id, params, decision) ==
  /\ replies' = IF reply_body(params, decision) = "SIGN_DENIED" THEN replies
                ELSE Append(replies, [id |-> id, body |-> reply_body(params, decision)])
  /\ IF op = "handle"
       THEN Return(report(params, decision), 0)
       ELSE /\ pc' = "recv" /\ count_callback
            /\ UNCHANGED << op, awaited_id, result, abandoned >>
reply_sent(id, params, decision) ==
  /\ up
  /\ replies' = Append(replies, [id |-> id, body |-> reply_body(params, decision)])
  /\ IF op = "handle"
       THEN Return(report(params, decision), 0)
       ELSE /\ pc' = "recv" /\ count_callback
            /\ UNCHANGED << op, awaited_id, result, abandoned >>
reply_failed == Return("Io", 0) /\ UNCHANGED replies
send_reply(id, params, decision) == reply_sent(id, params, decision) \/ reply_failed

service_malformed(frame) ==
  /\ frame.params = "malformed"
  /\ Return("Frame", 0)
  /\ UNCHANGED replies

service_bad_base64(frame) ==
  /\ frame.params = "bad_base64"
  /\ send_reply(frame.id, frame.params, "none")

ask_policy(frame) ==
  /\ frame.params \in {"good", "long_type"}
  /\ pc' = "authorize"
  /\ UNCHANGED << op, awaited_id, callbacks_serviced, result, abandoned, replies >>

read_callback(frame) ==
  \/ give_up(frame)
  \/ /\ op = "handle" \/ ~ too_many
     /\ Consume(frame)
     /\ service_malformed(frame) \/ service_bad_base64(frame) \/ ask_policy(frame)
     /\ UNCHANGED << next_id, handles >>

\* authorize returns; the reply follows without blocking.
authorize(decision) ==
  LET n == Len(consumed)
  IN  /\ pc = "authorize"
      /\ consumed' = [consumed EXCEPT ![n].decision = decision]
      /\ send_reply(consumed[n].id, consumed[n].params, decision)
      /\ UNCHANGED << next_id, handles, up, inbox, requests, unanswered, issued, locked >>

\* recv_frame returns an error: the read failed, also on an open connection, or
\* the line was too long or not UTF-8 (what such a line leaves behind, if
\* anything, is read as frames that do not parse).
recv_fails ==
  /\ pc = "recv"
  /\ Return("Io", 0)
  /\ UNCHANGED << next_id, handles, up, inbox, requests, unanswered, issued, callbacks, locked >>

\* The frames of a closed connection are read before its end is.
recv_eof == inbox = << >> /\ ~ up /\ recv_fails

recv_unparsable(frame) ==
  /\ Return("Frame", 0)
  /\ UNCHANGED << next_id, handles, requests, unanswered, issued, callbacks >>

recv_frame ==
  /\ pc = "recv" /\ inbox # << >>
  /\ inbox' = Tail(inbox)
  /\ LET frame == Head(inbox)
     IN  \/ frame.kind = "unparsable" /\ recv_unparsable(frame)
         \/ frame.kind = "answer" /\ read_answer(frame)
         \/ /\ frame.kind = "sign" /\ read_callback(frame)
            /\ UNCHANGED << requests, unanswered, issued >>
  /\ UNCHANGED << up, locked >>
-----------------------------------------------------------------------------
(***************************************************************************)
(* The peer and the user.                                                  *)
(***************************************************************************)
Deliver(frame) ==
  /\ up /\ Len(inbox) < MaxInbox
  /\ inbox' = Append(inbox, frame)
  /\ UNCHANGED << control, up, requests, issued, abandoned, callbacks, locked >>

PeerAnswers ==
  \E i \in DOMAIN requests : \E body \in Bodies(requests[i].method) :
    /\ requests[i].no \in unanswered
    /\ unanswered' = unanswered \ {requests[i].no}
    /\ Deliver(Answer(requests[i].no, requests[i].id, body))

PeerCallsBack ==
  /\ \E id \in CallbackIds, params \in Params : Deliver(Callback(id, params))
  /\ UNCHANGED unanswered

PeerSendsJunk ==
  /\ \E frame \in {Unparsable, Answer(0, 0, "none")} : Deliver(frame)
  /\ UNCHANGED unanswered

PeerCloses ==
  /\ up /\ up' = FALSE
  /\ UNCHANGED << control, inbox, requests, unanswered, issued, abandoned, callbacks, locked >>

PeerStep == PeerAnswers \/ PeerCallsBack \/ PeerSendsJunk \/ PeerCloses

UserLocks ==
  /\ locked' = ~ locked
  /\ UNCHANGED << control, connection, callbacks >>

AppCalls ==
  \/ begin_and_attach \/ reattach \/ handle_next_sign_callback
  \/ \E handle \in handles : client_detach(handle)

ClientStep ==
  recv_eof \/ recv_frame \/ \E decision \in Decisions : authorize(decision)

ClientNext == AppCalls \/ ClientStep \/ recv_fails \/ PeerStep \/ UserLocks

ClientSpec == ClientInit /\ [][ClientNext]_client

(***************************************************************************)
(* recv_frame returns when there is a frame or the end of the connection,  *)
(* and authorize returns (it is the user's prompt).  The code has no       *)
(* timeout: a peer that neither sends nor closes blocks the call for ever, *)
(* so the peer is assumed not to fall silent while the connection is up.   *)
(* A read that fails is a fault: it may happen, and need not.              *)
(***************************************************************************)
FairClientSpec == ClientSpec /\ WF_client(ClientStep) /\ WF_client(PeerStep)
-----------------------------------------------------------------------------
ClientTypeOK ==
  /\ op \in Methods \cup {"none", "handle"}
  /\ pc \in {"idle", "recv", "authorize"}
  /\ next_id \in 1 .. MaxRequests + 1
  /\ awaited_id \in 0 .. MaxRequests
  /\ callbacks_serviced \in 0 .. MAX_INTERLEAVED_CALLBACKS
  /\ handles \subseteq 1 .. MaxRequests
  /\ result \in [op: Methods \cup {"none", "handle"}, outcome: Outcomes,
                 request: 0 .. MaxRequests, answer: 0 .. MaxRequests]
  /\ up \in BOOLEAN
  /\ inbox \in Seq(Frames) /\ Len(inbox) <= MaxInbox
  /\ requests \in Seq([no: 1 .. MaxRequests, id: 1 .. MaxRequests, method: Methods,
                       over: 0 .. MaxRequests, signature: {"none", "key", "zero"}])
  /\ unanswered \subseteq 1 .. MaxRequests
  /\ locked \in BOOLEAN
  /\ issued \in 0 .. MaxRequests
  /\ abandoned \subseteq 1 .. MaxRequests
  /\ consumed \in Seq([id: CallbackIds, params: Params,
                       decision: Decisions \cup {"none"}])
  /\ replies \in Seq([id: CallbackIds, body: {"key", "zero", "SIGN_DENIED", "LOCKED"}])

(***************************************************************************)
(* Correlation (read_response; the ids of call and reattach): a call that  *)
(* an answer ends, except as a mismatch, is ended by the answer to its own *)
(* request, never by a late answer to a request an earlier call gave up,   *)
(* on this connection or one before it; and the challenge an attach signs  *)
(* is the one its own begin was answered with.                             *)
(***************************************************************************)
OwnAnswers ==
  /\ result.answer # 0 /\ result.outcome \notin {"IdMismatch", "NotASignCallback"}
       => result.answer = result.request
  /\ \A i \in DOMAIN requests :
       requests[i].method = "attach" =>
         /\ i > 1
         /\ requests[i - 1].method = "begin"
         /\ requests[i].over = requests[i - 1].no

(***************************************************************************)
(* Desynchronisation has one cause (IdMismatch, "a desynchronized          *)
(* channel"): an answer that some request on this connection really got is *)
(* refused as a mismatch only if a failed call had given that request up.  *)
(* In particular the first call after a reattach cannot be refused so.     *)
(***************************************************************************)
MismatchIsStale ==
  /\ pc = "idle" /\ result.outcome = "IdMismatch"
  /\ result.answer \in {requests[i].no : i \in DOMAIN requests}
  => result.answer \in abandoned /\ result.answer < result.request

(***************************************************************************)
(* Custody (service_sign_callback, begin_and_attach; SPEC section 3.4): a  *)
(* signature on the wire was allowed by the policy, for that callback, and *)
(* the all-zero signature of a locked profile is never on the wire, when-  *)
(* ever the profile was locked.                                            *)
(***************************************************************************)
Custody ==
  /\ \A i \in DOMAIN replies :
       replies[i].body \in {"key", "zero"} =>
         /\ replies[i].body = "key"
         /\ consumed[i].decision = "Allow" /\ consumed[i].params = "good"
  /\ \A i \in DOMAIN requests : requests[i].signature # "zero"

(***************************************************************************)
(* Every callback that is read is answered once, under its own id, in      *)
(* order, before the call goes on; the one exception is the last callback  *)
(* of a call that fails because of it or of the connection.                *)
(***************************************************************************)
CallbacksAnswered ==
  /\ Len(consumed) - Len(replies) \in {0, 1}
  /\ \A i \in DOMAIN replies : replies[i].id = consumed[i].id
  /\ Len(consumed) > Len(replies) =>
       \/ pc = "authorize"
       \/ pc = "idle" /\ result.outcome \in {"TooManyCallbacks", "Frame", "Io"}

(***************************************************************************)
(* The flood limit (bounds.rs MAX_INTERLEAVED_CALLBACKS): a call services  *)
(* up to that many callbacks and gives up on exactly the next one.         *)
(***************************************************************************)
FloodLimit ==
  /\ op \in Methods => Len(replies) <= MAX_INTERLEAVED_CALLBACKS
  /\ result.outcome = "TooManyCallbacks" /\ pc = "idle" =>
       /\ Len(replies) = MAX_INTERLEAVED_CALLBACKS
       /\ Len(consumed) = MAX_INTERLEAVED_CALLBACKS + 1

(***************************************************************************)
(* The decision handle_next_sign_callback reports for the audit log is     *)
(* Allow exactly when a signature went out, also when the profile was      *)
(* locked after the policy had allowed the callback.                       *)
(***************************************************************************)
AuditIsTruthful ==
  pc = "idle" /\ result.op = "handle" /\ result.outcome \in {"Ok", "Denied"} =>
    /\ Len(replies) = 1
    /\ result.outcome = "Ok" <=> replies[1].body = "key"

(***************************************************************************)
(* Every operation returns, whatever callbacks the peer floods the client  *)
(* with (read_response's limit).                                           *)
(***************************************************************************)
CallsReturn == pc # "idle" ~> pc = "idle"

(***************************************************************************)
(* The claim of SessionError's documentation (client.rs 36-38): a denied   *)
(* or malformed sign callback is answered and does not fail the caller.    *)
(***************************************************************************)
MalformedCallbackIsAnswered ==
  pc = "idle" /\ result.outcome = "Frame" => Len(replies) = Len(consumed)
=============================================================================
