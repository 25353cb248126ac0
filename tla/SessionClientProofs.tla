------------------------- MODULE SessionClientProofs ------------------------
(***************************************************************************)
(* What SessionClient guarantees against any peer, for any limit on        *)
(* interleaved callbacks and any number of requests: types, the servicing  *)
(* of callbacks, the correlation of answers.                               *)
(***************************************************************************)
EXTENDS SessionClient, SequenceTheorems, TLAPS

(***************************************************************************)
(* Types.  What an operation in progress has established.                  *)
(***************************************************************************)
InProgress ==
  /\ pc = "idle" <=> op = "none"
  /\ op \in Methods =>
       /\ requests # << >>
       /\ awaited_id = requests[Len(requests)].id
  /\ op = "begin" => issued < MaxRequests /\ next_id <= MaxRequests
  /\ pc = "authorize" =>
       /\ consumed # << >>
       /\ consumed[Len(consumed)].params \in {"good", "long_type"}
       /\ op # "handle" => callbacks_serviced < MAX_INTERLEAVED_CALLBACKS

TypeInv == ClientTypeOK /\ InProgress

RequestType ==
  [no: 1 .. MaxRequests, id: 1 .. MaxRequests, method: Methods,
   over: 0 .. MaxRequests, signature: {"none", "key", "zero"}]
ResultType ==
  [op: Methods \cup {"none", "handle"}, outcome: Outcomes,
   request: 0 .. MaxRequests, answer: 0 .. MaxRequests]
ConsumedType == [id: CallbackIds, params: Params, decision: Decisions \cup {"none"}]
ReplyType == [id: CallbackIds, body: {"key", "zero", "SIGN_DENIED", "LOCKED"}]

LEMMA AwaitedType ==
  ASSUME TypeInv
  PROVE  /\ Awaited \in 0 .. MaxRequests
         /\ op \in Methods => /\ requests[Len(requests)] \in RequestType
                              /\ Awaited = requests[Len(requests)].no /\ Awaited > 0
                              /\ awaited_id > 0
PROOF
  <1>1. MaxRequests \in Nat /\ requests \in Seq(RequestType)
    BY ClientAssumption DEF TypeInv, ClientTypeOK, RequestType
  <1>2. CASE op \in Methods
    <2>1. requests # << >> /\ awaited_id = requests[Len(requests)].id
      BY <1>2 DEF TypeInv, InProgress
    <2>2. Len(requests) \in 1 .. Len(requests)
      BY <1>1, <2>1, EmptySeq
    <2>3. requests[Len(requests)] \in RequestType
      BY <1>1, <2>2, ElementOfSeq
    <2> QED
      BY <1>1, <1>2, <2>1, <2>3 DEF Awaited, RequestType
  <1>3. CASE op \notin Methods
    BY <1>1, <1>3 DEF Awaited
  <1> QED
    BY <1>2, <1>3

\* A call that ends.
LEMMA ReturnType ==
  ASSUME TypeInv, NEW outcome \in Outcomes, NEW answer \in 0 .. MaxRequests,
         Return(outcome, answer)
  PROVE  /\ op' = "none" /\ pc' = "idle" /\ awaited_id' = 0 /\ callbacks_serviced' = 0
         /\ result' \in ResultType
         /\ result' = [op |-> op, outcome |-> outcome, request |-> Awaited,
                       answer |-> answer]
         /\ abandoned' \subseteq 1 .. MaxRequests
PROOF
  <1>1. Awaited \in 0 .. MaxRequests /\ MaxRequests \in Nat
    BY AwaitedType, ClientAssumption
  <1>2. op \in Methods \cup {"none", "handle"} /\ abandoned \subseteq 1 .. MaxRequests
    BY DEF TypeInv, ClientTypeOK
  <1>3. /\ op' = "none" /\ pc' = "idle" /\ awaited_id' = 0 /\ callbacks_serviced' = 0
        /\ result' = [op |-> op, outcome |-> outcome, request |-> Awaited,
                      answer |-> answer]
        /\ abandoned' = abandoned \cup ({Awaited} \ {0, answer})
    BY DEF Return
  <1>4. abandoned' \subseteq 1 .. MaxRequests
    BY <1>1, <1>2, <1>3
  <1> QED
    BY <1>1, <1>2, <1>3, <1>4 DEF ResultType

\* A request that is sent, or cannot be.
LEMMA CallType ==
  ASSUME TypeInv, NEW method \in Methods, NEW id \in 1 .. MaxRequests,
         issued < MaxRequests, method = "begin" => issued + 1 < MaxRequests /\ id < MaxRequests,
         NEW over \in 0 .. MaxRequests, NEW signature \in {"none", "key"},
         call(method, id, over, signature),
         handles' \subseteq 1 .. MaxRequests, up' = up,
         inbox' \in Seq(Frames), Len(inbox') <= MaxInbox, locked' = locked
  PROVE  TypeInv'
PROOF
  <1>0. /\ MaxRequests \in Nat /\ issued \in 0 .. MaxRequests
        /\ requests \in Seq(RequestType) /\ unanswered \subseteq 1 .. MaxRequests
        /\ abandoned \subseteq 1 .. MaxRequests /\ result \in ResultType
        /\ up \in BOOLEAN /\ locked \in BOOLEAN /\ MAX_INTERLEAVED_CALLBACKS \in Nat
        /\ consumed \in Seq(ConsumedType) /\ replies \in Seq(ReplyType)
        /\ next_id' = id + 1
    BY ClientAssumption
      DEF TypeInv, ClientTypeOK, RequestType, ResultType, ConsumedType, ReplyType, call
  <1>1. CASE request_sent(method, id, over, signature)
    <2> DEFINE new == [no |-> issued + 1, id |-> id, method |-> method,
                       over |-> over, signature |-> signature]
    <2>1. /\ op' = method /\ pc' = "recv" /\ awaited_id' = id /\ callbacks_serviced' = 0
          /\ issued' = issued + 1 /\ requests' = Append(requests, new)
          /\ unanswered' = unanswered \cup {issued + 1}
          /\ consumed' = << >> /\ replies' = << >>
          /\ result' = result /\ abandoned' = abandoned
      BY <1>1 DEF request_sent
    <2>2. new \in RequestType /\ issued + 1 \in 1 .. MaxRequests /\ new.id = id
      BY <1>0 DEF RequestType
    <2> HIDE DEF new
    <2>3. /\ requests' \in Seq(RequestType) /\ requests' # << >>
          /\ Len(requests') = Len(requests) + 1 /\ requests'[Len(requests) + 1] = new
      BY <1>0, <2>1, <2>2, AppendProperties
    <2>4. << >> \in Seq(ConsumedType) /\ << >> \in Seq(ReplyType)
      BY EmptySeq
    <2>5. ClientTypeOK'
      BY <1>0, <1>1, <2>1, <2>2, <2>3, <2>4
        DEF ClientTypeOK, RequestType, ResultType, ConsumedType, ReplyType
    <2>6. InProgress'
      BY <1>0, <2>1, <2>2, <2>3 DEF InProgress, Methods
    <2> QED
      BY <2>5, <2>6 DEF TypeInv
  <1>2. CASE request_failed(method)
    <2>1. /\ op' = "none" /\ pc' = "idle" /\ awaited_id' = 0 /\ callbacks_serviced' = 0
          /\ result' = [op |-> method, outcome |-> "Io", request |-> 0, answer |-> 0]
          /\ UNCHANGED << issued, requests, unanswered, abandoned, callbacks >>
      BY <1>2 DEF request_failed
    <2>2. result' \in ResultType
      BY <1>0, <2>1 DEF ResultType, Outcomes
    <2>3. ClientTypeOK'
      BY <1>0, <1>2, <2>1, <2>2
        DEF ClientTypeOK, RequestType, ResultType, ConsumedType, ReplyType, callbacks
    <2>4. InProgress'
      BY <2>1 DEF InProgress, Methods
    <2> QED
      BY <2>3, <2>4 DEF TypeInv
  <1> QED
    BY <1>1, <1>2 DEF call

\* What a frame taken from the pipe is.
LEMMA FrameType ==
  ASSUME TypeInv, inbox # << >>
  PROVE  /\ Head(inbox) \in Frames
         /\ Tail(inbox) \in Seq(Frames) /\ Len(Tail(inbox)) <= MaxInbox
PROOF
  <1>1. inbox \in Seq(Frames) /\ Len(inbox) <= MaxInbox /\ MaxInbox \in Nat
    BY ClientAssumption DEF TypeInv, ClientTypeOK
  <1> QED
    BY <1>1, HeadTailProperties

LEMMA FrameFields ==
  ASSUME NEW frame \in Frames
  PROVE  /\ frame.kind = "answer" =>
              /\ frame.to \in 0 .. MaxRequests /\ frame.id \in 0 .. MaxRequests
              /\ frame.body \in {"ok", "error", "none", "bad_type", "bad_base64", "bad_length"}
         /\ frame.kind = "sign" => frame.id \in CallbackIds /\ frame.params \in Params
PROOF
  <1>1. Bodies("begin") = {"ok", "error", "none", "bad_type", "bad_base64", "bad_length"}
    BY DEF Bodies
  <1>2. CASE frame = Unparsable
    BY <1>2 DEF Unparsable
  <1>3. CASE \E to \in 0 .. MaxRequests, id \in 0 .. MaxRequests, body \in Bodies("begin") :
               frame = Answer(to, id, body)
    BY <1>1, <1>3 DEF Answer
  <1>4. CASE \E id \in CallbackIds, params \in Params : frame = Callback(id, params)
    BY <1>4 DEF Callback
  <1> QED
    BY <1>2, <1>3, <1>4 DEF Frames

LEMMA VerdictType ==
  ASSUME NEW frame \in Frames, frame.kind = "answer"
  PROVE  answer_verdict(frame) \in Outcomes
PROOF
  <1>1. frame.body \in {"ok", "error", "none", "bad_type", "bad_base64", "bad_length"}
    BY FrameFields
  <1>2. CASE ~ id_matches(frame)
    BY <1>2 DEF answer_verdict, Outcomes
  <1>3. CASE id_matches(frame)
    BY <1>1, <1>3 DEF answer_verdict, Outcomes
  <1> QED
    BY <1>2, <1>3

\* An operation that ends without a further request.
LEMMA EndedType ==
  ASSUME TypeInv, NEW outcome \in Outcomes, NEW answer \in 0 .. MaxRequests,
         Return(outcome, answer),
         UNCHANGED << next_id, requests, unanswered, issued, up, locked >>,
         handles' \subseteq 1 .. MaxRequests,
         inbox' \in Seq(Frames), Len(inbox') <= MaxInbox,
         consumed' \in Seq(ConsumedType), replies' \in Seq(ReplyType)
  PROVE  TypeInv'
PROOF
  <1>1. /\ op' = "none" /\ pc' = "idle" /\ awaited_id' = 0 /\ callbacks_serviced' = 0
        /\ result' \in ResultType /\ abandoned' \subseteq 1 .. MaxRequests
    BY ReturnType
  <1>2. MaxRequests \in Nat /\ MAX_INTERLEAVED_CALLBACKS \in Nat
    BY ClientAssumption
  <1>3. ClientTypeOK'
    BY <1>1, <1>2
      DEF TypeInv, ClientTypeOK, RequestType, ResultType, ConsumedType, ReplyType
  <1>4. InProgress'
    BY <1>1 DEF InProgress, Methods
  <1> QED
    BY <1>3, <1>4 DEF TypeInv

\* A reply, and the operation it ends or lets go on.
LEMMA ReplyKeepsType ==
  ASSUME TypeInv, pc \in {"recv", "authorize"},
         op = "handle" \/ callbacks_serviced < MAX_INTERLEAVED_CALLBACKS,
         NEW id \in CallbackIds, NEW params \in Params,
         NEW decision \in Decisions \cup {"none"},
         send_reply(id, params, decision),
         UNCHANGED << next_id, handles, requests, unanswered, issued, up, locked >>,
         inbox' \in Seq(Frames), Len(inbox') <= MaxInbox,
         consumed' \in Seq(ConsumedType)
  PROVE  TypeInv'
PROOF
  <1>1. /\ MAX_INTERLEAVED_CALLBACKS \in Nat /\ replies \in Seq(ReplyType)
        /\ handles \subseteq 1 .. MaxRequests
        /\ callbacks_serviced \in 0 .. MAX_INTERLEAVED_CALLBACKS
        /\ MaxRequests \in Nat
    BY ClientAssumption DEF TypeInv, ClientTypeOK, ReplyType
  <1> DEFINE reply == [id |-> id, body |-> reply_body(params, decision)]
  <1>2. reply \in ReplyType
    BY DEF ReplyType, reply_body, try_sign
  <1> HIDE DEF reply
  <1>3. Append(replies, reply) \in Seq(ReplyType)
    BY <1>1, <1>2, AppendProperties
  <1>4. CASE reply_failed
    <2>1. Return("Io", 0) /\ replies' = replies
      BY <1>4 DEF reply_failed
    <2>2. "Io" \in Outcomes /\ 0 \in 0 .. MaxRequests
      BY <1>1 DEF Outcomes
    <2> QED
      BY <1>1, <2>1, <2>2, EndedType
  <1>5. CASE reply_sent(id, params, decision) /\ op = "handle"
    <2>1. Return(report(params, decision), 0) /\ replies' = Append(replies, reply)
      BY <1>5 DEF reply_sent, reply
    <2>2. report(params, decision) \in Outcomes /\ 0 \in 0 .. MaxRequests
      BY <1>1 DEF report, Outcomes
    <2> QED
      BY <1>1, <1>3, <2>1, <2>2, EndedType
  <1>6. CASE reply_sent(id, params, decision) /\ op # "handle"
    <2>1. /\ pc' = "recv" /\ callbacks_serviced' = callbacks_serviced + 1
          /\ UNCHANGED << op, awaited_id, result, abandoned >>
          /\ replies' = Append(replies, reply)
      BY <1>6 DEF reply_sent, count_callback, reply
    <2>2. callbacks_serviced' \in 0 .. MAX_INTERLEAVED_CALLBACKS
      BY <1>1, <1>6, <2>1
    <2>3. ClientTypeOK'
      BY <1>3, <2>1, <2>2
        DEF TypeInv, ClientTypeOK, RequestType, ResultType, ConsumedType, ReplyType
    <2>4. InProgress'
      BY <2>1 DEF TypeInv, InProgress
    <2> QED
      BY <2>3, <2>4 DEF TypeInv
  <1> QED
    BY <1>4, <1>5, <1>6 DEF send_reply

\* A callback that is read.
LEMMA ConsumeType ==
  ASSUME TypeInv, NEW frame \in Frames, frame.kind = "sign", Consume(frame)
  PROVE  /\ consumed' \in Seq(ConsumedType) /\ consumed' # << >>
         /\ Len(consumed') = Len(consumed) + 1
         /\ consumed'[Len(consumed')] =
              [id |-> frame.id, params |-> frame.params, decision |-> "none"]
         /\ \A i \in 1 .. Len(consumed) : consumed'[i] = consumed[i]
PROOF
  <1> DEFINE new == [id |-> frame.id, params |-> frame.params, decision |-> "none"]
  <1>1. consumed \in Seq(ConsumedType)
    BY DEF TypeInv, ClientTypeOK, ConsumedType
  <1>2. new \in ConsumedType
    BY FrameFields DEF ConsumedType
  <1>3. consumed' = Append(consumed, new)
    BY DEF Consume
  <1> HIDE DEF new
  <1>4. /\ consumed' \in Seq(ConsumedType) /\ consumed' # << >>
        /\ Len(consumed') = Len(consumed) + 1 /\ consumed'[Len(consumed) + 1] = new
        /\ \A i \in 1 .. Len(consumed) : consumed'[i] = consumed[i]
    BY <1>1, <1>2, <1>3, AppendProperties
  <1> QED
    BY <1>4 DEF new

LEMMA ReadCallbackType ==
  ASSUME TypeInv, pc = "recv", NEW frame \in Frames, frame.kind = "sign",
         read_callback(frame),
         UNCHANGED << requests, unanswered, issued, up, locked >>,
         inbox' \in Seq(Frames), Len(inbox') <= MaxInbox
  PROVE  TypeInv'
PROOF
  <1>1. /\ MAX_INTERLEAVED_CALLBACKS \in Nat /\ replies \in Seq(ReplyType)
        /\ handles \subseteq 1 .. MaxRequests
        /\ callbacks_serviced \in 0 .. MAX_INTERLEAVED_CALLBACKS
        /\ 0 \in 0 .. MaxRequests
    BY ClientAssumption DEF TypeInv, ClientTypeOK, ReplyType
  <1>2. frame.id \in CallbackIds /\ frame.params \in Params
    BY FrameFields
  <1>3. CASE give_up(frame)
    <2>1. /\ Return("TooManyCallbacks", 0) /\ Consume(frame)
          /\ UNCHANGED << next_id, handles, replies >>
      BY <1>3 DEF give_up
    <2>2. consumed' \in Seq(ConsumedType)
      BY <2>1, ConsumeType
    <2>3. "TooManyCallbacks" \in Outcomes
      BY DEF Outcomes
    <2> QED
      BY <1>1, <2>1, <2>2, <2>3, EndedType
  <1>4. CASE ~ give_up(frame)
    <2>1. /\ op = "handle" \/ ~ too_many
          /\ Consume(frame) /\ UNCHANGED << next_id, handles >>
          /\ service_malformed(frame) \/ service_bad_base64(frame) \/ ask_policy(frame)
      BY <1>4 DEF read_callback
    <2>2. consumed' \in Seq(ConsumedType)
      BY <2>1, ConsumeType
    <2>3. op = "handle" \/ callbacks_serviced < MAX_INTERLEAVED_CALLBACKS
      BY <1>1, <2>1 DEF too_many
    <2>4. CASE service_malformed(frame)
      <3>1. "Frame" \in Outcomes /\ Return("Frame", 0) /\ replies' = replies
        BY <2>4 DEF Outcomes, service_malformed
      <3> QED
        BY <1>1, <2>1, <2>2, <3>1, EndedType
    <2>5. CASE service_bad_base64(frame)
      <3>1. send_reply(frame.id, frame.params, "none")
        BY <2>5 DEF service_bad_base64
      <3> QED
        BY <1>2, <2>1, <2>2, <2>3, <3>1, ReplyKeepsType
    <2>6. CASE ask_policy(frame)
      <3>1. /\ frame.params \in {"good", "long_type"} /\ pc' = "authorize"
            /\ UNCHANGED << op, awaited_id, callbacks_serviced, result, abandoned, replies >>
        BY <2>6 DEF ask_policy
      <3>2. consumed' # << >> /\ consumed'[Len(consumed')].params = frame.params
        <4>1. /\ consumed' # << >>
              /\ consumed'[Len(consumed')] =
                   [id |-> frame.id, params |-> frame.params, decision |-> "none"]
          BY <2>1, ConsumeType
        <4> QED
          BY <4>1
      <3>3. ClientTypeOK'
        <4>1. pc' \in {"idle", "recv", "authorize"} /\ UNCHANGED << next_id, handles >>
          BY <2>1, <3>1
        <4> QED
          BY <2>2, <3>1, <4>1
            DEF TypeInv, ClientTypeOK, RequestType, ResultType, ConsumedType, ReplyType
      <3>4. InProgress'
        BY <2>1, <2>3, <3>1, <3>2 DEF TypeInv, InProgress
      <3> QED
        BY <3>3, <3>4 DEF TypeInv
    <2> QED
      BY <2>1, <2>4, <2>5, <2>6
  <1> QED
    BY <1>3, <1>4

LEMMA ReadAnswerType ==
  ASSUME TypeInv, pc = "recv", NEW frame \in Frames, frame.kind = "answer",
         frame.to = 0 => frame.id = 0,
         read_answer(frame), UNCHANGED << up, locked >>,
         inbox' \in Seq(Frames), Len(inbox') <= MaxInbox
  PROVE  TypeInv'
PROOF
  <1>1. /\ consumed \in Seq(ConsumedType) /\ replies \in Seq(ReplyType)
        /\ handles \subseteq 1 .. MaxRequests /\ MaxRequests \in Nat
        /\ next_id \in 1 .. MaxRequests + 1 /\ issued \in 0 .. MaxRequests
    BY ClientAssumption DEF TypeInv, ClientTypeOK, ConsumedType, ReplyType
  <1>2. frame.to \in 0 .. MaxRequests
    BY FrameFields
  <1>3. ASSUME NEW outcome \in Outcomes, Return(outcome, frame.to),
               UNCHANGED << next_id, requests, unanswered, issued, callbacks >>,
               handles' \subseteq 1 .. MaxRequests
        PROVE  TypeInv'
    BY <1>1, <1>2, <1>3, EndedType DEF callbacks
  <1>4. CASE op = "handle"
    BY <1>1, <1>3, <1>4 DEF read_answer, Outcomes
  <1>5. CASE op # "handle" /\ answer_verdict(frame) # "Ok"
    <2>1. /\ Return(answer_verdict(frame), frame.to)
          /\ UNCHANGED << next_id, handles, requests, unanswered, issued, callbacks >>
      BY <1>5 DEF read_answer
    <2> QED
      BY <1>1, <1>3, <2>1, VerdictType
  <1>6. CASE op = "begin" /\ begin_answered(frame)
    <2>1. CASE try_sign = "none"
      BY <1>1, <1>3, <1>6, <2>1 DEF begin_answered, Outcomes
    <2>2. CASE try_sign # "none"
      <3>1. call("attach", next_id, frame.to, try_sign) /\ handles' = handles
        BY <1>6, <2>2 DEF begin_answered
      <3>2. issued < MaxRequests /\ next_id \in 1 .. MaxRequests
        BY <1>1, <1>6 DEF TypeInv, InProgress
      <3>3. try_sign \in {"none", "key"} /\ "attach" \in Methods
        BY DEF try_sign, Methods
      <3> QED
        BY <1>1, <1>2, <3>1, <3>2, <3>3, CallType
    <2> QED
      BY <2>1, <2>2
  <1>7. CASE op = "attach" /\ answer_verdict(frame) = "Ok" /\ attach_answered(frame)
    <2>1. /\ handles' = handles \cup {frame.to} /\ Return("Ok", frame.to)
          /\ UNCHANGED << next_id, requests, unanswered, issued, callbacks >>
      BY <1>7 DEF attach_answered
    <2>2. id_matches(frame)
      BY <1>7 DEF answer_verdict
    <2>3. awaited_id > 0
      BY <1>7, AwaitedType DEF Methods
    <2>4. frame.to # 0
      BY <2>2, <2>3 DEF id_matches
    <2>5. handles' \subseteq 1 .. MaxRequests
      <3>1. frame.to \in 1 .. MaxRequests
        BY <1>2, <2>4
      <3> QED
        BY <1>1, <2>1, <3>1
    <2>6. "Ok" \in Outcomes
      BY DEF Outcomes
    <2> QED
      BY <1>3, <2>1, <2>5, <2>6
  <1>8. CASE op = "detach" /\ detach_answered(frame)
    BY <1>1, <1>3, <1>8 DEF detach_answered, Outcomes
  <1> QED
    BY <1>4, <1>5, <1>6, <1>7, <1>8 DEF read_answer

\* An answer on its way is to a request of this connection, under its id, or it
\* is one nobody asked for.
AddressedTo(frame, j) == requests[j].no = frame.to /\ requests[j].id = frame.id
Addressed(frame) ==
  frame.kind = "answer" =>
    \/ frame.to = 0 /\ frame.id = 0
    \/ \E j \in DOMAIN requests : AddressedTo(frame, j)
InboxAddressed == \A i \in DOMAIN inbox : Addressed(inbox[i])

LEMMA HeadIsAddressed ==
  ASSUME TypeInv, InboxAddressed, inbox # << >>
  PROVE  Addressed(Head(inbox)) /\ Head(inbox) = inbox[1] /\ 1 \in DOMAIN inbox
PROOF
  <1>1. inbox \in Seq(Frames)
    BY DEF TypeInv, ClientTypeOK
  <1>2. Head(inbox) = inbox[1] /\ Len(inbox) \in Nat \ {0} /\ DOMAIN inbox = 1 .. Len(inbox)
    BY <1>1, HeadTailProperties, EmptySeq, LenProperties
  <1>3. 1 \in DOMAIN inbox
    BY <1>2
  <1> QED
    BY <1>2, <1>3 DEF InboxAddressed

LEMMA RecvFrameType ==
  ASSUME TypeInv, InboxAddressed, recv_frame
  PROVE  TypeInv'
PROOF
  <1> DEFINE frame == Head(inbox)
  <1>1. /\ pc = "recv" /\ inbox # << >> /\ inbox' = Tail(inbox) /\ UNCHANGED << up, locked >>
        /\ \/ frame.kind = "unparsable" /\ recv_unparsable(frame)
           \/ frame.kind = "answer" /\ read_answer(frame)
           \/ /\ frame.kind = "sign" /\ read_callback(frame)
              /\ UNCHANGED << requests, unanswered, issued >>
    BY DEF recv_frame
  <1>2. frame \in Frames /\ inbox' \in Seq(Frames) /\ Len(inbox') <= MaxInbox
    BY <1>1, FrameType
  <1>3. Addressed(frame)
    BY <1>1, HeadIsAddressed
  <1> HIDE DEF frame
  <1>4. CASE frame.kind = "unparsable" /\ recv_unparsable(frame)
    <2>1. /\ Return("Frame", 0)
          /\ UNCHANGED << next_id, handles, requests, unanswered, issued, callbacks >>
      BY <1>4 DEF recv_unparsable
    <2>2. /\ consumed \in Seq(ConsumedType) /\ replies \in Seq(ReplyType)
          /\ handles \subseteq 1 .. MaxRequests
          /\ "Frame" \in Outcomes /\ 0 \in 0 .. MaxRequests
      BY ClientAssumption DEF TypeInv, ClientTypeOK, ConsumedType, ReplyType, Outcomes
    <2> QED
      BY <1>1, <1>2, <2>1, <2>2, EndedType DEF callbacks
  <1>5. CASE frame.kind = "answer" /\ read_answer(frame)
    <2>1. ASSUME frame.to = 0
          PROVE  frame.id = 0
      <3>1. ASSUME NEW j \in DOMAIN requests
            PROVE  requests[j].no # 0
        <4>1. requests \in Seq(RequestType) /\ MaxRequests \in Nat
          BY ClientAssumption DEF TypeInv, ClientTypeOK, RequestType
        <4>2. requests[j] \in RequestType
          BY <4>1, LenProperties, ElementOfSeq
        <4> QED
          BY <4>1, <4>2 DEF RequestType
      <3> QED
        BY <1>3, <1>5, <2>1, <3>1 DEF Addressed, AddressedTo
    <2> QED
      BY <1>1, <1>2, <1>5, <2>1, ReadAnswerType
  <1>6. CASE /\ frame.kind = "sign" /\ read_callback(frame)
             /\ UNCHANGED << requests, unanswered, issued >>
    BY <1>1, <1>2, <1>6, ReadCallbackType
  <1> QED
    BY <1>1, <1>4, <1>5, <1>6

LEMMA AuthorizeType ==
  ASSUME TypeInv, NEW decision \in Decisions, authorize(decision)
  PROVE  TypeInv'
PROOF
  <1> DEFINE n == Len(consumed)
  <1>1. /\ pc = "authorize"
        /\ consumed' = [consumed EXCEPT ![n].decision = decision]
        /\ send_reply(consumed[n].id, consumed[n].params, decision)
        /\ UNCHANGED << next_id, handles, up, inbox, requests, unanswered, issued, locked >>
    BY DEF authorize
  <1>2. /\ consumed \in Seq(ConsumedType) /\ consumed # << >>
        /\ op = "handle" \/ callbacks_serviced < MAX_INTERLEAVED_CALLBACKS
        /\ inbox \in Seq(Frames) /\ Len(inbox) <= MaxInbox
    BY <1>1 DEF TypeInv, ClientTypeOK, InProgress, ConsumedType
  <1>3. n \in 1 .. Len(consumed)
    BY <1>2, EmptySeq
  <1>4. consumed[n] \in ConsumedType
    BY <1>2, <1>3, ElementOfSeq
  <1>5. [consumed[n] EXCEPT !.decision = decision] \in ConsumedType
    BY <1>4 DEF ConsumedType
  <1>6. consumed' \in Seq(ConsumedType)
    BY <1>1, <1>2, <1>3, <1>5, ExceptSeq
  <1>7. consumed[n].id \in CallbackIds /\ consumed[n].params \in Params
    BY <1>4 DEF ConsumedType
  <1> HIDE DEF n
  <1> QED
    BY <1>1, <1>2, <1>6, <1>7, ReplyKeepsType

LEMMA AppCallsType ==
  ASSUME TypeInv, AppCalls
  PROVE  TypeInv'
PROOF
  <1>1. /\ MaxRequests \in Nat /\ issued \in 0 .. MaxRequests
        /\ next_id \in 1 .. MaxRequests + 1 /\ handles \subseteq 1 .. MaxRequests
        /\ inbox \in Seq(Frames) /\ Len(inbox) <= MaxInbox
        /\ consumed \in Seq(ConsumedType) /\ replies \in Seq(ReplyType)
        /\ MAX_INTERLEAVED_CALLBACKS \in Nat /\ MaxInbox \in Nat
    BY ClientAssumption DEF TypeInv, ClientTypeOK, ConsumedType, ReplyType
  <1>2. CASE begin_and_attach
    <2>1. /\ call("begin", next_id, 0, "none")
          /\ UNCHANGED << handles, up, inbox, locked >>
          /\ issued + 2 <= MaxRequests /\ next_id + 2 <= MaxRequests + 1
      BY <1>2 DEF begin_and_attach, CanSend
    <2>2. /\ "begin" \in Methods /\ next_id \in 1 .. MaxRequests
          /\ issued + 1 < MaxRequests /\ next_id < MaxRequests /\ issued < MaxRequests
          /\ 0 \in 0 .. MaxRequests
      BY <1>1, <2>1 DEF Methods
    <2> QED
      BY <1>1, <2>1, <2>2, CallType
  <1>3. ASSUME NEW handle \in handles, client_detach(handle)
        PROVE  TypeInv'
    <2>1. /\ call("detach", next_id, handle, "none")
          /\ UNCHANGED << handles, up, inbox, locked >>
          /\ issued + 1 <= MaxRequests /\ next_id + 1 <= MaxRequests + 1
      BY <1>3 DEF client_detach, CanSend
    <2>2. /\ "detach" \in Methods /\ "detach" # "begin" /\ next_id \in 1 .. MaxRequests
          /\ issued < MaxRequests /\ handle \in 0 .. MaxRequests
      BY <1>1, <2>1 DEF Methods
    <2> QED
      BY <1>1, <2>1, <2>2, CallType
  <1>4. CASE reattach /\ reattach_connected
    <2> DEFINE begin == [no |-> issued + 1, id |-> 1, method |-> "begin",
                         over |-> 0, signature |-> "none"]
    <2>1. /\ op' = "begin" /\ pc' = "recv" /\ next_id' = 2 /\ awaited_id' = 1
          /\ callbacks_serviced' = 0 /\ up' = TRUE /\ inbox' = << >>
          /\ issued' = issued + 1 /\ abandoned' = {} /\ requests' = << begin >>
          /\ unanswered' = {issued + 1} /\ consumed' = << >> /\ replies' = << >>
          /\ UNCHANGED << handles, result, locked >> /\ issued + 2 <= MaxRequests
      BY <1>4 DEF reattach, reattach_connected
    <2>2. begin \in RequestType /\ begin.id = 1
      BY <1>1, <2>1 DEF RequestType, Methods
    <2> HIDE DEF begin
    <2>3. /\ requests' \in Seq(RequestType) /\ requests' # << >>
          /\ Len(requests') = 1 /\ requests'[Len(requests')].id = 1
      BY <2>1, <2>2
    <2>4. /\ inbox' \in Seq(Frames) /\ Len(inbox') = 0
          /\ consumed' \in Seq(ConsumedType) /\ replies' \in Seq(ReplyType)
      BY <2>1
    <2>5. ClientTypeOK'
      BY <1>1, <2>1, <2>3, <2>4
        DEF TypeInv, ClientTypeOK, RequestType, ResultType, ConsumedType, ReplyType, Methods
    <2>6. InProgress'
      BY <1>1, <2>1, <2>3 DEF InProgress, Methods
    <2> QED
      BY <2>5, <2>6 DEF TypeInv
  <1>5. CASE reattach /\ reattach_broken
    <2>1. /\ next_id' = 2 /\ up' \in BOOLEAN /\ inbox' = << >> /\ abandoned' = {}
          /\ result' = [op |-> "begin", outcome |-> "Io", request |-> 0, answer |-> 0]
          /\ requests' = << >> /\ unanswered' = {}
          /\ UNCHANGED << op, pc, awaited_id, callbacks_serviced, handles, issued, callbacks,
                          locked >>
          /\ issued + 2 <= MaxRequests /\ pc = "idle"
      BY <1>5 DEF reattach, reattach_broken
    <2>2. /\ inbox' \in Seq(Frames) /\ Len(inbox') = 0 /\ requests' \in Seq(RequestType)
      BY <2>1
    <2>3. result' \in ResultType
      BY <1>1, <2>1 DEF ResultType, Outcomes, Methods
    <2>4. ClientTypeOK'
      <3>1. next_id' \in 1 .. MaxRequests + 1 /\ Len(inbox') <= MaxInbox
        BY <1>1, <2>1, <2>2
      <3>2. /\ op' = op /\ pc' = pc /\ awaited_id' = awaited_id /\ handles' = handles
            /\ callbacks_serviced' = callbacks_serviced /\ issued' = issued
            /\ consumed' = consumed /\ replies' = replies /\ locked' = locked
            /\ up' \in BOOLEAN /\ unanswered' = {} /\ abandoned' = {}
        BY <2>1 DEF callbacks
      <3> QED
        BY <2>2, <2>3, <3>1, <3>2
          DEF TypeInv, ClientTypeOK, RequestType, ResultType, ConsumedType, ReplyType
    <2>5. InProgress'
      BY <2>1 DEF TypeInv, InProgress, Methods
    <2> QED
      BY <2>4, <2>5 DEF TypeInv
  <1>6. CASE handle_next_sign_callback
    <2>1. /\ pc = "idle" /\ op' = "handle" /\ pc' = "recv" /\ consumed' = << >>
          /\ replies' = << >>
          /\ UNCHANGED << next_id, awaited_id, callbacks_serviced, handles, result, connection,
                          locked >>
      BY <1>6 DEF handle_next_sign_callback
    <2>2. consumed' \in Seq(ConsumedType) /\ replies' \in Seq(ReplyType)
      BY <2>1
    <2>3. ClientTypeOK'
      BY <2>1, <2>2
        DEF TypeInv, ClientTypeOK, RequestType, ResultType, ConsumedType, ReplyType, connection
    <2>4. InProgress'
      BY <2>1 DEF InProgress, Methods
    <2> QED
      BY <2>3, <2>4 DEF TypeInv
  <1> QED
    BY <1>2, <1>3, <1>4, <1>5, <1>6 DEF AppCalls, reattach

\* A frame the peer puts on the connection.
LEMMA DeliverType ==
  ASSUME TypeInv, NEW frame \in Frames, Deliver(frame), unanswered' \subseteq unanswered
  PROVE  TypeInv'
PROOF
  <1>1. /\ Len(inbox) < MaxInbox /\ inbox' = Append(inbox, frame)
        /\ UNCHANGED << control, up, requests, issued, abandoned, callbacks, locked >>
    BY DEF Deliver
  <1>2. inbox \in Seq(Frames) /\ MaxInbox \in Nat
    BY ClientAssumption DEF TypeInv, ClientTypeOK
  <1>3. inbox' \in Seq(Frames) /\ Len(inbox') = Len(inbox) + 1
    BY <1>1, <1>2, AppendProperties
  <1>4. Len(inbox') <= MaxInbox
    BY <1>1, <1>2, <1>3, LenProperties
  <1>5. ClientTypeOK'
    BY <1>1, <1>3, <1>4
      DEF TypeInv, ClientTypeOK, RequestType, ResultType, ConsumedType, ReplyType, control, callbacks
  <1>6. InProgress'
    BY <1>1 DEF TypeInv, InProgress, control, callbacks
  <1> QED
    BY <1>5, <1>6 DEF TypeInv

LEMMA AnswerIsFrame ==
  ASSUME TypeInv, NEW i \in DOMAIN requests, NEW body \in Bodies(requests[i].method)
  PROVE  Answer(requests[i].no, requests[i].id, body) \in Frames
PROOF
  <1>1. requests \in Seq(RequestType) /\ MaxRequests \in Nat
    BY ClientAssumption DEF TypeInv, ClientTypeOK, RequestType
  <1>2. requests[i] \in RequestType
    BY <1>1, LenProperties, ElementOfSeq
  <1>3. requests[i].no \in 0 .. MaxRequests /\ requests[i].id \in 0 .. MaxRequests
    BY <1>1, <1>2 DEF RequestType
  <1>4. body \in Bodies("begin")
    BY DEF Bodies
  <1> QED
    BY <1>3, <1>4 DEF Frames

LEMMA PeerStepType ==
  ASSUME TypeInv, PeerStep
  PROVE  TypeInv'
PROOF
  <1>1. CASE PeerAnswers
    <2>1. PICK i \in DOMAIN requests : \E body \in Bodies(requests[i].method) :
            /\ unanswered' = unanswered \ {requests[i].no}
            /\ Deliver(Answer(requests[i].no, requests[i].id, body))
      BY <1>1 DEF PeerAnswers
    <2>2. PICK body \in Bodies(requests[i].method) :
            /\ unanswered' = unanswered \ {requests[i].no}
            /\ Deliver(Answer(requests[i].no, requests[i].id, body))
      BY <2>1
    <2>3. unanswered' \subseteq unanswered
      BY <2>2
    <2> QED
      BY <2>2, <2>3, AnswerIsFrame, DeliverType
  <1>2. CASE PeerCallsBack
    <2>1. PICK id \in CallbackIds, params \in Params : Deliver(Callback(id, params))
      BY <1>2 DEF PeerCallsBack
    <2>2. Callback(id, params) \in Frames /\ unanswered' = unanswered
      BY <1>2 DEF Frames, PeerCallsBack
    <2> QED
      BY <2>1, <2>2, DeliverType
  <1>3. CASE PeerSendsJunk
    <2>1. PICK frame \in {Unparsable, Answer(0, 0, "none")} : Deliver(frame)
      BY <1>3 DEF PeerSendsJunk
    <2>2. frame \in Frames /\ unanswered' = unanswered
      BY <1>3, ClientAssumption DEF Frames, PeerSendsJunk, Bodies
    <2> QED
      BY <2>1, <2>2, DeliverType
  <1>4. CASE PeerCloses
    <2>1. ClientTypeOK'
      BY <1>4 DEF TypeInv, ClientTypeOK, PeerCloses, control, callbacks
    <2>2. InProgress'
      BY <1>4 DEF TypeInv, InProgress, PeerCloses, control, callbacks
    <2> QED
      BY <2>1, <2>2 DEF TypeInv
  <1> QED
    BY <1>1, <1>2, <1>3, <1>4 DEF PeerStep

LEMMA TypeStep ==
  ASSUME TypeInv, InboxAddressed, [ClientNext]_client
  PROVE  TypeInv'
PROOF
  <1>1. CASE AppCalls
    BY <1>1, AppCallsType
  <1>2. CASE recv_fails
    <2>1. /\ Return("Io", 0)
          /\ UNCHANGED << next_id, handles, up, inbox, requests, unanswered, issued, callbacks,
                          locked >>
      BY <1>2 DEF recv_fails
    <2>2. /\ consumed \in Seq(ConsumedType) /\ replies \in Seq(ReplyType)
          /\ handles \subseteq 1 .. MaxRequests
          /\ inbox \in Seq(Frames) /\ Len(inbox) <= MaxInbox
          /\ "Io" \in Outcomes /\ 0 \in 0 .. MaxRequests
      BY ClientAssumption DEF TypeInv, ClientTypeOK, ConsumedType, ReplyType, Outcomes
    <2> QED
      BY <2>1, <2>2, EndedType DEF callbacks
  <1>3. CASE recv_frame
    BY <1>3, RecvFrameType
  <1>4. ASSUME NEW decision \in Decisions, authorize(decision)
        PROVE  TypeInv'
    BY <1>4, AuthorizeType
  <1>5. CASE PeerStep
    BY <1>5, PeerStepType
  <1>6. CASE UserLocks
    <2>1. ClientTypeOK'
      BY <1>6 DEF TypeInv, ClientTypeOK, UserLocks, control, connection, callbacks
    <2>2. InProgress'
      BY <1>6 DEF TypeInv, InProgress, UserLocks, control, connection, callbacks
    <2> QED
      BY <2>1, <2>2 DEF TypeInv
  <1>7. CASE UNCHANGED client
    <2>1. ClientTypeOK'
      BY <1>7 DEF TypeInv, ClientTypeOK, client, control, connection, callbacks
    <2>2. InProgress'
      BY <1>7 DEF TypeInv, InProgress, client, control, connection, callbacks
    <2> QED
      BY <2>1, <2>2 DEF TypeInv
  <1> QED
    BY <1>1, <1>2, <1>3, <1>4, <1>5, <1>6, <1>7 DEF ClientNext, ClientStep, recv_eof
-----------------------------------------------------------------------------
(***************************************************************************)
(* Correlation.  Numbers and ids grow along a connection; each request has *)
(* at most one answer, still with the peer or on its way; and whatever is  *)
(* outstanding is either awaited or was given up.                          *)
(***************************************************************************)
Ordered ==
  /\ \A i, j \in DOMAIN requests :
       i < j => requests[i].no < requests[j].no /\ requests[i].id < requests[j].id
  /\ \A i \in DOMAIN requests : requests[i].no <= issued /\ requests[i].id < next_id

LastIsAwaited == op \in Methods => requests[Len(requests)].method = op

AnswersAreSingle ==
  \A i \in DOMAIN inbox : inbox[i].kind = "answer" =>
    /\ inbox[i].to \notin unanswered
    /\ \A j \in DOMAIN inbox :
         j # i /\ inbox[j].kind = "answer" /\ inbox[j].to = inbox[i].to => inbox[i].to = 0

Waited(n) == n \in abandoned \/ (op \in Methods /\ n = Awaited)

OutstandingIsWaited ==
  /\ \A n \in unanswered : Waited(n)
  /\ \A i \in DOMAIN inbox :
       inbox[i].kind = "answer" /\ inbox[i].to # 0 => Waited(inbox[i].to)

Correlated ==
  Ordered /\ LastIsAwaited /\ InboxAddressed /\ AnswersAreSingle /\ OutstandingIsWaited

LEMMA RequestFields ==
  ASSUME TypeInv
  PROVE  /\ Len(requests) \in Nat /\ DOMAIN requests = 1 .. Len(requests)
         /\ \A i \in DOMAIN requests :
              /\ requests[i].no \in 1 .. MaxRequests /\ requests[i].id \in 1 .. MaxRequests
PROOF
  <1>1. requests \in Seq(RequestType)
    BY DEF TypeInv, ClientTypeOK, RequestType
  <1>2. Len(requests) \in Nat /\ DOMAIN requests = 1 .. Len(requests)
    BY <1>1, LenProperties
  <1>3. \A i \in 1 .. Len(requests) : requests[i] \in RequestType
    BY <1>1, ElementOfSeq
  <1> QED
    BY <1>2, <1>3 DEF RequestType

\* What is left of the inbox when a frame was taken from it, or none was.
Shifted(k) ==
  /\ k \in {0, 1}
  /\ \A i \in DOMAIN inbox' : i + k \in DOMAIN inbox /\ inbox'[i] = inbox[i + k]
  /\ DOMAIN inbox' \subseteq Nat \ {0}
  /\ k = 1 => 1 \in DOMAIN inbox /\ Head(inbox) = inbox[1]

LEMMA TailShifts ==
  ASSUME TypeInv, inbox # << >>, inbox' = Tail(inbox)
  PROVE  Shifted(1)
PROOF
  <1>1. inbox \in Seq(Frames)
    BY DEF TypeInv, ClientTypeOK
  <1>2. /\ Head(inbox) = inbox[1] /\ Tail(inbox) \in Seq(Frames)
        /\ Len(Tail(inbox)) = Len(inbox) - 1
        /\ \A i \in 1 .. Len(Tail(inbox)) : Tail(inbox)[i] = inbox[i + 1]
    BY <1>1, HeadTailProperties
  <1>3. /\ Len(inbox) \in Nat \ {0} /\ DOMAIN inbox = 1 .. Len(inbox)
        /\ DOMAIN Tail(inbox) = 1 .. Len(Tail(inbox))
    BY <1>1, <1>2, EmptySeq, LenProperties
  <1>4. 1 \in DOMAIN inbox /\ DOMAIN Tail(inbox) = 1 .. Len(inbox) - 1
    BY <1>2, <1>3
  <1>5. \A i \in DOMAIN Tail(inbox) : i + 1 \in DOMAIN inbox /\ Tail(inbox)[i] = inbox[i + 1]
    BY <1>2, <1>3, <1>4
  <1>6. DOMAIN Tail(inbox) \subseteq Nat \ {0}
    BY <1>3, <1>4
  <1> QED
    BY <1>2, <1>4, <1>5, <1>6 DEF Shifted

LEMMA SameShifts ==
  ASSUME TypeInv, inbox' = inbox
  PROVE  Shifted(0)
PROOF
  <1>1. DOMAIN inbox = 1 .. Len(inbox) /\ Len(inbox) \in Nat
    BY LenProperties DEF TypeInv, ClientTypeOK
  <1>2. \A i \in DOMAIN inbox : i \in Nat \ {0} /\ i + 0 = i
    BY <1>1
  <1> QED
    BY <1>2 DEF Shifted

\* A step that sends nothing.  The answer to the awaited request, if it ended
\* the operation, is gone from the inbox; otherwise the request is given up.
LEMMA CorrelatedEnds ==
  ASSUME TypeInv, Correlated, UNCHANGED << requests, unanswered, issued >>,
         next_id' \in {next_id, next_id + 1},
         NEW k \in {0, 1}, Shifted(k), op' \in {op, "none"}, abandoned \subseteq abandoned',
         op \in Methods /\ op' # op =>
           \/ Awaited \in abandoned'
           \/ k = 1 /\ inbox[1].kind = "answer" /\ inbox[1].to = Awaited
  PROVE  Correlated'
PROOF
  <1>0. \A i \in DOMAIN inbox' :
          /\ i \in Nat \ {0} /\ i + k \in DOMAIN inbox /\ inbox'[i] = inbox[i + k]
          /\ k = 1 => i + k # 1 /\ 1 \in DOMAIN inbox
    BY DEF Shifted
  <1>1. Ordered' /\ LastIsAwaited'
    <2>1. next_id \in Nat /\ \A i \in DOMAIN requests : requests[i].id \in Nat
      <3>1. next_id \in Nat
        BY ClientAssumption DEF TypeInv, ClientTypeOK
      <3>2. \A i \in DOMAIN requests : requests[i].id \in 1 .. MaxRequests
        BY RequestFields
      <3> QED
        BY <3>1, <3>2
    <2>2. \A i \in DOMAIN requests :
            requests[i].no <= issued /\ requests[i].id < next_id
      BY DEF Correlated, Ordered
    <2>3. \A i \in DOMAIN requests : requests[i].id < next_id'
      BY <2>1, <2>2
    <2>4. Ordered'
      BY <2>2, <2>3 DEF Correlated, Ordered
    <2> QED
      BY <2>4 DEF Correlated, LastIsAwaited, Methods
  <1>2. InboxAddressed'
    BY <1>0 DEF Correlated, InboxAddressed, Addressed, AddressedTo
  <1>3. AnswersAreSingle'
    <2>1. ASSUME NEW i \in DOMAIN inbox', NEW j \in DOMAIN inbox', i # j
          PROVE  i + k # j + k
      BY <1>0, <2>1
    <2> QED
      BY <1>0, <2>1 DEF Correlated, AnswersAreSingle
  <1>4. ASSUME NEW n, Waited(n),
               k = 1 /\ inbox[1].kind = "answer" /\ inbox[1].to = Awaited => n # Awaited
        PROVE  Waited(n)'
    <2>1. CASE n \in abandoned
      BY <2>1 DEF Waited
    <2>2. CASE n \notin abandoned
      <3>1. op \in Methods /\ n = Awaited
        BY <1>4, <2>2 DEF Waited
      <3>2. CASE op' = op
        BY <3>1, <3>2 DEF Waited, Awaited
      <3>3. CASE op' # op
        BY <1>4, <3>1, <3>3 DEF Waited
      <3> QED
        BY <3>2, <3>3
    <2> QED
      BY <2>1, <2>2
  <1>5. ASSUME NEW n \in unanswered'
        PROVE  Waited(n)'
    <2>1. Waited(n) /\ n \in unanswered
      BY <1>5 DEF Correlated, OutstandingIsWaited
    <2>2. k = 1 /\ inbox[1].kind = "answer" /\ inbox[1].to = Awaited => n # Awaited
      BY <2>1 DEF Correlated, AnswersAreSingle, Shifted
    <2> QED
      BY <1>4, <2>1, <2>2
  <1>6. ASSUME NEW i \in DOMAIN inbox', NEW n, n = inbox'[i].to, n # 0,
               inbox'[i].kind = "answer"
        PROVE  Waited(n)'
    <2>1. i + k \in DOMAIN inbox /\ inbox'[i] = inbox[i + k]
      BY <1>0, <1>6
    <2>2. Waited(n)
      BY <1>6, <2>1 DEF Correlated, OutstandingIsWaited
    <2>3. k = 1 /\ inbox[1].kind = "answer" /\ inbox[1].to = Awaited => n # Awaited
      BY <1>0, <1>6, <2>1 DEF Correlated, AnswersAreSingle
    <2> QED
      BY <1>4, <2>2, <2>3
  <1>7. OutstandingIsWaited'
    BY <1>5, <1>6 DEF OutstandingIsWaited, Waited
  <1> QED
    BY <1>1, <1>2, <1>3, <1>7 DEF Correlated

\* A step that sends a request: no other is awaited any more.
LEMMA CorrelatedSends ==
  ASSUME TypeInv, Correlated, NEW k \in {0, 1}, Shifted(k), NEW new,
         op' \in Methods, issued' = issued + 1, next_id' = next_id + 1,
         requests' = Append(requests, new),
         new.no = issued + 1, new.id = next_id, new.method = op',
         unanswered' = unanswered \cup {issued + 1}, abandoned' = abandoned,
         op \in Methods => k = 1 /\ inbox[1].kind = "answer" /\ inbox[1].to = Awaited
  PROVE  Correlated'
PROOF
  <1> DEFINE last == Len(requests) + 1
  <1>0. \A i \in DOMAIN inbox' :
          /\ i \in Nat \ {0} /\ i + k \in DOMAIN inbox /\ inbox'[i] = inbox[i + k]
          /\ k = 1 => i + k # 1 /\ 1 \in DOMAIN inbox
    BY DEF Shifted
  <1>1. /\ requests \in Seq(RequestType) /\ issued \in Nat /\ next_id \in Nat
        /\ unanswered \subseteq Nat
    BY ClientAssumption DEF TypeInv, ClientTypeOK, RequestType
  <1>2. /\ Len(requests) \in Nat /\ DOMAIN requests = 1 .. Len(requests)
        /\ \A i \in DOMAIN requests : requests[i].no \in Nat \ {0} /\ requests[i].id \in Nat
    BY RequestFields, ClientAssumption
  <1>3. /\ Len(requests') = last /\ requests'[last] = new
        /\ \A i \in 1 .. Len(requests) : requests'[i] = requests[i]
    BY <1>1, AppendProperties
  <1>4. DOMAIN requests' = 1 .. last
    BY <1>1, <1>2, <1>3
  <1>5. \A i \in DOMAIN requests : requests[i].no <= issued /\ requests[i].id < next_id
    BY DEF Correlated, Ordered
  <1>6. /\ last \in DOMAIN requests'
        /\ \A i \in DOMAIN requests : i \in DOMAIN requests' /\ requests'[i] = requests[i] /\ i < last
        /\ \A i \in DOMAIN requests' : i \in DOMAIN requests \/ i = last
        /\ \A i \in DOMAIN requests : i \in Nat
    BY <1>2, <1>3, <1>4
  <1>7. requests'[last].no = issued + 1 /\ requests'[last].id = next_id
        /\ requests'[last].method = op'
    BY <1>3
  <1>8. LastIsAwaited' /\ Awaited' = issued + 1
    BY <1>3, <1>7 DEF LastIsAwaited, Awaited
  <1>9. last \in Nat
    BY <1>2
  <1> HIDE DEF last
  <1>10. Ordered'
    <2>1. ASSUME NEW i \in DOMAIN requests', NEW j \in DOMAIN requests', i < j
          PROVE  requests'[i].no < requests'[j].no /\ requests'[i].id < requests'[j].id
      <3>1. i # last
        BY <1>6, <1>9, <2>1
      <3>2. i \in DOMAIN requests /\ requests'[i] = requests[i]
        BY <1>6, <3>1
      <3>3. CASE j = last
        BY <1>1, <1>2, <1>5, <1>7, <3>2, <3>3
      <3>4. CASE j # last
        <4>1. j \in DOMAIN requests /\ requests'[j] = requests[j]
          BY <1>6, <3>4
        <4> QED
          BY <2>1, <3>2, <4>1 DEF Correlated, Ordered
      <3> QED
        BY <3>3, <3>4
    <2>2. ASSUME NEW i \in DOMAIN requests'
          PROVE  requests'[i].no <= issued' /\ requests'[i].id < next_id'
      <3>1. CASE i = last
        BY <1>1, <1>7, <3>1
      <3>2. CASE i # last
        <4>1. i \in DOMAIN requests /\ requests'[i] = requests[i]
          BY <1>6, <3>2
        <4> QED
          BY <1>1, <1>2, <1>5, <4>1
      <3> QED
        BY <3>1, <3>2
    <2> QED
      BY <2>1, <2>2 DEF Ordered
  <1>11. InboxAddressed'
    <2>1. ASSUME NEW i \in DOMAIN inbox', inbox'[i].kind = "answer",
                 ~ (inbox'[i].to = 0 /\ inbox'[i].id = 0)
          PROVE  \E j \in DOMAIN requests' :
                   requests'[j].no = inbox'[i].to /\ requests'[j].id = inbox'[i].id
      <3>1. i + k \in DOMAIN inbox /\ inbox'[i] = inbox[i + k]
        BY <1>0
      <3>2. PICK j \in DOMAIN requests :
              requests[j].no = inbox'[i].to /\ requests[j].id = inbox'[i].id
        BY <2>1, <3>1 DEF Correlated, InboxAddressed, Addressed, AddressedTo
      <3> QED
        BY <1>6, <3>2
    <2> QED
      BY <2>1 DEF InboxAddressed, Addressed, AddressedTo
  <1>12. \A i \in DOMAIN inbox :
           inbox[i].kind = "answer" => inbox[i].to \in Nat /\ inbox[i].to <= issued
    BY <1>1, <1>2, <1>5 DEF Correlated, InboxAddressed, Addressed, AddressedTo
  <1>13. AnswersAreSingle'
    <2>1. ASSUME NEW i \in DOMAIN inbox', NEW j \in DOMAIN inbox', i # j
          PROVE  i + k # j + k
      BY <1>0, <2>1
    <2>2. ASSUME NEW i \in DOMAIN inbox', inbox'[i].kind = "answer"
          PROVE  inbox'[i].to \notin unanswered'
      <3>1. i + k \in DOMAIN inbox /\ inbox'[i] = inbox[i + k]
        BY <1>0
      <3>2. inbox'[i].to \notin unanswered
        BY <2>2, <3>1 DEF Correlated, AnswersAreSingle
      <3>3. inbox'[i].to # issued + 1
        BY <1>1, <1>12, <2>2, <3>1
      <3> QED
        BY <3>2, <3>3
    <2> QED
      BY <1>0, <2>1, <2>2 DEF Correlated, AnswersAreSingle
  <1>14. ASSUME NEW n, Waited(n), op \in Methods => n # Awaited
         PROVE  Waited(n)'
    BY <1>14 DEF Waited
  <1>15. ASSUME NEW n \in unanswered'
         PROVE  Waited(n)'
    <2>1. CASE n = issued + 1
      BY <1>8, <2>1 DEF Waited
    <2>2. CASE n # issued + 1
      <3>1. n \in unanswered /\ Waited(n)
        BY <1>15, <2>2 DEF Correlated, OutstandingIsWaited
      <3>2. op \in Methods => n # Awaited
        BY <3>1 DEF Correlated, AnswersAreSingle, Shifted
      <3> QED
        BY <1>14, <3>1, <3>2
    <2> QED
      BY <2>1, <2>2
  <1>16. ASSUME NEW i \in DOMAIN inbox', NEW n, n = inbox'[i].to, n # 0,
                inbox'[i].kind = "answer"
         PROVE  Waited(n)'
    <2>1. i + k \in DOMAIN inbox /\ inbox'[i] = inbox[i + k]
      BY <1>0, <1>16
    <2>2. Waited(n)
      BY <1>16, <2>1 DEF Correlated, OutstandingIsWaited
    <2>3. op \in Methods => n # Awaited
      BY <1>0, <1>16, <2>1 DEF Correlated, AnswersAreSingle
    <2> QED
      BY <1>14, <2>2, <2>3
  <1>17. OutstandingIsWaited'
    BY <1>15, <1>16 DEF OutstandingIsWaited, Waited
  <1> QED
    BY <1>8, <1>10, <1>11, <1>13, <1>17 DEF Correlated

\* A frame the peer sends: the one answer to a request, or no answer at all.
LEMMA CorrelatedDelivers ==
  ASSUME TypeInv, Correlated, NEW frame \in Frames, Deliver(frame),
         \/ /\ frame.kind = "answer" => frame.to = 0 /\ frame.id = 0
            /\ unanswered' = unanswered
         \/ /\ \E j \in DOMAIN requests : AddressedTo(frame, j)
            /\ frame.to \in unanswered /\ unanswered' = unanswered \ {frame.to}
  PROVE  Correlated'
PROOF
  <1> DEFINE last == Len(inbox) + 1
  <1>1. /\ inbox' = Append(inbox, frame)
        /\ UNCHANGED << control, up, requests, issued, abandoned, callbacks, locked >>
    BY DEF Deliver
  <1>2. inbox \in Seq(Frames) /\ unanswered \subseteq Nat \ {0}
    BY ClientAssumption DEF TypeInv, ClientTypeOK
  <1>3. Len(inbox) \in Nat /\ DOMAIN inbox = 1 .. Len(inbox)
    BY <1>2, LenProperties
  <1>4. /\ inbox' \in Seq(Frames) /\ Len(inbox') = last /\ inbox'[last] = frame
        /\ \A i \in 1 .. Len(inbox) : inbox'[i] = inbox[i]
    BY <1>1, <1>2, AppendProperties
  <1>5. DOMAIN inbox' = 1 .. last
    BY <1>4, LenProperties
  <1>6. /\ \A i \in DOMAIN inbox' : i = last \/ i \in DOMAIN inbox
        /\ \A i \in DOMAIN inbox : inbox'[i] = inbox[i] /\ i # last
        /\ inbox'[last] = frame
    BY <1>3, <1>4, <1>5
  <1> HIDE DEF last
  <1>7. UNCHANGED << op, next_id, requests, issued, abandoned >> /\ unanswered' \subseteq unanswered
    BY <1>1 DEF control
  <1>8. Ordered' /\ LastIsAwaited'
    BY <1>7 DEF Correlated, Ordered, LastIsAwaited
  <1>9. InboxAddressed'
    <2>1. Addressed(frame)
      BY DEF Addressed
    <2>2. \A i \in DOMAIN inbox : Addressed(inbox[i])
      BY DEF Correlated, InboxAddressed
    <2> QED
      BY <1>6, <1>7, <2>1, <2>2 DEF InboxAddressed, Addressed, AddressedTo
  <1>10. AnswersAreSingle'
    <2>1. ASSUME NEW i \in DOMAIN inbox, inbox[i].kind = "answer", frame.kind = "answer",
                 inbox[i].to = frame.to
          PROVE  inbox[i].to = 0
      BY <2>1 DEF Correlated, AnswersAreSingle
    <2>2. frame.kind = "answer" => frame.to \notin unanswered'
      BY <1>2
    <2> QED
      BY <1>6, <1>7, <2>1, <2>2 DEF Correlated, AnswersAreSingle
  <1>11. \A n : Waited(n) => Waited(n)'
    BY <1>7 DEF Waited, Awaited
  <1>12. ASSUME NEW i \in DOMAIN inbox', NEW n, n = inbox'[i].to, n # 0,
                inbox'[i].kind = "answer"
         PROVE  Waited(n)
    <2>1. CASE i = last
      BY <1>6, <1>12, <2>1 DEF Correlated, OutstandingIsWaited
    <2>2. CASE i # last
      BY <1>6, <1>12, <2>2 DEF Correlated, OutstandingIsWaited
    <2> QED
      BY <2>1, <2>2
  <1>13. \A n \in unanswered' : Waited(n)
    BY <1>7 DEF Correlated, OutstandingIsWaited
  <1>14. OutstandingIsWaited'
    BY <1>11, <1>12, <1>13 DEF OutstandingIsWaited, Waited
  <1> QED
    BY <1>8, <1>9, <1>10, <1>14 DEF Correlated

LEMMA CorrelatedReattaches ==
  ASSUME TypeInv, Correlated, reattach
  PROVE  Correlated'
PROOF
  <1>1. CASE reattach_connected
    <2> DEFINE begin == [no |-> issued + 1, id |-> 1, method |-> "begin",
                         over |-> 0, signature |-> "none"]
    <2>1. /\ op' = "begin" /\ next_id' = 2 /\ inbox' = << >> /\ issued' = issued + 1
          /\ requests' = << begin >> /\ unanswered' = {issued + 1}
      BY <1>1 DEF reattach_connected
    <2>2. begin.no = issued + 1 /\ begin.id = 1 /\ begin.method = "begin" /\ issued \in Nat
      BY ClientAssumption DEF TypeInv, ClientTypeOK
    <2> HIDE DEF begin
    <2>3. /\ DOMAIN requests' = {1} /\ requests'[1] = begin /\ Len(requests') = 1
          /\ DOMAIN inbox' = {}
      BY <2>1
    <2>4. Ordered'
      BY <2>1, <2>2, <2>3 DEF Ordered
    <2>5. LastIsAwaited' /\ Awaited' = issued + 1
      BY <2>1, <2>2, <2>3 DEF LastIsAwaited, Awaited, Methods
    <2>6. InboxAddressed' /\ AnswersAreSingle'
      BY <2>3 DEF InboxAddressed, AnswersAreSingle
    <2>7. OutstandingIsWaited'
      BY <2>1, <2>3, <2>5 DEF OutstandingIsWaited, Waited, Methods
    <2> QED
      BY <2>4, <2>5, <2>6, <2>7 DEF Correlated
  <1>2. CASE reattach_broken
    <2>1. /\ pc = "idle" /\ op' = op /\ inbox' = << >> /\ requests' = << >> /\ unanswered' = {}
      BY <1>2 DEF reattach, reattach_broken
    <2>2. op = "none"
      BY <2>1 DEF TypeInv, InProgress
    <2>3. DOMAIN requests' = {} /\ DOMAIN inbox' = {}
      BY <2>1
    <2> QED
      BY <2>1, <2>2, <2>3
        DEF Correlated, Ordered, LastIsAwaited, InboxAddressed, AnswersAreSingle,
            OutstandingIsWaited, Methods
  <1> QED
    BY <1>1, <1>2 DEF reattach

\* call, from an idle client or from an answered begin.
LEMMA CorrelatedCalls ==
  ASSUME TypeInv, Correlated, NEW k \in {0, 1}, Shifted(k), NEW method \in Methods,
         NEW over, NEW signature, call(method, next_id, over, signature),
         op \in Methods => k = 1 /\ inbox[1].kind = "answer" /\ inbox[1].to = Awaited
  PROVE  Correlated'
PROOF
  <1>1. CASE request_sent(method, next_id, over, signature)
    <2> DEFINE new == [no |-> issued + 1, id |-> next_id, method |-> method,
                       over |-> over, signature |-> signature]
    <2>1. /\ op' = method /\ issued' = issued + 1 /\ next_id' = next_id + 1
          /\ requests' = Append(requests, new) /\ unanswered' = unanswered \cup {issued + 1}
          /\ abandoned' = abandoned
      BY <1>1 DEF request_sent, call
    <2>2. new.no = issued + 1 /\ new.id = next_id /\ new.method = method
      OBVIOUS
    <2> HIDE DEF new
    <2> QED
      BY <2>1, <2>2, CorrelatedSends
  <1>2. CASE request_failed(method)
    <2>1. /\ op' = "none" /\ next_id' = next_id + 1
          /\ UNCHANGED << requests, issued, unanswered, abandoned >>
      BY <1>2 DEF request_failed, call
    <2>2. /\ op' \in {op, "none"} /\ next_id' \in {next_id, next_id + 1}
          /\ abandoned \subseteq abandoned'
      BY <2>1
    <2> QED
      BY <2>1, <2>2, CorrelatedEnds
  <1> QED
    BY <1>1, <1>2 DEF call

\* An answer under the awaited id is the answer to the awaited request; one under
\* another id is to a request given up before.
LEMMA MatchIsOwn ==
  ASSUME TypeInv, Correlated, op \in Methods, NEW frame, frame.kind = "answer",
         Addressed(frame), id_matches(frame)
  PROVE  frame.to = Awaited
PROOF
  <1>1. /\ Awaited = requests[Len(requests)].no /\ awaited_id = requests[Len(requests)].id
        /\ awaited_id > 0 /\ requests # << >>
    BY AwaitedType DEF TypeInv, InProgress
  <1>2. Len(requests) \in DOMAIN requests /\ DOMAIN requests = 1 .. Len(requests)
        /\ Len(requests) \in Nat
    <2>1. requests \in Seq(RequestType)
      BY DEF TypeInv, ClientTypeOK, RequestType
    <2> QED
      BY <1>1, <2>1, EmptySeq, LenProperties
  <1>3. frame.id # 0
    BY <1>1 DEF id_matches
  <1>4. PICK j \in DOMAIN requests : requests[j].no = frame.to /\ requests[j].id = frame.id
    BY <1>3 DEF Addressed, AddressedTo
  <1>5. ASSUME j # Len(requests)
        PROVE  FALSE
    <2>1. j < Len(requests)
      BY <1>2, <1>4, <1>5
    <2>2. requests[j].id < requests[Len(requests)].id
      BY <1>2, <1>4, <2>1 DEF Correlated, Ordered
    <2>3. requests[j].id \in 1 .. MaxRequests
      BY <1>4, RequestFields
    <2> QED
      BY <1>1, <1>4, <2>2, <2>3 DEF id_matches
  <1> QED
    BY <1>1, <1>4, <1>5

LEMMA MismatchIsEarlier ==
  ASSUME TypeInv, Correlated, op \in Methods, inbox # << >>, Head(inbox).kind = "answer",
         ~ id_matches(Head(inbox)), NEW i \in DOMAIN requests, requests[i].no = Head(inbox).to
  PROVE  Head(inbox).to \in abandoned /\ Head(inbox).to < Awaited
PROOF
  <1> DEFINE frame == Head(inbox)
  <1>1. Addressed(frame) /\ frame = inbox[1] /\ 1 \in DOMAIN inbox
    BY HeadIsAddressed DEF Correlated
  <1>2. frame.kind = "answer" /\ ~ id_matches(frame) /\ requests[i].no = frame.to
    OBVIOUS
  <1>3. inbox[1].kind = "answer" /\ inbox[1].to = frame.to
    BY <1>1
  <1> HIDE DEF frame
  <1>4. frame.to # 0
    <2>1. requests[i].no \in 1 .. MaxRequests
      BY RequestFields
    <2> QED
      BY <1>2, <2>1
  <1>5. PICK j \in DOMAIN requests : requests[j].no = frame.to /\ requests[j].id = frame.id
    BY <1>1, <1>2, <1>4 DEF Addressed, AddressedTo
  <1>6. /\ Awaited = requests[Len(requests)].no /\ awaited_id = requests[Len(requests)].id
        /\ requests # << >>
    BY AwaitedType DEF TypeInv, InProgress
  <1>7. Len(requests) \in DOMAIN requests /\ DOMAIN requests = 1 .. Len(requests)
        /\ Len(requests) \in Nat
    <2>1. requests \in Seq(RequestType)
      BY DEF TypeInv, ClientTypeOK, RequestType
    <2> QED
      BY <1>6, <2>1, EmptySeq, LenProperties
  <1>8. j # Len(requests)
    BY <1>2, <1>5, <1>6 DEF id_matches
  <1>9. j < Len(requests)
    BY <1>5, <1>7, <1>8
  <1>10. frame.to < Awaited
    BY <1>5, <1>6, <1>7, <1>9 DEF Correlated, Ordered
  <1>11. frame.to # Awaited
    <2>1. requests[j].no \in 1 .. MaxRequests /\ Awaited \in 0 .. MaxRequests
      BY <1>5, RequestFields, AwaitedType
    <2> QED
      BY <1>5, <1>10, <2>1, ClientAssumption
  <1>12. Waited(frame.to)
    BY <1>1, <1>3, <1>4 DEF Correlated, OutstandingIsWaited
  <1> QED
    BY <1>10, <1>11, <1>12 DEF Waited, frame

\* What the two properties say, and how they survive a step of each kind.
OwnSteps == OwnAnswers /\ MismatchIsStale

LEMMA OwnEnds ==
  ASSUME TypeInv, Correlated, OwnSteps, NEW outcome \in Outcomes,
         NEW answer \in 0 .. MaxRequests, Return(outcome, answer),
         UNCHANGED << next_id, requests, unanswered, issued >>, NEW k \in {0, 1}, Shifted(k),
         answer # 0 => k = 1 /\ inbox[1].kind = "answer" /\ inbox[1].to = answer,
         answer # 0 /\ outcome \notin {"IdMismatch", "NotASignCallback"} => answer = Awaited,
         outcome = "IdMismatch" /\ (\E i \in DOMAIN requests : requests[i].no = answer)
           => answer \in abandoned /\ answer < Awaited
  PROVE  Correlated' /\ OwnSteps'
PROOF
  <1>1. /\ op' = "none" /\ pc' = "idle"
        /\ result' = [op |-> op, outcome |-> outcome, request |-> Awaited, answer |-> answer]
    BY ReturnType
  <1>2. abandoned' = abandoned \cup ({Awaited} \ {0, answer})
    BY DEF Return
  <1>3. op \in Methods => Awaited > 0 /\ Awaited \in 0 .. MaxRequests
    BY AwaitedType
  <1>4. op \in Methods => Awaited \in abandoned' \/ answer = Awaited
    BY <1>2, <1>3, ClientAssumption
  <1>5. Correlated'
    <2>1. op' \in {op, "none"} /\ abandoned \subseteq abandoned' /\ next_id' \in {next_id, next_id + 1}
      BY <1>1, <1>2
    <2>2. op \in Methods /\ op' # op =>
            \/ Awaited \in abandoned'
            \/ k = 1 /\ inbox[1].kind = "answer" /\ inbox[1].to = Awaited
      BY <1>3, <1>4, ClientAssumption
    <2> QED
      BY <2>1, <2>2, CorrelatedEnds
  <1>6. OwnAnswers'
    BY <1>1 DEF OwnSteps, OwnAnswers
  <1>7. MismatchIsStale'
    BY <1>1, <1>2 DEF MismatchIsStale
  <1> QED
    BY <1>5, <1>6, <1>7 DEF OwnSteps

LEMMA OwnGoesOn ==
  ASSUME TypeInv, Correlated, OwnSteps, NEW k \in {0, 1}, Shifted(k), pc' \in {pc, "authorize", "recv"},
         UNCHANGED << op, result, next_id, requests, unanswered, issued, abandoned >>
  PROVE  Correlated' /\ OwnSteps'
PROOF
  <1>1. Correlated'
    BY CorrelatedEnds
  <1>2. OwnSteps'
    BY DEF OwnSteps, OwnAnswers, MismatchIsStale
  <1> QED
    BY <1>1, <1>2

LEMMA OwnCalls ==
  ASSUME TypeInv, Correlated, OwnSteps, NEW k \in {0, 1}, Shifted(k), NEW method \in Methods,
         NEW over, NEW signature, call(method, next_id, over, signature),
         op \in Methods => k = 1 /\ inbox[1].kind = "answer" /\ inbox[1].to = Awaited,
         method = "attach" => op = "begin" /\ over = Awaited
  PROVE  Correlated' /\ OwnSteps'
PROOF
  <1>1. Correlated'
    BY CorrelatedCalls
  <1>2. CASE request_failed(method)
    <2>1. /\ requests' = requests
          /\ result' = [op |-> method, outcome |-> "Io", request |-> 0, answer |-> 0]
      BY <1>2 DEF request_failed
    <2>2. OwnAnswers' /\ MismatchIsStale'
      BY <2>1 DEF OwnSteps, OwnAnswers, MismatchIsStale
    <2> QED
      BY <1>1, <2>2 DEF OwnSteps
  <1>3. CASE request_sent(method, next_id, over, signature)
    <2> DEFINE new == [no |-> issued + 1, id |-> next_id, method |-> method,
                       over |-> over, signature |-> signature]
               last == Len(requests) + 1
    <2>1. /\ pc' = "recv" /\ result' = result /\ requests' = Append(requests, new)
      BY <1>3 DEF request_sent
    <2>2. new.method = method /\ new.over = over
      OBVIOUS
    <2> HIDE DEF new
    <2>3. requests \in Seq(RequestType)
      BY DEF TypeInv, ClientTypeOK, RequestType
    <2>4. /\ Len(requests) \in Nat /\ DOMAIN requests = 1 .. Len(requests)
          /\ Len(requests') = last /\ requests'[last] = new
          /\ \A i \in 1 .. Len(requests) : requests'[i] = requests[i]
          /\ DOMAIN requests' = 1 .. Len(requests')
      BY <2>1, <2>3, AppendProperties, LenProperties
    <2>5. ASSUME NEW i \in DOMAIN requests', requests'[i].method = "attach"
          PROVE  /\ i > 1 /\ requests'[i - 1].method = "begin"
                 /\ requests'[i].over = requests'[i - 1].no
      <3>1. CASE i = last
        <4>1. op = "begin" /\ requests'[i].over = Awaited
          BY <2>2, <2>4, <2>5, <3>1
        <4>2. /\ requests # << >> /\ Awaited = requests[Len(requests)].no
              /\ requests[Len(requests)].method = "begin"
          BY <4>1, AwaitedType
            DEF TypeInv, InProgress, Correlated, LastIsAwaited, Methods
        <4>3. Len(requests) \in 1 .. Len(requests)
          BY <2>3, <2>4, <4>2, EmptySeq
        <4>4. i - 1 = Len(requests) /\ i > 1
          BY <2>4, <3>1, <4>3
        <4> QED
          BY <2>4, <4>1, <4>2, <4>3, <4>4
      <3>2. CASE i # last
        <4>1. i \in DOMAIN requests /\ requests'[i] = requests[i]
          BY <2>4, <3>2
        <4>2. /\ i > 1 /\ requests[i - 1].method = "begin"
              /\ requests[i].over = requests[i - 1].no
          BY <2>5, <4>1 DEF OwnSteps, OwnAnswers
        <4>3. i - 1 \in 1 .. Len(requests)
          BY <2>4, <4>1, <4>2
        <4> QED
          BY <2>4, <4>1, <4>2, <4>3
      <3> QED
        BY <3>1, <3>2
    <2>6. OwnAnswers'
      BY <2>1, <2>5 DEF OwnSteps, OwnAnswers
    <2>7. MismatchIsStale'
      BY <2>1 DEF MismatchIsStale
    <2> QED
      BY <1>1, <2>6, <2>7 DEF OwnSteps
  <1> QED
    BY <1>2, <1>3 DEF call

LEMMA OwnReadsAnswer ==
  ASSUME TypeInv, Correlated, OwnSteps, pc = "recv", inbox # << >>, inbox' = Tail(inbox),
         Head(inbox).kind = "answer", read_answer(Head(inbox))
  PROVE  Correlated' /\ OwnSteps'
PROOF
  <1> DEFINE frame == Head(inbox)
  <1>1. /\ frame \in Frames /\ Addressed(frame) /\ Shifted(1) /\ frame = inbox[1]
        /\ frame.kind = "answer" /\ read_answer(frame)
    BY FrameType, HeadIsAddressed, TailShifts DEF Correlated
  <1>2. frame.to \in 0 .. MaxRequests /\ inbox[1].kind = "answer" /\ inbox[1].to = frame.to
    BY <1>1, FrameFields
  <1>3. ASSUME NEW i \in DOMAIN requests, requests[i].no = frame.to, op \in Methods,
               ~ id_matches(frame)
        PROVE  frame.to \in abandoned /\ frame.to < Awaited
    BY <1>1, <1>3, MismatchIsEarlier
  <1> HIDE DEF frame
  <1>4. op \in Methods /\ id_matches(frame) => frame.to = Awaited
    BY <1>1, MatchIsOwn
  <1>5. ASSUME NEW outcome \in Outcomes, Return(outcome, frame.to),
               UNCHANGED << next_id, requests, unanswered, issued >>,
               \/ outcome = "NotASignCallback"
               \/ op \in Methods /\ id_matches(frame) /\ outcome # "IdMismatch"
               \/ op \in Methods /\ ~ id_matches(frame) /\ outcome = "IdMismatch"
        PROVE  Correlated' /\ OwnSteps'
    <2>1. frame.to # 0 /\ outcome \notin {"IdMismatch", "NotASignCallback"} => frame.to = Awaited
      BY <1>4, <1>5
    <2>2. outcome = "IdMismatch" /\ (\E i \in DOMAIN requests : requests[i].no = frame.to)
            => frame.to \in abandoned /\ frame.to < Awaited
      BY <1>3, <1>5
    <2> QED
      BY <1>1, <1>2, <1>5, <2>1, <2>2, OwnEnds
  <1>6. CASE op = "handle"
    <2>1. /\ Return("NotASignCallback", frame.to) /\ "NotASignCallback" \in Outcomes
          /\ UNCHANGED << next_id, requests, unanswered, issued >>
      BY <1>1, <1>6 DEF read_answer, Outcomes
    <2> QED
      BY <1>5, <2>1
  <1>7. CASE op # "handle"
    <2>1. op \in Methods
      BY <1>7 DEF TypeInv, ClientTypeOK, InProgress
    <2>2. frame.body \in {"ok", "error", "none", "bad_type", "bad_base64", "bad_length"}
      BY <1>1, FrameFields
    <2>3. answer_verdict(frame) # "IdMismatch" <=> id_matches(frame)
      BY <2>2 DEF answer_verdict
    <2>4. CASE answer_verdict(frame) # "Ok" /\ Return(answer_verdict(frame), frame.to)
                 /\ UNCHANGED << next_id, handles, requests, unanswered, issued, callbacks >>
      <3>1. answer_verdict(frame) \in Outcomes
        BY <1>1, VerdictType
      <3> QED
        BY <1>5, <2>1, <2>3, <2>4, <3>1
    <2>5. CASE answer_verdict(frame) = "Ok" /\ op = "begin" /\ begin_answered(frame)
      <3>1. id_matches(frame) /\ frame.to = Awaited
        BY <1>4, <2>1, <2>3, <2>5
      <3>2. CASE try_sign = "none"
        <4>1. /\ Return("Locked", frame.to) /\ "Locked" \in Outcomes /\ "Locked" # "IdMismatch"
              /\ UNCHANGED << next_id, requests, unanswered, issued >>
          BY <2>5, <3>2 DEF begin_answered, Outcomes
        <4> QED
          BY <1>5, <2>1, <3>1, <4>1
      <3>3. CASE try_sign # "none"
        <4>1. call("attach", next_id, frame.to, try_sign) /\ "attach" \in Methods
          BY <2>5, <3>3 DEF begin_answered, Methods
        <4> QED
          BY <1>1, <1>2, <2>5, <3>1, <4>1, OwnCalls
      <3> QED
        BY <3>2, <3>3
    <2>6. CASE /\ answer_verdict(frame) = "Ok" /\ Return("Ok", frame.to)
               /\ UNCHANGED << next_id, requests, unanswered, issued, callbacks >>
      <3>1. "Ok" \in Outcomes /\ "Ok" # "IdMismatch"
        BY DEF Outcomes
      <3> QED
        BY <1>5, <2>1, <2>3, <2>6, <3>1
    <2> QED
      BY <1>1, <1>7, <2>4, <2>5, <2>6 DEF read_answer, attach_answered, detach_answered
  <1> QED
    BY <1>6, <1>7

\* A reply to a callback.
LEMMA OwnReplies ==
  ASSUME TypeInv, Correlated, OwnSteps, NEW k \in {0, 1}, Shifted(k),
         NEW id, NEW params, NEW decision, send_reply(id, params, decision),
         UNCHANGED << next_id, requests, unanswered, issued >>
  PROVE  Correlated' /\ OwnSteps'
PROOF
  <1>1. 0 \in 0 .. MaxRequests /\ "Io" \in Outcomes /\ "Io" # "IdMismatch"
    BY ClientAssumption DEF Outcomes
  <1>2. CASE reply_failed
    <2>1. Return("Io", 0)
      BY <1>2 DEF reply_failed
    <2> QED
      BY <1>1, <2>1, OwnEnds
  <1>3. CASE reply_sent(id, params, decision) /\ op = "handle"
    <2>1. Return(report(params, decision), 0)
      BY <1>3 DEF reply_sent
    <2>2. report(params, decision) \in Outcomes /\ report(params, decision) # "IdMismatch"
      BY DEF report, Outcomes
    <2> QED
      BY <1>1, <2>1, <2>2, OwnEnds
  <1>4. CASE reply_sent(id, params, decision) /\ op # "handle"
    <2>1. pc' = "recv" /\ UNCHANGED << op, result, abandoned >>
      BY <1>4 DEF reply_sent
    <2> QED
      BY <2>1, OwnGoesOn
  <1> QED
    BY <1>2, <1>3, <1>4 DEF send_reply

LEMMA OwnReceives ==
  ASSUME TypeInv, Correlated, OwnSteps, recv_frame
  PROVE  Correlated' /\ OwnSteps'
PROOF
  <1> DEFINE frame == Head(inbox)
  <1>1. /\ pc = "recv" /\ inbox # << >> /\ inbox' = Tail(inbox)
        /\ \/ frame.kind = "unparsable" /\ recv_unparsable(frame)
           \/ frame.kind = "answer" /\ read_answer(frame)
           \/ /\ frame.kind = "sign" /\ read_callback(frame)
              /\ UNCHANGED << requests, unanswered, issued >>
    BY DEF recv_frame
  <1>2. Shifted(1)
    BY <1>1, TailShifts
  <1>3. 0 \in 0 .. MaxRequests
    BY ClientAssumption
  <1>4. ASSUME NEW outcome \in Outcomes, outcome # "IdMismatch", Return(outcome, 0),
               UNCHANGED << next_id, requests, unanswered, issued >>
        PROVE  Correlated' /\ OwnSteps'
    BY <1>2, <1>3, <1>4, OwnEnds
  <1>5. CASE frame.kind = "answer" /\ read_answer(frame)
    BY <1>1, <1>5, OwnReadsAnswer
  <1> HIDE DEF frame
  <1>6. CASE recv_unparsable(frame)
    <2>1. /\ Return("Frame", 0) /\ "Frame" \in Outcomes /\ "Frame" # "IdMismatch"
          /\ UNCHANGED << next_id, requests, unanswered, issued >>
      BY <1>6 DEF recv_unparsable, Outcomes
    <2> QED
      BY <1>4, <2>1
  <1>7. CASE read_callback(frame) /\ UNCHANGED << requests, unanswered, issued >>
    <2>1. CASE give_up(frame)
      <3>1. /\ Return("TooManyCallbacks", 0) /\ "TooManyCallbacks" \in Outcomes
            /\ "TooManyCallbacks" # "IdMismatch" /\ next_id' = next_id
        BY <2>1 DEF give_up, Outcomes
      <3> QED
        BY <1>4, <1>7, <3>1
    <2>2. CASE service_malformed(frame) /\ next_id' = next_id
      <3>1. Return("Frame", 0) /\ "Frame" \in Outcomes /\ "Frame" # "IdMismatch"
        BY <2>2 DEF service_malformed, Outcomes
      <3> QED
        BY <1>4, <1>7, <2>2, <3>1
    <2>3. CASE service_bad_base64(frame) /\ next_id' = next_id
      <3>1. send_reply(frame.id, frame.params, "none")
        BY <2>3 DEF service_bad_base64
      <3> QED
        BY <1>2, <1>7, <2>3, <3>1, OwnReplies
    <2>4. CASE ask_policy(frame) /\ next_id' = next_id
      <3>1. pc' = "authorize" /\ UNCHANGED << op, result, abandoned >>
        BY <2>4 DEF ask_policy
      <3> QED
        BY <1>2, <1>7, <2>4, <3>1, OwnGoesOn
    <2> QED
      BY <1>7, <2>1, <2>2, <2>3, <2>4 DEF read_callback
  <1> QED
    BY <1>1, <1>5, <1>6, <1>7

LEMMA OwnAppCalls ==
  ASSUME TypeInv, Correlated, OwnSteps, AppCalls
  PROVE  Correlated' /\ OwnSteps'
PROOF
  <1>1. pc = "idle"
    BY DEF AppCalls, begin_and_attach, reattach, handle_next_sign_callback, client_detach
  <1>2. op \notin Methods
    BY <1>1 DEF TypeInv, InProgress, Methods
  <1>3. CASE begin_and_attach
    <2>1. call("begin", next_id, 0, "none") /\ inbox' = inbox /\ "begin" \in Methods
      BY <1>3 DEF begin_and_attach, Methods
    <2>2. Shifted(0)
      BY <2>1, SameShifts
    <2> QED
      BY <1>2, <2>1, <2>2, OwnCalls
  <1>4. ASSUME NEW handle \in handles, client_detach(handle)
        PROVE  Correlated' /\ OwnSteps'
    <2>1. call("detach", next_id, handle, "none") /\ inbox' = inbox /\ "detach" \in Methods
      BY <1>4 DEF client_detach, Methods
    <2>2. Shifted(0)
      BY <2>1, SameShifts
    <2> QED
      BY <1>2, <2>1, <2>2, OwnCalls
  <1>5. CASE reattach
    <2>1. Correlated'
      BY <1>5, CorrelatedReattaches
    <2>2. CASE reattach_connected
      <3>1. /\ pc' = "recv" /\ result' = result
            /\ requests' = << [no |-> issued + 1, id |-> 1, method |-> "begin",
                               over |-> 0, signature |-> "none"] >>
        BY <2>2 DEF reattach_connected
      <3>2. \A i \in DOMAIN requests' : requests'[i].method = "begin"
        BY <3>1
      <3> QED
        BY <2>1, <3>1, <3>2 DEF OwnSteps, OwnAnswers, MismatchIsStale
    <2>3. CASE reattach_broken
      <3>1. /\ requests' = << >>
            /\ result' = [op |-> "begin", outcome |-> "Io", request |-> 0, answer |-> 0]
        BY <2>3 DEF reattach_broken
      <3>2. DOMAIN requests' = {}
        BY <3>1
      <3> QED
        BY <2>1, <3>1, <3>2 DEF OwnSteps, OwnAnswers, MismatchIsStale
    <2> QED
      BY <1>5, <2>2, <2>3 DEF reattach
  <1>6. CASE handle_next_sign_callback
    <2>1. /\ op' = "handle" /\ pc' = "recv" /\ inbox' = inbox
          /\ UNCHANGED << next_id, result, requests, unanswered, issued, abandoned >>
      BY <1>6 DEF handle_next_sign_callback, connection
    <2>2. op = "none"
      BY <1>1 DEF TypeInv, InProgress
    <2>3. Correlated'
      BY <1>2, <2>1
        DEF Correlated, Ordered, LastIsAwaited, InboxAddressed, Addressed, AddressedTo,
            AnswersAreSingle, OutstandingIsWaited, Waited, Methods
    <2> QED
      BY <2>1, <2>3 DEF OwnSteps, OwnAnswers, MismatchIsStale
  <1> QED
    BY <1>3, <1>4, <1>5, <1>6 DEF AppCalls

LEMMA OwnPeerStep ==
  ASSUME TypeInv, Correlated, OwnSteps, PeerStep
  PROVE  Correlated' /\ OwnSteps'
PROOF
  <1>1. ASSUME NEW frame \in Frames, Deliver(frame),
               \/ /\ frame.kind = "answer" => frame.to = 0 /\ frame.id = 0
                  /\ unanswered' = unanswered
               \/ /\ \E j \in DOMAIN requests : AddressedTo(frame, j)
                  /\ frame.to \in unanswered /\ unanswered' = unanswered \ {frame.to}
        PROVE  Correlated' /\ OwnSteps'
    <2>1. Correlated'
      BY <1>1, CorrelatedDelivers
    <2>2. UNCHANGED << pc, result, requests, abandoned >>
      BY <1>1 DEF Deliver, control
    <2> QED
      BY <2>1, <2>2 DEF OwnSteps, OwnAnswers, MismatchIsStale
  <1>2. CASE PeerAnswers
    <2>1. PICK i \in DOMAIN requests : \E body \in Bodies(requests[i].method) :
            /\ requests[i].no \in unanswered
            /\ unanswered' = unanswered \ {requests[i].no}
            /\ Deliver(Answer(requests[i].no, requests[i].id, body))
      BY <1>2 DEF PeerAnswers
    <2>2. PICK body \in Bodies(requests[i].method) :
            /\ requests[i].no \in unanswered
            /\ unanswered' = unanswered \ {requests[i].no}
            /\ Deliver(Answer(requests[i].no, requests[i].id, body))
      BY <2>1
    <2> DEFINE frame == Answer(requests[i].no, requests[i].id, body)
    <2>3. frame \in Frames
      BY AnswerIsFrame
    <2>4. frame.to = requests[i].no /\ frame.id = requests[i].id
      BY DEF Answer
    <2>5. AddressedTo(frame, i)
      BY <2>4 DEF AddressedTo
    <2>6. frame.to \in unanswered /\ unanswered' = unanswered \ {frame.to} /\ Deliver(frame)
      BY <2>2, <2>4
    <2> HIDE DEF frame
    <2> QED
      BY <1>1, <2>3, <2>5, <2>6
  <1>3. CASE PeerCallsBack
    <2>1. PICK id \in CallbackIds, params \in Params : Deliver(Callback(id, params))
      BY <1>3 DEF PeerCallsBack
    <2>2. /\ Callback(id, params) \in Frames /\ unanswered' = unanswered
          /\ Callback(id, params).kind = "sign"
      BY <1>3 DEF Frames, PeerCallsBack, Callback
    <2> QED
      BY <1>1, <2>1, <2>2
  <1>4. CASE PeerSendsJunk
    <2>1. PICK frame \in {Unparsable, Answer(0, 0, "none")} : Deliver(frame)
      BY <1>4 DEF PeerSendsJunk
    <2>2. frame \in Frames /\ unanswered' = unanswered
      BY <1>4, ClientAssumption DEF Frames, PeerSendsJunk, Bodies
    <2>3. frame.kind = "answer" => frame.to = 0 /\ frame.id = 0
      BY <2>1 DEF Unparsable, Answer
    <2> QED
      BY <1>1, <2>1, <2>2, <2>3
  <1>5. CASE PeerCloses
    <2>1. /\ UNCHANGED << op, pc, result, next_id, inbox, requests, unanswered, issued,
                          abandoned >>
      BY <1>5 DEF PeerCloses, control
    <2>2. Shifted(0)
      BY <2>1, SameShifts
    <2> QED
      BY <2>1, <2>2, OwnGoesOn
  <1> QED
    BY <1>2, <1>3, <1>4, <1>5 DEF PeerStep

LEMMA OwnStep ==
  ASSUME TypeInv, Correlated, OwnSteps, [ClientNext]_client
  PROVE  Correlated' /\ OwnSteps'
PROOF
  <1>1. CASE recv_fails
    <2>1. /\ Return("Io", 0) /\ inbox' = inbox
          /\ UNCHANGED << next_id, requests, unanswered, issued >>
          /\ 0 \in 0 .. MaxRequests /\ "Io" \in Outcomes /\ "Io" # "IdMismatch"
      BY <1>1, ClientAssumption DEF recv_fails, Outcomes
    <2>2. Shifted(0)
      BY <2>1, SameShifts
    <2> QED
      BY <2>1, <2>2, OwnEnds
  <1>2. ASSUME NEW decision \in Decisions, authorize(decision)
        PROVE  Correlated' /\ OwnSteps'
    <2> DEFINE id == consumed[Len(consumed)].id
               params == consumed[Len(consumed)].params
    <2>1. /\ send_reply(id, params, decision) /\ inbox' = inbox
          /\ UNCHANGED << next_id, requests, unanswered, issued >>
      BY <1>2 DEF authorize
    <2>2. Shifted(0)
      BY <2>1, SameShifts
    <2> HIDE DEF id, params
    <2> QED
      BY <2>1, <2>2, OwnReplies
  <1>3. CASE UserLocks \/ UNCHANGED client
    <2>1. /\ UNCHANGED << op, pc, result, next_id, inbox, requests, unanswered, issued,
                          abandoned >>
      BY <1>3 DEF UserLocks, client, control, connection
    <2>2. Shifted(0)
      BY <2>1, SameShifts
    <2> QED
      BY <2>1, <2>2, OwnGoesOn
  <1> QED
    BY <1>1, <1>2, <1>3, OwnAppCalls, OwnReceives, OwnPeerStep DEF ClientNext, ClientStep, recv_eof

ClientInv == TypeInv /\ Correlated /\ OwnSteps

LEMMA ClientInvHolds == ClientSpec => []ClientInv
PROOF
  <1>1. ClientInit => ClientInv
    <2> SUFFICES ASSUME ClientInit
                 PROVE  ClientInv
      OBVIOUS
    <2>1. /\ op = "none" /\ pc = "idle" /\ next_id = 1 /\ awaited_id = 0
          /\ callbacks_serviced = 0 /\ handles = {} /\ result = NoResult
          /\ up = TRUE /\ inbox = << >> /\ requests = << >> /\ unanswered = {}
          /\ locked \in BOOLEAN /\ issued = 0 /\ abandoned = {}
          /\ consumed = << >> /\ replies = << >>
      BY DEF ClientInit
    <2>2. /\ inbox \in Seq(Frames) /\ Len(inbox) = 0 /\ requests \in Seq(RequestType)
          /\ consumed \in Seq(ConsumedType) /\ replies \in Seq(ReplyType)
      BY <2>1
    <2>3. NoResult \in ResultType /\ MaxRequests \in Nat /\ MaxInbox \in Nat
          /\ MAX_INTERLEAVED_CALLBACKS \in Nat
      BY ClientAssumption DEF NoResult, ResultType, Outcomes
    <2>4. ClientTypeOK
      BY <2>1, <2>2, <2>3 DEF ClientTypeOK, RequestType, ResultType, ConsumedType, ReplyType
    <2>5. InProgress
      BY <2>1 DEF InProgress, Methods
    <2>6. DOMAIN inbox = {} /\ DOMAIN requests = {}
      BY <2>1
    <2>7. Correlated
      BY <2>1, <2>6
        DEF Correlated, Ordered, LastIsAwaited, InboxAddressed, AnswersAreSingle,
            OutstandingIsWaited, Methods
    <2>8. OwnSteps
      BY <2>1, <2>6 DEF OwnSteps, OwnAnswers, MismatchIsStale, NoResult
    <2> QED
      BY <2>4, <2>5, <2>7, <2>8 DEF ClientInv, TypeInv
  <1>2. ClientInv /\ [ClientNext]_client => ClientInv'
    <2> SUFFICES ASSUME ClientInv, [ClientNext]_client
                 PROVE  ClientInv'
      OBVIOUS
    <2>1. TypeInv /\ Correlated /\ OwnSteps /\ InboxAddressed
      BY DEF ClientInv, Correlated
    <2> QED
      BY <2>1, TypeStep, OwnStep DEF ClientInv
  <1> QED
    BY <1>1, <1>2, PTL DEF ClientSpec

(***************************************************************************)
(* Every state of the client is well-typed (client.rs): in particular the  *)
(* callbacks of a call never exceed the limit, and ids count from 1.       *)
(***************************************************************************)
THEOREM ClientTypes == ClientSpec => []ClientTypeOK
PROOF
  <1>1. ClientInv => ClientTypeOK
    BY DEF ClientInv, TypeInv
  <1> QED
    BY <1>1, ClientInvHolds, PTL

(***************************************************************************)
(* A call is ended by the answer to its own request (read_response, call,  *)
(* reattach), whatever was given up before, on however many connections,   *)
(* and an attach signs the challenge of its own begin.                     *)
(***************************************************************************)
THEOREM OwnAnswersTheorem == ClientSpec => []OwnAnswers
PROOF
  <1>1. ClientInv => OwnAnswers
    BY DEF ClientInv, OwnSteps
  <1> QED
    BY <1>1, ClientInvHolds, PTL

(***************************************************************************)
(* A mismatch on an answer of this connection comes of an earlier call     *)
(* that was given up before its answer (SessionError::IdMismatch).         *)
(***************************************************************************)
THEOREM MismatchTheorem == ClientSpec => []MismatchIsStale
PROOF
  <1>1. ClientInv => MismatchIsStale
    BY DEF ClientInv, OwnSteps
  <1> QED
    BY <1>1, ClientInvHolds, PTL
=============================================================================
