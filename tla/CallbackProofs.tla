--------------------------- MODULE CallbackProofs ---------------------------
(***************************************************************************)
(* The servicing of sign callbacks by SessionClient, for any limit and any *)
(* number of them: what is signed was allowed, every callback is answered  *)
(* once, in order and under its id, the limit is exact, the audit decision *)
(* is true.                                                                *)
(***************************************************************************)
EXTENDS SessionClientProofs

\* While an operation is in progress: as many replies as the counter says, and
\* a callback without one only while the policy is asked about it.
Counted ==
  /\ pc = "recv" => Len(consumed) = Len(replies)
  /\ pc = "authorize" => Len(consumed) = Len(replies) + 1
  /\ op \in Methods => callbacks_serviced = Len(replies)
  /\ op = "handle" => Len(replies) = 0

GaveUpAtLimit ==
  result.outcome = "TooManyCallbacks" /\ pc = "idle" =>
    /\ Len(replies) = MAX_INTERLEAVED_CALLBACKS
    /\ Len(consumed) = MAX_INTERLEAVED_CALLBACKS + 1

\* The replies there are, each to the callback at its place.
Answers(i) ==
  /\ replies[i].id = consumed[i].id
  /\ replies[i].body \in {"key", "zero"} =>
       /\ replies[i].body = "key"
       /\ consumed[i].decision = "Allow" /\ consumed[i].params = "good"

Serviced ==
  /\ Len(consumed) - Len(replies) \in {0, 1}
  /\ \A i \in DOMAIN replies : Answers(i)
  /\ Len(consumed) > Len(replies) =>
       \/ pc = "authorize"
       \/ pc = "idle" /\ result.outcome \in {"TooManyCallbacks", "Frame", "Io"}

NoZeroSignature == \A i \in DOMAIN requests : requests[i].signature # "zero"

CallbackInv ==
  Counted /\ GaveUpAtLimit /\ Serviced /\ AuditIsTruthful /\ NoZeroSignature

\* An operation in progress is a call or the handling of one callback.
LEMMA BusyOps ==
  ASSUME TypeInv
  PROVE  /\ pc # "idle" => op \in Methods \cup {"handle"}
         /\ pc = "idle" => op = "none"
         /\ consumed \in Seq(ConsumedType) /\ Len(consumed) \in Nat
         /\ replies \in Seq(ReplyType) /\ Len(replies) \in Nat
         /\ DOMAIN replies = 1 .. Len(replies)
PROOF
  <1>1. consumed \in Seq(ConsumedType) /\ replies \in Seq(ReplyType)
    BY DEF TypeInv, ClientTypeOK, ConsumedType, ReplyType
  <1>2. /\ Len(consumed) \in Nat /\ Len(replies) \in Nat /\ DOMAIN replies = 1 .. Len(replies)
    BY <1>1, LenProperties
  <1>3. /\ pc # "idle" => op \in Methods \cup {"handle"}
        /\ pc = "idle" => op = "none"
    BY DEF TypeInv, ClientTypeOK, InProgress
  <1> QED
    BY <1>1, <1>2, <1>3

\* An operation starts, with nothing read or answered yet.
LEMMA ServicesFromStart ==
  ASSUME NoZeroSignature', consumed' = << >>, replies' = << >>, pc' = "recv",
         op' \in Methods => callbacks_serviced' = 0
  PROVE  CallbackInv'
PROOF
  <1>1. Len(consumed') = 0 /\ Len(replies') = 0 /\ DOMAIN replies' = {}
    OBVIOUS
  <1>2. Counted'
    BY <1>1 DEF Counted
  <1>3. GaveUpAtLimit' /\ AuditIsTruthful'
    BY DEF GaveUpAtLimit, AuditIsTruthful
  <1>4. Serviced'
    BY <1>1 DEF Serviced
  <1> QED
    BY <1>2, <1>3, <1>4 DEF CallbackInv

\* An operation ends, or fails at its start, with no callback read in the step.
LEMMA ServicesToEnd ==
  ASSUME TypeInv, CallbackInv, pc # "authorize", NoZeroSignature',
         UNCHANGED << consumed, replies >>, op' = "none", pc' = "idle",
         result'.outcome # "TooManyCallbacks",
         result'.op = "handle" => result'.outcome \notin {"Ok", "Denied"},
         pc = "recv" \/ result'.outcome = "Io"
  PROVE  CallbackInv'
PROOF
  <1>1. Counted' /\ GaveUpAtLimit' /\ AuditIsTruthful'
    BY DEF Counted, GaveUpAtLimit, AuditIsTruthful, Methods
  <1>2. pc = "recv" => Len(consumed) = Len(replies)
    BY DEF CallbackInv, Counted
  <1>3. Len(replies) \in Nat
    BY BusyOps
  <1>4. Serviced'
    BY <1>2, <1>3 DEF CallbackInv, Serviced, Answers
  <1> QED
    BY <1>1, <1>4 DEF CallbackInv

\* A step that concerns no callback.
LEMMA ServicesUnchanged ==
  ASSUME CallbackInv, NoZeroSignature',
         UNCHANGED << op, pc, callbacks_serviced, result, consumed, replies >>
  PROVE  CallbackInv'
PROOF
  BY DEF CallbackInv, Counted, GaveUpAtLimit, Serviced, Answers, AuditIsTruthful

\* What a reply says.
LEMMA ReplyBody ==
  ASSUME NEW params \in {"good", "long_type", "bad_base64"},
         NEW decision \in Decisions \cup {"none"}, decision = "none" => params = "bad_base64"
  PROVE  /\ reply_body(params, decision) \in {"key", "SIGN_DENIED", "LOCKED"}
         /\ reply_body(params, decision) = "key" => params = "good" /\ decision = "Allow"
         /\ report(params, decision) \in {"Ok", "Denied"}
         /\ report(params, decision) = "Ok" <=> reply_body(params, decision) = "key"
PROOF
  <1>1. decision \in {"Allow", "Deny", "none"}
    BY DEF Decisions
  <1>2. reply_body(params, decision) \in {"key", "SIGN_DENIED", "LOCKED"}
    BY DEF reply_body, try_sign
  <1>3. reply_body(params, decision) = "key" => params = "good" /\ decision = "Allow"
    BY <1>1 DEF reply_body
  <1> QED
    BY <1>2, <1>3 DEF report

\* A reply to the last callback read.
LEMMA ServicesReply ==
  ASSUME TypeInv, CallbackInv, pc \in {"recv", "authorize"},
         requests' = requests,
         NEW id \in CallbackIds, NEW params \in {"good", "long_type", "bad_base64"},
         NEW decision \in Decisions \cup {"none"}, decision = "none" => params = "bad_base64",
         send_reply(id, params, decision),
         consumed' \in Seq(ConsumedType), Len(consumed') = Len(replies) + 1,
         consumed'[Len(replies) + 1] = [id |-> id, params |-> params, decision |-> decision],
         \A i \in DOMAIN replies : consumed'[i] = consumed[i]
  PROVE  CallbackInv'
PROOF
  <1> DEFINE reply == [id |-> id, body |-> reply_body(params, decision)]
             n == Len(replies) + 1
  <1>1. /\ op \in Methods \cup {"handle"} /\ replies \in Seq(ReplyType)
        /\ Len(replies) \in Nat /\ DOMAIN replies = 1 .. Len(replies)
    BY BusyOps
  <1>2. /\ op \in Methods => callbacks_serviced = Len(replies)
        /\ op = "handle" => Len(replies) = 0
        /\ \A i \in DOMAIN replies : Answers(i)
    BY DEF CallbackInv, Counted, Serviced
  <1>3. /\ reply.id = id /\ reply.body \in {"key", "SIGN_DENIED", "LOCKED"}
        /\ reply.body = "key" => params = "good" /\ decision = "Allow"
        /\ reply.body = "key" <=> report(params, decision) = "Ok"
        /\ report(params, decision) \in {"Ok", "Denied"}
        /\ reply \in ReplyType
    BY ReplyBody DEF ReplyType
  <1>4. NoZeroSignature'
    BY DEF CallbackInv, NoZeroSignature
  <1>5. /\ consumed'[n].id = id /\ consumed'[n].params = params
        /\ consumed'[n].decision = decision
    OBVIOUS
  <1>6. reply_sent(id, params, decision) => replies' = Append(replies, reply)
    BY DEF reply_sent
  <1> HIDE DEF reply
  <1>7. CASE reply_failed
    <2>1. Return("Io", 0) /\ replies' = replies
      BY <1>7 DEF reply_failed
    <2>2. /\ op' = "none" /\ pc' = "idle"
          /\ result' = [op |-> op, outcome |-> "Io", request |-> Awaited, answer |-> 0]
      BY <2>1 DEF Return
    <2>3. Counted' /\ GaveUpAtLimit' /\ AuditIsTruthful'
      BY <2>2 DEF Counted, GaveUpAtLimit, AuditIsTruthful, Methods
    <2>4. \A i \in DOMAIN replies' : Answers(i)'
      BY <1>2, <2>1 DEF Answers
    <2>5. Len(consumed') - Len(replies') = 1
      BY <1>1, <2>1
    <2>6. Serviced'
      BY <2>2, <2>4, <2>5 DEF Serviced
    <2> QED
      BY <1>4, <2>3, <2>6 DEF CallbackInv
  <1>8. CASE reply_sent(id, params, decision)
    <2>1. /\ replies' \in Seq(ReplyType) /\ Len(replies') = n /\ replies'[n] = reply
          /\ \A i \in 1 .. Len(replies) : replies'[i] = replies[i]
      <3>1. replies \in Seq(ReplyType) /\ reply \in ReplyType
              /\ replies' = Append(replies, reply)
        BY <1>1, <1>3, <1>6, <1>8
      <3> QED
        BY <3>1, AppendProperties
    <2>2. DOMAIN replies' = 1 .. n
      BY <2>1, LenProperties
    <2>3. ASSUME NEW i \in DOMAIN replies'
          PROVE  Answers(i)'
      <3>1. CASE i = n
        BY <1>3, <1>5, <2>1, <3>1 DEF Answers
      <3>2. CASE i # n
        <4>1. i \in DOMAIN replies
          BY <1>1, <2>2, <2>3, <3>2
        <4> QED
          BY <1>1, <1>2, <2>1, <4>1 DEF Answers
      <3> QED
        BY <3>1, <3>2
    <2>4. Len(consumed') = Len(replies')
      BY <2>1
    <2>5. Serviced'
      <3>1. Len(replies') \in Nat
        BY <1>1, <2>1
      <3> QED
        BY <2>3, <2>4, <3>1 DEF Serviced
    <2>6. CASE op = "handle"
      <3>1. Return(report(params, decision), 0)
        BY <1>8, <2>6 DEF reply_sent
      <3>2. /\ op' = "none" /\ pc' = "idle"
            /\ result' = [op |-> op, outcome |-> report(params, decision),
                          request |-> Awaited, answer |-> 0]
        BY <3>1 DEF Return
      <3>3. Counted' /\ GaveUpAtLimit'
        BY <1>3, <3>2 DEF Counted, GaveUpAtLimit, Methods
      <3>4. n = 1
        BY <1>1, <1>2, <2>6
      <3>5. AuditIsTruthful'
        BY <1>3, <2>1, <3>2, <3>4 DEF AuditIsTruthful
      <3> QED
        BY <1>4, <2>5, <3>3, <3>5 DEF CallbackInv
    <2>7. CASE op # "handle"
      <3>1. pc' = "recv" /\ callbacks_serviced' = callbacks_serviced + 1 /\ op' = op
        BY <1>8, <2>7 DEF reply_sent, count_callback
      <3>2. callbacks_serviced' = n
        BY <1>1, <1>2, <2>7, <3>1
      <3>3. Counted'
        BY <2>1, <2>4, <2>7, <3>1, <3>2 DEF Counted
      <3>4. GaveUpAtLimit' /\ AuditIsTruthful'
        BY <3>1 DEF GaveUpAtLimit, AuditIsTruthful
      <3> QED
        BY <1>4, <2>5, <3>3, <3>4 DEF CallbackInv
    <2> QED
      BY <2>6, <2>7
  <1> QED
    BY <1>7, <1>8 DEF send_reply

LEMMA ServicesCallback ==
  ASSUME TypeInv, CallbackInv, pc = "recv", NEW frame \in Frames, frame.kind = "sign",
         read_callback(frame), requests' = requests
  PROVE  CallbackInv'
PROOF
  <1>1. /\ op \in Methods \cup {"handle"} /\ Len(replies) \in Nat /\ Len(consumed) \in Nat
        /\ DOMAIN replies = 1 .. Len(replies)
    BY BusyOps
  <1>2. /\ op \in Methods => callbacks_serviced = Len(replies)
        /\ op = "handle" => Len(replies) = 0
        /\ \A i \in DOMAIN replies : Answers(i)
        /\ Len(consumed) = Len(replies)
    BY DEF CallbackInv, Counted, Serviced
  <1>3. NoZeroSignature'
    BY DEF CallbackInv, NoZeroSignature
  <1>4. Consume(frame)
    BY DEF read_callback, give_up
  <1>5. /\ consumed' \in Seq(ConsumedType) /\ Len(consumed') = Len(consumed) + 1
        /\ consumed'[Len(consumed')] =
             [id |-> frame.id, params |-> frame.params, decision |-> "none"]
        /\ \A i \in 1 .. Len(consumed) : consumed'[i] = consumed[i]
    BY <1>4, ConsumeType
  <1>6. /\ Len(consumed') = Len(replies) + 1
        /\ \A i \in DOMAIN replies : consumed'[i] = consumed[i]
    BY <1>1, <1>2, <1>5
  <1>7. frame.id \in CallbackIds /\ frame.params \in Params
    BY FrameFields
  <1>8. replies' = replies =>
          (\A i \in DOMAIN replies' : Answers(i)') /\ Len(consumed') - Len(replies') = 1
    BY <1>1, <1>2, <1>6 DEF Answers
  <1>9. CASE give_up(frame)
    <2>1. /\ Return("TooManyCallbacks", 0) /\ replies' = replies
          /\ op # "handle" /\ too_many
      BY <1>9 DEF give_up
    <2>2. /\ op' = "none" /\ pc' = "idle"
          /\ result' = [op |-> op, outcome |-> "TooManyCallbacks", request |-> Awaited,
                        answer |-> 0]
      BY <2>1 DEF Return
    <2>3. Counted' /\ AuditIsTruthful'
      BY <2>2 DEF Counted, AuditIsTruthful, Methods
    <2>4. Len(replies) = MAX_INTERLEAVED_CALLBACKS
      <3>1. /\ callbacks_serviced \in 0 .. MAX_INTERLEAVED_CALLBACKS
            /\ MAX_INTERLEAVED_CALLBACKS \in Nat
        BY ClientAssumption DEF TypeInv, ClientTypeOK
      <3>2. callbacks_serviced + 1 > MAX_INTERLEAVED_CALLBACKS
        BY <2>1 DEF too_many
      <3>3. callbacks_serviced = Len(replies)
        BY <1>1, <1>2, <2>1
      <3> QED
        BY <3>1, <3>2, <3>3
    <2>5. GaveUpAtLimit'
      BY <1>6, <2>1, <2>4 DEF GaveUpAtLimit
    <2>6. Serviced'
      BY <1>8, <2>1, <2>2 DEF Serviced
    <2> QED
      BY <1>3, <2>3, <2>5, <2>6 DEF CallbackInv
  <1>10. CASE service_malformed(frame)
    <2>1. Return("Frame", 0) /\ replies' = replies
      BY <1>10 DEF service_malformed
    <2>2. /\ op' = "none" /\ pc' = "idle"
          /\ result' = [op |-> op, outcome |-> "Frame", request |-> Awaited, answer |-> 0]
      BY <2>1 DEF Return
    <2>3. Counted' /\ AuditIsTruthful' /\ GaveUpAtLimit'
      BY <2>2 DEF Counted, AuditIsTruthful, GaveUpAtLimit, Methods
    <2>4. Serviced'
      BY <1>8, <2>1, <2>2 DEF Serviced
    <2> QED
      BY <1>3, <2>3, <2>4 DEF CallbackInv
  <1>11. CASE service_bad_base64(frame)
    <2>1. frame.params = "bad_base64" /\ send_reply(frame.id, frame.params, "none")
      BY <1>11 DEF service_bad_base64
    <2>2. consumed'[Len(replies) + 1] =
            [id |-> frame.id, params |-> frame.params, decision |-> "none"]
      BY <1>5, <1>6
    <2> QED
      BY <1>5, <1>6, <1>7, <2>1, <2>2, ServicesReply
  <1>12. CASE ask_policy(frame)
    <2>1. pc' = "authorize" /\ UNCHANGED << op, callbacks_serviced, result, replies >>
      BY <1>12 DEF ask_policy
    <2>2. Counted'
      BY <1>2, <1>6, <2>1 DEF Counted
    <2>3. AuditIsTruthful' /\ GaveUpAtLimit'
      BY <2>1 DEF AuditIsTruthful, GaveUpAtLimit
    <2>4. Serviced'
      BY <1>8, <2>1 DEF Serviced
    <2> QED
      BY <1>3, <2>2, <2>3, <2>4 DEF CallbackInv
  <1> QED
    BY <1>9, <1>10, <1>11, <1>12 DEF read_callback

LEMMA ServicesAuthorize ==
  ASSUME TypeInv, CallbackInv, NEW decision \in Decisions, authorize(decision)
  PROVE  CallbackInv'
PROOF
  <1> DEFINE n == Len(consumed)
             id == consumed[n].id
             params == consumed[n].params
  <1>1. /\ pc = "authorize" /\ consumed' = [consumed EXCEPT ![n].decision = decision]
        /\ send_reply(id, params, decision) /\ requests' = requests
    BY DEF authorize
  <1>2. /\ consumed \in Seq(ConsumedType) /\ Len(consumed) \in Nat /\ Len(replies) \in Nat
        /\ DOMAIN replies = 1 .. Len(replies)
    BY BusyOps
  <1>3. n = Len(replies) + 1
    BY <1>1 DEF CallbackInv, Counted
  <1>4. n \in 1 .. Len(consumed)
    BY <1>2, <1>3
  <1>5. consumed[n] \in ConsumedType
    BY <1>2, <1>4, ElementOfSeq
  <1>6. params \in {"good", "long_type"}
    BY <1>1 DEF TypeInv, InProgress
  <1>7. id \in CallbackIds
    BY <1>5 DEF ConsumedType
  <1> DEFINE new == [consumed[n] EXCEPT !.decision = decision]
  <1>8. new = [id |-> id, params |-> params, decision |-> decision] /\ new \in ConsumedType
    BY <1>5 DEF ConsumedType
  <1>9. consumed' = [consumed EXCEPT ![n] = new]
    BY <1>1
  <1> HIDE DEF new, n, id, params
  <1>10. /\ consumed' \in Seq(ConsumedType) /\ Len(consumed') = Len(consumed)
         /\ \A j \in 1 .. Len(consumed) : consumed'[j] = IF j = n THEN new ELSE consumed[j]
    BY <1>2, <1>4, <1>8, <1>9, ExceptSeq
  <1>11. /\ Len(consumed') = Len(replies) + 1
         /\ consumed'[Len(replies) + 1] =
              [id |-> id, params |-> params, decision |-> decision]
    BY <1>3, <1>4, <1>8, <1>10 DEF n
  <1>12. \A i \in DOMAIN replies : consumed'[i] = consumed[i]
    <2>1. \A i \in DOMAIN replies : i \in 1 .. Len(consumed) /\ i # n
      BY <1>2, <1>3 DEF n
    <2> QED
      BY <1>10, <2>1
  <1>13. decision # "none"
    BY DEF Decisions
  <1> QED
    BY <1>1, <1>6, <1>7, <1>10, <1>11, <1>12, <1>13, ServicesReply

\* call, from an idle client or from an answered begin.
LEMMA ServicesCall ==
  ASSUME TypeInv, CallbackInv, pc # "authorize", NEW method \in Methods, NEW id, NEW over,
         NEW signature \in {"none", "key"}, call(method, id, over, signature)
  PROVE  CallbackInv'
PROOF
  <1>1. CASE request_sent(method, id, over, signature)
    <2> DEFINE new == [no |-> issued + 1, id |-> id, method |-> method,
                       over |-> over, signature |-> signature]
    <2>1. /\ pc' = "recv" /\ callbacks_serviced' = 0 /\ consumed' = << >> /\ replies' = << >>
          /\ requests' = Append(requests, new)
      BY <1>1 DEF request_sent
    <2>2. new.signature # "zero"
      OBVIOUS
    <2> HIDE DEF new
    <2>3. requests \in Seq(RequestType)
      BY DEF TypeInv, ClientTypeOK, RequestType
    <2>4. /\ Len(requests) \in Nat /\ DOMAIN requests = 1 .. Len(requests)
          /\ requests'[Len(requests) + 1] = new
          /\ Len(requests') = Len(requests) + 1
          /\ \A i \in 1 .. Len(requests) : requests'[i] = requests[i]
          /\ DOMAIN requests' = 1 .. Len(requests')
      BY <2>1, <2>3, AppendProperties, LenProperties
    <2>5. \A i \in DOMAIN requests' : i \in DOMAIN requests \/ i = Len(requests) + 1
      BY <2>4
    <2>6. NoZeroSignature'
      BY <2>2, <2>4, <2>5 DEF CallbackInv, NoZeroSignature
    <2> QED
      BY <2>1, <2>6, ServicesFromStart
  <1>2. CASE request_failed(method)
    <2>1. /\ op' = "none" /\ pc' = "idle" /\ UNCHANGED << requests, consumed, replies >>
          /\ result' = [op |-> method, outcome |-> "Io", request |-> 0, answer |-> 0]
      BY <1>2 DEF request_failed, callbacks
    <2>2. NoZeroSignature'
      BY <2>1 DEF CallbackInv, NoZeroSignature
    <2>3. result'.outcome = "Io" /\ result'.op # "handle"
      BY <2>1 DEF Methods
    <2> QED
      BY <2>1, <2>2, <2>3, ServicesToEnd
  <1> QED
    BY <1>1, <1>2 DEF call

\* An answer, or the end of the connection, ends the operation.
LEMMA ServicesReturn ==
  ASSUME TypeInv, CallbackInv, pc = "recv", NEW outcome, NEW answer, Return(outcome, answer),
         UNCHANGED << requests, callbacks >>, outcome # "TooManyCallbacks",
         op = "handle" => outcome \notin {"Ok", "Denied"}
  PROVE  CallbackInv'
PROOF
  <1>1. /\ op' = "none" /\ pc' = "idle" /\ UNCHANGED << consumed, replies >>
        /\ result'.outcome = outcome /\ result'.op = op
    BY DEF Return, callbacks
  <1>2. NoZeroSignature'
    BY DEF CallbackInv, NoZeroSignature
  <1> QED
    BY <1>1, <1>2, ServicesToEnd

LEMMA ServicesAnswer ==
  ASSUME TypeInv, CallbackInv, pc = "recv", NEW frame \in Frames, frame.kind = "answer",
         read_answer(frame)
  PROVE  CallbackInv'
PROOF
  <1>1. CASE op = "handle"
    <2>1. /\ Return("NotASignCallback", frame.to) /\ UNCHANGED << requests, callbacks >>
      BY <1>1 DEF read_answer
    <2> QED
      BY <2>1, ServicesReturn
  <1>2. CASE op # "handle"
    <2>1. frame.body \in {"ok", "error", "none", "bad_type", "bad_base64", "bad_length"}
      BY FrameFields
    <2>2. answer_verdict(frame) # "TooManyCallbacks"
      BY <2>1 DEF answer_verdict
    <2>3. CASE Return(answer_verdict(frame), frame.to) /\ UNCHANGED << requests, callbacks >>
      BY <1>2, <2>2, <2>3, ServicesReturn
    <2>4. CASE begin_answered(frame)
      <3>1. CASE try_sign = "none"
        <4>1. Return("Locked", frame.to) /\ UNCHANGED << requests, callbacks >>
          BY <2>4, <3>1 DEF begin_answered
        <4> QED
          BY <4>1, ServicesReturn
      <3>2. CASE try_sign # "none"
        <4>1. /\ call("attach", next_id, frame.to, try_sign) /\ "attach" \in Methods
              /\ try_sign \in {"none", "key"}
          BY <2>4, <3>2 DEF begin_answered, Methods, try_sign
        <4> QED
          BY <4>1, ServicesCall
      <3> QED
        BY <3>1, <3>2
    <2>5. CASE Return("Ok", frame.to) /\ UNCHANGED << requests, callbacks >>
      BY <1>2, <2>5, ServicesReturn
    <2> QED
      BY <1>2, <2>3, <2>4, <2>5 DEF read_answer, attach_answered, detach_answered
  <1> QED
    BY <1>1, <1>2

LEMMA ServicesAppCalls ==
  ASSUME TypeInv, CallbackInv, AppCalls
  PROVE  CallbackInv'
PROOF
  <1>1. pc = "idle"
    BY DEF AppCalls, begin_and_attach, reattach, handle_next_sign_callback, client_detach
  <1>2. CASE begin_and_attach
    <2>1. call("begin", next_id, 0, "none") /\ "begin" \in Methods
      BY <1>2 DEF begin_and_attach, Methods
    <2> QED
      BY <1>1, <2>1, ServicesCall
  <1>3. ASSUME NEW handle \in handles, client_detach(handle)
        PROVE  CallbackInv'
    <2>1. call("detach", next_id, handle, "none") /\ "detach" \in Methods
      BY <1>3 DEF client_detach, Methods
    <2> QED
      BY <1>1, <2>1, ServicesCall
  <1>4. CASE reattach_connected
    <2>1. /\ pc' = "recv" /\ callbacks_serviced' = 0 /\ consumed' = << >> /\ replies' = << >>
          /\ requests' = << [no |-> issued + 1, id |-> 1, method |-> "begin",
                             over |-> 0, signature |-> "none"] >>
      BY <1>4 DEF reattach_connected
    <2>2. NoZeroSignature'
      BY <2>1 DEF NoZeroSignature
    <2> QED
      BY <2>1, <2>2, ServicesFromStart
  <1>5. CASE reattach_broken
    <2>1. /\ requests' = << >> /\ UNCHANGED << op, pc, consumed, replies >>
          /\ result' = [op |-> "begin", outcome |-> "Io", request |-> 0, answer |-> 0]
      BY <1>5 DEF reattach_broken, callbacks
    <2>2. NoZeroSignature'
      BY <2>1 DEF NoZeroSignature
    <2>3. result'.outcome = "Io" /\ result'.op # "handle" /\ op' = "none" /\ pc' = "idle"
      BY <1>1, <2>1, BusyOps
    <2> QED
      BY <1>1, <2>1, <2>2, <2>3, ServicesToEnd
  <1>6. CASE handle_next_sign_callback
    <2>1. /\ pc' = "recv" /\ op' = "handle" /\ consumed' = << >> /\ replies' = << >>
          /\ requests' = requests
      BY <1>6 DEF handle_next_sign_callback, connection
    <2>2. NoZeroSignature' /\ op' \notin Methods
      BY <2>1 DEF CallbackInv, NoZeroSignature, Methods
    <2> QED
      BY <2>1, <2>2, ServicesFromStart
  <1> QED
    BY <1>2, <1>3, <1>4, <1>5, <1>6 DEF AppCalls, reattach

LEMMA ServicesStep ==
  ASSUME TypeInv, CallbackInv, [ClientNext]_client
  PROVE  CallbackInv'
PROOF
  <1>1. CASE recv_fails
    <2>1. pc = "recv" /\ Return("Io", 0) /\ UNCHANGED << requests, callbacks >>
      BY <1>1 DEF recv_fails
    <2> QED
      BY <2>1, ServicesReturn
  <1>2. CASE recv_frame
    <2> DEFINE frame == Head(inbox)
    <2>1. /\ pc = "recv" /\ inbox # << >>
          /\ \/ frame.kind = "unparsable" /\ recv_unparsable(frame)
             \/ frame.kind = "answer" /\ read_answer(frame)
             \/ /\ frame.kind = "sign" /\ read_callback(frame)
                /\ UNCHANGED << requests, unanswered, issued >>
      BY <1>2 DEF recv_frame
    <2>2. frame \in Frames
      BY <2>1, FrameType
    <2> HIDE DEF frame
    <2>3. CASE recv_unparsable(frame)
      <3>1. Return("Frame", 0) /\ UNCHANGED << requests, callbacks >>
        BY <2>3 DEF recv_unparsable
      <3> QED
        BY <2>1, <3>1, ServicesReturn
    <2>4. CASE frame.kind = "answer" /\ read_answer(frame)
      BY <2>1, <2>2, <2>4, ServicesAnswer
    <2>5. CASE /\ frame.kind = "sign" /\ read_callback(frame)
               /\ UNCHANGED << requests, unanswered, issued >>
      BY <2>1, <2>2, <2>5, ServicesCallback
    <2> QED
      BY <2>1, <2>3, <2>4, <2>5
  <1>3. CASE PeerStep \/ UserLocks \/ UNCHANGED client
    <2>1. UNCHANGED << op, pc, callbacks_serviced, result, consumed, replies, requests >>
      BY <1>3
        DEF PeerStep, PeerAnswers, PeerCallsBack, PeerSendsJunk, PeerCloses, Deliver,
            UserLocks, client, control, connection, callbacks
    <2>2. NoZeroSignature'
      BY <2>1 DEF CallbackInv, NoZeroSignature
    <2> QED
      BY <2>1, <2>2, ServicesUnchanged
  <1>4. ASSUME NEW decision \in Decisions, authorize(decision)
        PROVE  CallbackInv'
    BY <1>4, ServicesAuthorize
  <1> QED
    BY <1>1, <1>2, <1>3, <1>4, ServicesAppCalls DEF ClientNext, ClientStep, recv_eof

LEMMA CallbackInvHolds == ClientSpec => [](TypeInv /\ CallbackInv)
PROOF
  <1>1. ClientInit => CallbackInv
    <2> SUFFICES ASSUME ClientInit
                 PROVE  CallbackInv
      OBVIOUS
    <2>1. /\ consumed = << >> /\ replies = << >> /\ requests = << >>
          /\ op = "none" /\ pc = "idle" /\ result.outcome = "Ok" /\ result.op = "none"
      BY DEF ClientInit, NoResult
    <2>2. Len(consumed) = 0 /\ Len(replies) = 0 /\ DOMAIN replies = {} /\ DOMAIN requests = {}
      BY <2>1
    <2> QED
      BY <2>1, <2>2
        DEF CallbackInv, Counted, GaveUpAtLimit, Serviced, AuditIsTruthful, NoZeroSignature,
            Methods
  <1>2. TypeInv /\ CallbackInv /\ [ClientNext]_client => CallbackInv'
    BY ServicesStep
  <1>3. ClientInv => TypeInv
    BY DEF ClientInv
  <1> QED
    BY <1>1, <1>2, <1>3, ClientInvHolds, PTL DEF ClientSpec

(***************************************************************************)
(* Custody (service_sign_callback, begin_and_attach): every signature on   *)
(* the wire was allowed, for that callback, and none is the all-zero one   *)
(* of a locked profile.                                                    *)
(***************************************************************************)
THEOREM CustodyTheorem == ClientSpec => []Custody
PROOF
  <1>1. CallbackInv => Custody
    BY DEF CallbackInv, Serviced, Answers, NoZeroSignature, Custody
  <1> QED
    BY <1>1, CallbackInvHolds, PTL

(***************************************************************************)
(* Every callback read is answered once, in order, under its own id        *)
(* (read_response, service_sign_callback), but for the last one of a call  *)
(* that fails.                                                             *)
(***************************************************************************)
THEOREM CallbacksTheorem == ClientSpec => []CallbacksAnswered
PROOF
  <1>1. CallbackInv => CallbacksAnswered
    BY DEF CallbackInv, Serviced, Answers, CallbacksAnswered
  <1> QED
    BY <1>1, CallbackInvHolds, PTL

(***************************************************************************)
(* The limit of read_response is exact, whatever MAX_INTERLEAVED_CALLBACKS *)
(* is.                                                                     *)
(***************************************************************************)
THEOREM FloodLimitTheorem == ClientSpec => []FloodLimit
PROOF
  <1>1. TypeInv /\ CallbackInv => FloodLimit
    <2> SUFFICES ASSUME TypeInv, CallbackInv
                 PROVE  FloodLimit
      OBVIOUS
    <2>1. /\ callbacks_serviced \in 0 .. MAX_INTERLEAVED_CALLBACKS
          /\ MAX_INTERLEAVED_CALLBACKS \in Nat
      BY ClientAssumption DEF TypeInv, ClientTypeOK
    <2>2. op \in Methods => callbacks_serviced = Len(replies)
      BY DEF CallbackInv, Counted
    <2>3. op \in Methods => Len(replies) <= MAX_INTERLEAVED_CALLBACKS
      BY <2>1, <2>2
    <2> QED
      BY <2>3 DEF CallbackInv, GaveUpAtLimit, FloodLimit
  <1> QED
    BY <1>1, CallbackInvHolds, PTL

(***************************************************************************)
(* The decision handle_next_sign_callback returns is Allow exactly when a  *)
(* signature went out.                                                     *)
(***************************************************************************)
THEOREM AuditTheorem == ClientSpec => []AuditIsTruthful
PROOF
  <1>1. CallbackInv => AuditIsTruthful
    BY DEF CallbackInv
  <1> QED
    BY <1>1, CallbackInvHolds, PTL
=============================================================================
