------------------------- MODULE LineTransportProofs ------------------------
(***************************************************************************)
(* What LineTransport guarantees for frames of any number and length and   *)
(* any limit: its state stays well-typed whatever faults happen; on a      *)
(* clean connection it keeps the contract of FrameTransport; and on any    *)
(* connection a fault costs only the frames it hit.                        *)
(***************************************************************************)
EXTENDS LineTransport, NatLemmas, SequenceTheorems, FiniteSetTheorems, TLAPS

(***************************************************************************)
(* The operators on bytes.                                                 *)
(***************************************************************************)

\* A frame on the wire.
LEMMA LineIs ==
  ASSUME NEW n \in 1 .. MaxSent, NEW frame \in Seq(Chars)
  PROVE  /\ line(n, frame) \in Seq(Byte)
         /\ Len(line(n, frame)) = Len(frame) + 1
         /\ \A k \in 1 .. Len(frame) + 1 :
              /\ line(n, frame)[k] \in Byte
              /\ line(n, frame)[k].no = n /\ line(n, frame)[k].at = k
              /\ line(n, frame)[k].ch = IF k <= Len(frame) THEN frame[k] ELSE "nl"
PROOF
  <1> DEFINE m == Len(frame) + 1
             byte(k) == [no |-> n, at |-> k,
                         ch |-> IF k <= Len(frame) THEN frame[k] ELSE "nl"]
  <1>1. m \in Nat
    BY LenProperties
  <1>2. ASSUME NEW k \in 1 .. m
        PROVE  byte(k) \in Byte
    <2>1. k <= Len(frame) => frame[k] \in Chars
      BY ElementOfSeq
    <2>2. "nl" \in Chars
      BY DEF Chars
    <2> QED
      BY <1>1, <2>1, <2>2 DEF Byte
  <1>3. line(n, frame) = [k \in 1 .. m |-> byte(k)]
    BY DEF line
  <1> HIDE DEF m
  <1>4. line(n, frame) \in [1 .. m -> Byte]
    BY <1>2, <1>3
  <1>5. line(n, frame) \in Seq(Byte) /\ Len(line(n, frame)) = m
    BY <1>1, <1>4, SeqDef, LenProperties
  <1> QED
    BY <1>2, <1>3, <1>5 DEF m

LEMMA TextIs ==
  ASSUME NEW bytes \in Seq(Byte)
  PROVE  /\ Text(bytes) \in Seq(Chars) /\ Len(Text(bytes)) = Len(bytes)
         /\ \A i \in 1 .. Len(bytes) : Text(bytes)[i] = bytes[i].ch
         /\ Numbers(bytes) \subseteq 1 .. MaxSent
PROOF
  <1>1. Len(bytes) \in Nat /\ DOMAIN bytes = 1 .. Len(bytes)
    BY LenProperties
  <1>2. ASSUME NEW i \in 1 .. Len(bytes)
        PROVE  bytes[i].ch \in Chars /\ bytes[i].no \in 1 .. MaxSent
    <2>1. bytes[i] \in Byte
      BY ElementOfSeq
    <2> QED
      BY <2>1 DEF Byte
  <1>3. Text(bytes) \in [1 .. Len(bytes) -> Chars]
    BY <1>1, <1>2 DEF Text
  <1>4. Text(bytes) \in Seq(Chars) /\ Len(Text(bytes)) = Len(bytes)
    BY <1>1, <1>3, SeqDef, LenProperties
  <1> QED
    BY <1>1, <1>2, <1>4 DEF Text, Numbers

LEMMA TrimIs ==
  ASSUME NEW text \in Seq(Chars)
  PROVE  \E n \in 0 .. Len(text) :
           /\ n = Max({0} \cup {i \in DOMAIN text : text[i] \notin {"nl", "cr"}})
           /\ trim_end(text) = SubSeq(text, 1, n)
           /\ trim_end(text) \in Seq(Chars) /\ Len(trim_end(text)) = n
           /\ \A i \in 1 .. n : trim_end(text)[i] = text[i]
           /\ n > 0 => text[n] \notin {"nl", "cr"}
           /\ \A i \in n + 1 .. Len(text) : text[i] \in {"nl", "cr"}
PROOF
  <1> DEFINE T == {0} \cup {i \in DOMAIN text : text[i] \notin {"nl", "cr"}}
             n == Max(T)
  <1>1. Len(text) \in Nat /\ DOMAIN text = 1 .. Len(text)
    BY LenProperties
  <1>2. T \in SUBSET (0 .. Len(text)) /\ T # {}
    BY <1>1
  <1>3. n \in T /\ \A i \in T : i <= n
    BY <1>1, <1>2, MaxOfNats
  <1>4. n \in 0 .. Len(text)
    BY <1>2, <1>3
  <1>5. n > 0 => text[n] \notin {"nl", "cr"}
    BY <1>3
  <1>6. \A i \in n + 1 .. Len(text) : text[i] \in {"nl", "cr"}
    BY <1>1, <1>3, <1>4
  <1>7. trim_end(text) = SubSeq(text, 1, n)
    BY DEF trim_end
  <1> HIDE DEF n, T
  <1>8. \A i \in 1 .. n : text[i] \in Chars
    BY <1>1, <1>4, ElementOfSeq
  <1>9. /\ SubSeq(text, 1, n) \in Seq(Chars)
        /\ Len(SubSeq(text, 1, n)) = n
        /\ \A i \in 1 .. n : SubSeq(text, 1, n)[i] = text[i]
    <2>1. /\ SubSeq(text, 1, n) \in Seq(Chars)
          /\ Len(SubSeq(text, 1, n)) = IF 1 <= n THEN n - 1 + 1 ELSE 0
          /\ \A i \in 1 .. n - 1 + 1 : SubSeq(text, 1, n)[i] = text[1 + i - 1]
      BY <1>1, <1>4, <1>8, SubSeqProperties
    <2> QED
      BY <1>1, <1>4, <2>1
  <1> QED
    BY <1>4, <1>5, <1>6, <1>7, <1>9 DEF n, T
-----------------------------------------------------------------------------
(***************************************************************************)
(* Type correctness.                                                       *)
(***************************************************************************)
LEMMA ReturnType ==
  ASSUME TypeOK, NEW bytes \in Seq(Byte), Return(bytes)
  PROVE  /\ pc' = "idle" /\ buf' = << >>
         /\ result' \in {"Ok", "UnexpectedEof", "InvalidData"}
         /\ received' \in Seq(Seq(Chars))
         /\ origin' \in Seq(SUBSET (1 .. MaxSent)) /\ Len(origin') = Len(received')
PROOF
  <1>1. pc' = "idle" /\ buf' = << >> /\ result' = verdict(bytes)
    BY DEF Return
  <1>2. verdict(bytes) \in {"Ok", "UnexpectedEof", "InvalidData"}
    BY DEF verdict
  <1>3. /\ received \in Seq(Seq(Chars)) /\ origin \in Seq(SUBSET (1 .. MaxSent))
        /\ Len(origin) = Len(received)
    BY DEF TypeOK
  <1>4. CASE verdict(bytes) = "Ok"
    <2>1. /\ received' = Append(received, trim_end(Text(bytes)))
          /\ origin' = Append(origin, Numbers(bytes))
      BY <1>4 DEF Return
    <2>2. trim_end(Text(bytes)) \in Seq(Chars) /\ Numbers(bytes) \in SUBSET (1 .. MaxSent)
      BY TextIs, TrimIs
    <2> QED
      BY <1>1, <1>2, <1>3, <2>1, <2>2, AppendProperties
  <1>5. CASE verdict(bytes) # "Ok"
    BY <1>1, <1>2, <1>3, <1>5 DEF Return
  <1> QED
    BY <1>4, <1>5

LEMMA SendFrameType ==
  ASSUME TypeOK, NEW frame \in Frames, send_frame(frame)
  PROVE  TypeOK'
PROOF
  <1>1. /\ sent \in Seq(Frames) /\ Len(sent) \in Nat /\ Len(sent) < MaxSent
        /\ frame \in Seq(Chars) /\ MaxSent \in Nat
    BY TransportAssumption, LenProperties DEF TypeOK, send_frame
  <1>2. sent' \in Seq(Frames) /\ Len(sent') = Len(sent) + 1
    BY <1>1, AppendProperties DEF send_frame
  <1>3. rest' \in Seq(Byte)
    BY <1>1, LineIs DEF send_frame
  <1> QED
    BY <1>1, <1>2, <1>3 DEF TypeOK, send_frame, receiver

LEMMA WriteByteType ==
  ASSUME TypeOK, write_byte
  PROVE  TypeOK'
PROOF
  <1>1. rest \in Seq(Byte) /\ rest # << >> /\ pipe \in Seq(Byte)
    BY DEF TypeOK, write_byte
  <1>2. Head(rest) \in Byte /\ Tail(rest) \in Seq(Byte)
    BY <1>1, HeadTailProperties
  <1>3. Append(pipe, Head(rest)) \in Seq(Byte)
    BY <1>1, <1>2, AppendProperties
  <1> QED
    BY <1>2, <1>3 DEF TypeOK, write_byte, receiver

\* Something is being written only after it was sent.
RestIsSent == rest # << >> => Len(sent) > 0

LEMMA FaultType ==
  ASSUME TypeOK, RestIsSent, write_fails \/ close \/ close_within_frame
  PROVE  TypeOK'
PROOF
  <1>1. /\ sent \in Seq(Frames) /\ Len(sent) \in Nat /\ Len(sent) <= MaxSent
        /\ MaxSent \in Nat /\ hit \subseteq 1 .. MaxSent + 1
    BY TransportAssumption, LenProperties DEF TypeOK
  <1>2. << >> \in Seq(Byte)
    OBVIOUS
  <1>3. CASE write_fails
    <2>1. hit' \subseteq hit \cup {Len(sent), Len(sent) + 1}
      BY <1>3 DEF write_fails
    <2>2. {Len(sent), Len(sent) + 1} \subseteq 1 .. MaxSent + 1
      <3>1. Len(sent) > 0
        BY <1>3 DEF write_fails, RestIsSent
      <3> QED
        BY <1>1, <3>1
    <2>3. hit' \subseteq 1 .. MaxSent + 1
      BY <1>1, <2>1, <2>2, Zenon
    <2> QED
      BY <1>2, <1>3, <2>3 DEF TypeOK, write_fails, receiver
  <1>4. CASE close
    BY <1>4 DEF TypeOK, close, receiver
  <1>5. CASE close_within_frame
    <2>1. hit' \subseteq 1 .. MaxSent + 1
      <3>1. Len(sent) > 0 /\ hit' = hit \cup {Len(sent)}
        BY <1>5 DEF close_within_frame, RestIsSent
      <3>2. Len(sent) \in 1 .. MaxSent + 1
        BY <1>1, <3>1
      <3> QED
        BY <1>1, <3>1, <3>2, Zenon
    <2> QED
      BY <1>2, <1>5, <2>1 DEF TypeOK, close_within_frame, receiver
  <1> QED
    BY <1>3, <1>4, <1>5

\* One more byte of a recv_frame call.
LEMMA NextByte ==
  ASSUME TypeOK, pipe # << >>, NEW bytes, bytes = Append(buf, Head(pipe))
  PROVE  /\ Head(pipe) \in Byte /\ Tail(pipe) \in Seq(Byte)
         /\ bytes \in Seq(Byte) /\ Len(bytes) = Len(buf) + 1
         /\ \A i \in 1 .. Len(buf) : bytes[i] = buf[i]
         /\ bytes[Len(bytes)] = Head(pipe)
PROOF
  <1>1. pipe \in Seq(Byte) /\ buf \in Seq(Byte)
    BY DEF TypeOK
  <1>2. Head(pipe) \in Byte /\ Tail(pipe) \in Seq(Byte)
    BY <1>1, HeadTailProperties
  <1> QED
    BY <1>1, <1>2, AppendProperties

LEMMA ReceiveType ==
  ASSUME TypeOK, Receive \/ read_fails
  PROVE  TypeOK'
PROOF
  <1>0. /\ MAX_FRAME_BYTES \in Nat \ {0} /\ buf \in Seq(Byte) /\ Len(buf) \in Nat
        /\ Len(buf) < MAX_FRAME_BYTES /\ << >> \in Seq(Byte) /\ Len(<< >>) = 0
    BY TransportAssumption, LenProperties DEF TypeOK
  <1>1. CASE recv_frame
    BY <1>1 DEF TypeOK, recv_frame, sender
  <1>2. CASE read_byte
    <2> DEFINE bytes == Append(buf, Head(pipe))
    <2>1. /\ Tail(pipe) \in Seq(Byte) /\ bytes \in Seq(Byte)
          /\ Len(bytes) = Len(buf) + 1
      BY <1>2, NextByte DEF read_byte
    <2>2. pipe' = Tail(pipe) /\ UNCHANGED << sender, hit >>
      BY <1>2 DEF read_byte
    <2> HIDE DEF bytes
    <2>3. CASE stops(bytes) /\ Return(bytes)
      <3>1. /\ pc' = "idle" /\ buf' = << >>
            /\ result' \in {"Ok", "UnexpectedEof", "InvalidData"}
            /\ received' \in Seq(Seq(Chars))
            /\ origin' \in Seq(SUBSET (1 .. MaxSent)) /\ Len(origin') = Len(received')
        BY <2>1, <2>3, ReturnType
      <3> QED
        BY <1>0, <2>1, <2>2, <3>1 DEF TypeOK, sender
    <2>4. CASE /\ ~ stops(bytes) /\ buf' = bytes
               /\ UNCHANGED << pc, result, received, origin >>
      <3>1. Len(bytes) # MAX_FRAME_BYTES
        BY <2>4 DEF stops
      <3>2. Len(buf') < MAX_FRAME_BYTES
        BY <1>0, <2>1, <2>4, <3>1
      <3> QED
        BY <2>1, <2>2, <2>4, <3>2 DEF TypeOK, sender
    <2> QED
      BY <1>2, <2>3, <2>4 DEF read_byte, bytes
  <1>3. CASE read_end
    <2>1. /\ pc' = "idle" /\ buf' = << >>
          /\ result' \in {"Ok", "UnexpectedEof", "InvalidData"}
          /\ received' \in Seq(Seq(Chars))
          /\ origin' \in Seq(SUBSET (1 .. MaxSent)) /\ Len(origin') = Len(received')
      BY <1>0, <1>3, ReturnType DEF read_end
    <2> QED
      BY <1>0, <1>3, <2>1 DEF TypeOK, read_end, sender
  <1>4. CASE read_fails
    <2>1. Numbers(buf) \subseteq 1 .. MaxSent + 1
      <3>1. Numbers(buf) \subseteq 1 .. MaxSent
        BY <1>0, TextIs
      <3> QED
        BY <3>1, TransportAssumption
    <2>2. hit' \subseteq 1 .. MaxSent + 1
      <3>1. hit \subseteq 1 .. MaxSent + 1 /\ hit' = hit \cup Numbers(buf)
        BY <1>4 DEF TypeOK, read_fails
      <3> QED
        BY <2>1, <3>1, Zenon
    <2> QED
      BY <1>0, <1>4, <2>2 DEF TypeOK, read_fails, sender
  <1> QED
    BY <1>1, <1>2, <1>3, <1>4 DEF Receive

LEMMA RestIsSentStep ==
  ASSUME TypeOK, RestIsSent, [Next]_vars
  PROVE  RestIsSent'
PROOF
  <1>1. ASSUME NEW frame \in Frames, send_frame(frame)
        PROVE  RestIsSent'
    BY <1>1, AppendProperties, LenProperties DEF send_frame, RestIsSent, TypeOK
  <1>2. CASE write_byte
    BY <1>2 DEF write_byte, RestIsSent
  <1>3. CASE write_fails \/ close \/ close_within_frame
    BY <1>3 DEF write_fails, close, close_within_frame, RestIsSent
  <1>4. CASE Receive \/ read_fails
    BY <1>4 DEF Receive, recv_frame, read_byte, read_end, read_fails, sender, RestIsSent
  <1>5. CASE UNCHANGED vars
    BY <1>5 DEF vars, sender, RestIsSent
  <1> QED
    BY <1>1, <1>2, <1>3, <1>4, <1>5 DEF Next

(***************************************************************************)
(* The state of transport.rs's sender and receiver has its types, and a    *)
(* recv_frame in progress never holds MAX_FRAME_BYTES bytes or more        *)
(* (bounds.rs), for all frames and faults.                                 *)
(***************************************************************************)
THEOREM TransportTypes == Spec => []TypeOK
PROOF
  <1>1. Init => TypeOK /\ RestIsSent
    <2> SUFFICES ASSUME Init
                 PROVE  TypeOK /\ RestIsSent
      OBVIOUS
    <2>1. \A S : << >> \in Seq(S) /\ Len(<< >>) = 0
      OBVIOUS
    <2> QED
      BY <2>1, TransportAssumption DEF Init, TypeOK, RestIsSent
  <1>2. TypeOK /\ RestIsSent /\ [Next]_vars => TypeOK' /\ RestIsSent'
    <2> SUFFICES ASSUME TypeOK, RestIsSent, [Next]_vars
                 PROVE  TypeOK'
      BY RestIsSentStep
    <2>1. CASE UNCHANGED vars
      BY <2>1 DEF vars, sender, receiver, TypeOK
    <2> QED
      BY <2>1, SendFrameType, WriteByteType, FaultType, ReceiveType DEF Next
  <1> QED
    BY <1>1, <1>2, PTL DEF Spec
-----------------------------------------------------------------------------
(***************************************************************************)
(* The contract.  The bytes on their way, those in the pipe followed by    *)
(* those the sender has yet to write, are bytes of sent frames in order,   *)
(* from the one the receiver needs next to the newline of the last frame.  *)
(***************************************************************************)
LEMMA LineReturns ==
  ASSUME NEW frame \in Seq(Chars), is_utf8(frame),
         NEW bytes \in Seq(Byte), Len(bytes) = Len(frame) + 1,
         \A k \in 1 .. Len(frame) : bytes[k].ch = frame[k],
         bytes[Len(frame) + 1].ch = "nl"
  PROVE  /\ verdict(bytes) = "Ok"
         /\ trim_end(Text(bytes)) = trim_end(frame)
PROOF
  <1> DEFINE L == Len(frame)
             text == Text(bytes)
  <1>1. L \in Nat /\ DOMAIN frame = 1 .. L
    BY LenProperties
  <1>2. /\ text \in Seq(Chars) /\ Len(text) = L + 1 /\ DOMAIN text = 1 .. L + 1
        /\ \A k \in 1 .. L : text[k] = frame[k]
        /\ text[L + 1] = "nl"
    BY <1>1, TextIs, LenProperties
  <1> HIDE DEF text
  <1>3. is_utf8(frame)
    OBVIOUS
  <1>4. is_utf8(text)
    <2> SUFFICES ASSUME NEW i \in 1 .. L + 1
                 PROVE  /\ text[i] = "lead" => i < Len(text) /\ text[i + 1] = "cont"
                        /\ text[i] = "cont" => i > 1 /\ text[i - 1] = "lead"
      BY <1>2 DEF is_utf8
    <2>1. CASE i = L + 1
      BY <1>2, <2>1
    <2>2. CASE i \in 1 .. L
      <3>1. /\ frame[i] = "lead" => i < L /\ frame[i + 1] = "cont"
            /\ frame[i] = "cont" => i > 1 /\ frame[i - 1] = "lead"
        BY <1>1, <1>3, <2>2 DEF is_utf8
      <3>2. i < L => text[i + 1] = frame[i + 1]
        BY <1>1, <1>2, <2>2
      <3>3. i > 1 => text[i - 1] = frame[i - 1]
        BY <1>1, <1>2, <2>2
      <3> QED
        BY <1>1, <1>2, <2>2, <3>1, <3>2, <3>3
    <2> QED
      BY <1>1, <2>1, <2>2
  <1>5. verdict(bytes) = "Ok"
    <2>1. bytes # << >>
      BY <1>1, LenProperties
    <2>2. ~ overlong(bytes)
      BY DEF overlong
    <2> QED
      BY <1>4, <2>1, <2>2 DEF verdict, text
  <1>6. trim_end(text) = trim_end(frame)
    <2>1. PICK n \in 0 .. L + 1 :
            /\ trim_end(text) \in Seq(Chars) /\ Len(trim_end(text)) = n
            /\ \A i \in 1 .. n : trim_end(text)[i] = text[i]
            /\ n > 0 => text[n] \notin {"nl", "cr"}
            /\ \A i \in n + 1 .. L + 1 : text[i] \in {"nl", "cr"}
      BY <1>2, TrimIs
    <2>2. PICK m \in 0 .. L :
            /\ trim_end(frame) \in Seq(Chars) /\ Len(trim_end(frame)) = m
            /\ \A i \in 1 .. m : trim_end(frame)[i] = frame[i]
            /\ m > 0 => frame[m] \notin {"nl", "cr"}
            /\ \A i \in m + 1 .. L : frame[i] \in {"nl", "cr"}
      BY TrimIs
    <2>3. n # L + 1
      BY <1>1, <1>2, <2>1
    <2> HIDE DEF L
    <2>4. n \in 0 .. L
      BY <1>1, <2>3
    <2>5. ~ (n < m)
      <3>1. ASSUME n < m
            PROVE  m \in n + 1 .. L + 1 /\ m \in 1 .. L /\ m > 0
        BY <1>1, <2>4, <3>1
      <3> QED
        BY <1>2, <2>1, <2>2, <3>1
    <2>6. ~ (m < n)
      <3>1. ASSUME m < n
            PROVE  n \in m + 1 .. L /\ n \in 1 .. L /\ n > 0
        BY <1>1, <2>4, <3>1
      <3> QED
        BY <1>2, <2>1, <2>2, <3>1
    <2>7. n = m
      BY <1>1, <2>4, <2>5, <2>6
    <2>8. \A i \in 1 .. m : trim_end(text)[i] = trim_end(frame)[i]
      <3>1. 1 .. m \subseteq 1 .. L
        BY <1>1
      <3> QED
        BY <1>2, <2>1, <2>2, <2>7, <3>1
    <2> QED
      BY <2>1, <2>2, <2>7, <2>8, SeqEqual
  <1> QED
    BY <1>5, <1>6 DEF text

LEMMA FitsReturns ==
  ASSUME NEW frame \in Seq(Chars), Fits(frame),
         NEW bytes \in Seq(Byte), Len(bytes) = Len(frame) + 1,
         \A k \in 1 .. Len(frame) : bytes[k].ch = frame[k],
         bytes[Len(frame) + 1].ch = "nl"
  PROVE  /\ verdict(bytes) = "Ok"
         /\ trim_end(Text(bytes)) = frame
PROOF
  <1> DEFINE L == Len(frame)
  <1>1. L \in Nat /\ DOMAIN frame = 1 .. L
    BY LenProperties
  <1>2. is_utf8(frame) /\ \A i \in 1 .. L : frame[i] # "nl"
    BY <1>1 DEF Fits
  <1>3. verdict(bytes) = "Ok" /\ trim_end(Text(bytes)) = trim_end(frame)
    BY <1>2, LineReturns
  <1>4. PICK m \in 0 .. L :
          /\ trim_end(frame) \in Seq(Chars) /\ Len(trim_end(frame)) = m
          /\ \A i \in 1 .. m : trim_end(frame)[i] = frame[i]
          /\ \A i \in m + 1 .. L : frame[i] \in {"nl", "cr"}
    BY TrimIs
  <1>5. m = L
    <2>1. L > 0 => frame[L] \notin {"nl", "cr"}
      <3>1. L > 0 => frame # << >>
        BY LenProperties
      <3> QED
        BY <1>1, <1>2, <3>1 DEF Fits
    <2> HIDE DEF L
    <2>2. ASSUME m < L
          PROVE  L \in m + 1 .. L /\ L > 0
      BY <1>1, <2>2
    <2> QED
      BY <1>1, <1>4, <2>1, <2>2
  <1>6. trim_end(frame) = frame
    BY <1>4, <1>5, SeqEqual
  <1> QED
    BY <1>3, <1>6

IsSentByte(b, frames) ==
  /\ b.no \in 1 .. Len(frames)
  /\ b.at \in 1 .. Len(frames[b.no]) + 1
  /\ b.ch = IF b.at <= Len(frames[b.no]) THEN frames[b.no][b.at] ELSE "nl"

NextTo(b, c, frames) ==
  IF b.at <= Len(frames[b.no]) THEN c.no = b.no /\ c.at = b.at + 1
  ELSE c.no = b.no + 1 /\ c.at = 1

\* flow goes from position at of frame n to the end of frames.
Flows(flow, frames, n, at) ==
  /\ \A i \in 1 .. Len(flow) : IsSentByte(flow[i], frames)
  /\ \A i \in 1 .. Len(flow) - 1 : NextTo(flow[i], flow[i + 1], frames)
  /\ IF flow = << >> THEN n = Len(frames) + 1 /\ at = 1
     ELSE /\ flow[1].no = n /\ flow[1].at = at
          /\ flow[Len(flow)].no = Len(frames)
          /\ flow[Len(flow)].at = Len(frames[Len(frames)]) + 1

\* What read_byte takes from the flow.
LEMMA TailFlows ==
  ASSUME NEW frames \in Seq(Seq(Chars)), NEW flow \in Seq(Byte), flow # << >>,
         NEW n, NEW at, Flows(flow, frames, n, at)
  PROVE  /\ n \in 1 .. Len(frames) /\ at \in 1 .. Len(frames[n]) + 1
         /\ Head(flow).ch = IF at <= Len(frames[n]) THEN frames[n][at] ELSE "nl"
         /\ IF at <= Len(frames[n]) THEN Flows(Tail(flow), frames, n, at + 1)
            ELSE Flows(Tail(flow), frames, n + 1, 1)
PROOF
  <1> DEFINE N == Len(flow)
             M == Len(frames)
             tail == Tail(flow)
  <1>1. N \in Nat /\ N > 0 /\ M \in Nat
    BY EmptySeq, LenProperties
  <1>2. /\ tail \in Seq(Byte) /\ Len(tail) = N - 1 /\ Head(flow) = flow[1]
        /\ \A i \in 1 .. N - 1 : tail[i] = flow[i + 1]
    BY HeadTailProperties
  <1> HIDE DEF tail
  <1>3. tail = << >> <=> N = 1
    <2>1. tail # << >> => Len(tail) \in Nat \ {0}
      BY <1>2, EmptySeq
    <2>2. tail = << >> => Len(tail) = 0
      BY EmptySeq
    <2> QED
      BY <1>1, <1>2, <2>1, <2>2
  <1>4. /\ \A i \in 1 .. N : IsSentByte(flow[i], frames)
        /\ \A i \in 1 .. N - 1 : NextTo(flow[i], flow[i + 1], frames)
        /\ flow[1].no = n /\ flow[1].at = at
        /\ flow[N].no = M /\ flow[N].at = Len(frames[M]) + 1
    BY DEF Flows
  <1>5. /\ n \in 1 .. M /\ at \in 1 .. Len(frames[n]) + 1
        /\ flow[1].ch = IF at <= Len(frames[n]) THEN frames[n][at] ELSE "nl"
    <2>1. 1 \in 1 .. N
      BY <1>1
    <2> QED
      BY <1>4, <2>1 DEF IsSentByte
  <1>6. Len(frames[n]) \in Nat
    BY <1>5, ElementOfSeq, LenProperties
  <1> HIDE DEF N, M
  <1>7. \A i \in 1 .. N - 1 : IsSentByte(tail[i], frames)
    <2> TAKE i \in 1 .. N - 1
    <2>1. i + 1 \in 1 .. N
      BY <1>1
    <2> QED
      BY <1>2, <1>4, <2>1
  <1>8. \A i \in 1 .. (N - 1) - 1 : NextTo(tail[i], tail[i + 1], frames)
    <2> TAKE i \in 1 .. (N - 1) - 1
    <2>1. i \in 1 .. N - 1 /\ i + 1 \in 1 .. N - 1
      BY <1>1
    <2> QED
      BY <1>2, <1>4, <2>1
  <1>9. CASE N = 1
    <2>1. n = M /\ at = Len(frames[n]) + 1
      BY <1>4, <1>9
    <2>2. ~ (at <= Len(frames[n]))
      BY <1>6, <2>1
    <2>3. Flows(tail, frames, n + 1, 1)
      BY <1>2, <1>3, <1>7, <1>8, <1>9, <2>1 DEF Flows, M
    <2> QED
      BY <1>2, <1>5, <2>2, <2>3 DEF M, tail
  <1>10. CASE N > 1
    <2>1. 1 \in 1 .. N - 1 /\ N - 1 \in 1 .. N - 1 /\ (N - 1) + 1 = N
      BY <1>1, <1>10
    <2>2. tail[1] = flow[1 + 1] /\ tail[N - 1] = flow[N] /\ tail # << >>
      BY <1>2, <1>3, <1>10, <2>1
    <2>3. tail[N - 1].no = M /\ tail[N - 1].at = Len(frames[M]) + 1
      BY <1>4, <2>2
    <2>4. NextTo(flow[1], tail[1], frames)
      BY <1>4, <2>1, <2>2
    <2>5. /\ at <= Len(frames[n]) => tail[1].no = n /\ tail[1].at = at + 1
          /\ ~ (at <= Len(frames[n])) => tail[1].no = n + 1 /\ tail[1].at = 1
      BY <1>4, <2>4 DEF NextTo
    <2>6. /\ at <= Len(frames[n]) => Flows(tail, frames, n, at + 1)
          /\ ~ (at <= Len(frames[n])) => Flows(tail, frames, n + 1, 1)
      BY <1>2, <1>7, <1>8, <2>2, <2>3, <2>5 DEF Flows, M
    <2> QED
      BY <1>2, <1>5, <2>6 DEF M, tail
  <1> QED
    BY <1>1, <1>9, <1>10

\* What send_frame adds to the flow.
LEMMA AppendFlows ==
  ASSUME NEW frames \in Seq(Seq(Chars)), Len(frames) < MaxSent,
         NEW flow \in Seq(Byte), NEW n, NEW at, Flows(flow, frames, n, at),
         NEW frame \in Seq(Chars)
  PROVE  /\ flow \o line(Len(frames) + 1, frame) \in Seq(Byte)
         /\ Flows(flow \o line(Len(frames) + 1, frame), Append(frames, frame), n, at)
PROOF
  <1> DEFINE N == Len(flow)
             M == Len(frames)
             L == Len(frame)
             row == line(M + 1, frame)
             both == flow \o row
             all == Append(frames, frame)
  <1>1. N \in Nat /\ M \in Nat /\ L \in Nat /\ M + 1 \in 1 .. MaxSent
    BY LenProperties, TransportAssumption
  <1>2. /\ row \in Seq(Byte) /\ Len(row) = L + 1
        /\ \A k \in 1 .. L + 1 :
             /\ row[k].no = M + 1 /\ row[k].at = k
             /\ row[k].ch = IF k <= L THEN frame[k] ELSE "nl"
    BY <1>1, LineIs
  <1>3. /\ both \in Seq(Byte) /\ Len(both) = N + (L + 1)
        /\ \A i \in 1 .. N + (L + 1) : both[i] = IF i <= N THEN flow[i] ELSE row[i - N]
    <2>1. row \in Seq(Byte) /\ Len(row) = L + 1
      BY <1>2
    <2> HIDE DEF row
    <2>2. /\ both \in Seq(Byte) /\ Len(both) = Len(flow) + Len(row)
          /\ \A i \in 1 .. Len(flow) + Len(row) :
               both[i] = IF i <= Len(flow) THEN flow[i] ELSE row[i - Len(flow)]
      BY <2>1, ConcatProperties
    <2> QED
      BY <2>1, <2>2
  <1>4. /\ Len(all) = M + 1 /\ all[M + 1] = frame
        /\ \A k \in 1 .. M : all[k] = frames[k]
    BY AppendProperties
  <1>5. both # << >>
    BY <1>1, <1>3, EmptySeq
  <1>6. /\ \A i \in 1 .. N : IsSentByte(flow[i], frames)
        /\ \A i \in 1 .. N - 1 : NextTo(flow[i], flow[i + 1], frames)
        /\ N > 0 => /\ flow[1].no = n /\ flow[1].at = at
                    /\ flow[N].no = M /\ flow[N].at = Len(frames[M]) + 1
        /\ N = 0 => n = M + 1 /\ at = 1
    <2>1. flow = << >> <=> N = 0
      BY EmptySeq
    <2> QED
      BY <2>1 DEF Flows
  <1>7. \A i \in 1 .. N : flow[i].no \in 1 .. M
    BY <1>6 DEF IsSentByte
  <1> HIDE DEF N, M, L, row, both, all
  <1>8. \A i \in 1 .. N : both[i] = flow[i]
    BY <1>1, <1>3
  <1>9. \A k \in 1 .. L + 1 : both[N + k] = row[k]
    <2> TAKE k \in 1 .. L + 1
    <2>1. N + k \in 1 .. N + (L + 1) /\ ~ (N + k <= N) /\ (N + k) - N = k
      BY <1>1
    <2> QED
      BY <1>3, <2>1
  <1>10. \A i \in 1 .. N + (L + 1) : i \in 1 .. N \/ \E k \in 1 .. L + 1 : i = N + k
    <2> TAKE i \in 1 .. N + (L + 1)
    <2>1. CASE i > N
      <3>1. i - N \in 1 .. L + 1 /\ i = N + (i - N)
        BY <1>1, <2>1
      <3> QED
        BY <3>1
    <2> QED
      BY <1>1, <2>1
  <1>11. \A i \in 1 .. N + (L + 1) : IsSentByte(both[i], all)
    <2> TAKE i \in 1 .. N + (L + 1)
    <2>1. CASE i \in 1 .. N
      <3>1. IsSentByte(flow[i], frames) /\ flow[i].no \in 1 .. M
        BY <1>6, <1>7, <2>1
      <3>2. all[flow[i].no] = frames[flow[i].no] /\ flow[i].no \in 1 .. M + 1
        BY <1>1, <1>4, <3>1
      <3>3. IsSentByte(flow[i], all)
        BY <1>4, <3>1, <3>2 DEF IsSentByte
      <3> QED
        BY <1>8, <2>1, <3>3
    <2>2. ASSUME NEW k \in 1 .. L + 1, i = N + k
          PROVE  IsSentByte(both[i], all)
      <3>1. /\ row[k].no = M + 1 /\ row[k].at = k
            /\ row[k].ch = IF k <= L THEN frame[k] ELSE "nl"
        BY <1>2
      <3>2. M + 1 \in 1 .. M + 1 /\ Len(all[M + 1]) = L /\ all[M + 1] = frame
        BY <1>1, <1>4 DEF L
      <3>3. IsSentByte(row[k], all)
        BY <1>4, <3>1, <3>2 DEF IsSentByte
      <3> QED
        BY <1>9, <2>2, <3>3
    <2> QED
      BY <1>10, <2>1, <2>2
  <1>12. \A i \in 1 .. (N + (L + 1)) - 1 : NextTo(both[i], both[i + 1], all)
    <2> TAKE i \in 1 .. (N + (L + 1)) - 1
    <2>1. CASE i \in 1 .. N - 1
      <3>1. i \in 1 .. N /\ i + 1 \in 1 .. N
        BY <1>1, <2>1
      <3>2. NextTo(flow[i], flow[i + 1], frames) /\ all[flow[i].no] = frames[flow[i].no]
        BY <1>4, <1>6, <1>7, <2>1, <3>1
      <3>3. NextTo(flow[i], flow[i + 1], all)
        BY <3>2 DEF NextTo
      <3> QED
        BY <1>8, <3>1, <3>3
    <2>2. CASE i = N
      <3>1. N > 0 /\ N \in 1 .. N /\ 1 \in 1 .. L + 1
        BY <1>1, <2>2
      <3>2. flow[N].no = M /\ flow[N].at = Len(frames[M]) + 1 /\ M \in 1 .. M
        BY <1>6, <1>7, <3>1
      <3>3. all[M] = frames[M] /\ Len(frames[M]) \in Nat
        <4>1. frames[M] \in Seq(Chars)
          BY <3>2, ElementOfSeq DEF M
        <4> QED
          BY <1>4, <3>2, <4>1, LenProperties
      <3>4. ~ (Len(frames[M]) + 1 <= Len(frames[M]))
        BY <3>3
      <3>5. both[N] = flow[N] /\ both[N + 1] = row[1]
        BY <1>8, <1>9, <3>1
      <3>6. row[1].no = M + 1 /\ row[1].at = 1
        BY <1>2, <3>1
      <3> QED
        BY <2>2, <3>2, <3>3, <3>4, <3>5, <3>6 DEF NextTo
    <2>3. CASE i > N
      <3>1. i \in 1 .. N + (L + 1) /\ ~ (i \in 1 .. N)
        BY <1>1, <2>3
      <3>2. PICK k \in 1 .. L + 1 : i = N + k
        BY <1>10, <3>1
      <3>3. k <= L /\ k + 1 \in 1 .. L + 1 /\ i + 1 = N + (k + 1)
        BY <1>1, <3>2
      <3>4. both[i] = row[k] /\ both[i + 1] = row[k + 1]
        BY <1>9, <3>2, <3>3
      <3>5. /\ row[k].no = M + 1 /\ row[k].at = k
            /\ row[k + 1].no = M + 1 /\ row[k + 1].at = k + 1
        BY <1>2, <3>3
      <3>6. Len(all[M + 1]) = L
        BY <1>4 DEF L
      <3> QED
        BY <3>3, <3>4, <3>5, <3>6 DEF NextTo
    <2> QED
      BY <1>1, <2>1, <2>2, <2>3
  <1>13. both[1].no = n /\ both[1].at = at
    <2>1. CASE N = 0
      <3>1. 1 \in 1 .. L + 1 /\ N + 1 = 1
        BY <1>1, <2>1
      <3>2. both[1] = row[1]
        BY <1>9, <3>1
      <3> QED
        BY <1>2, <1>6, <2>1, <3>1, <3>2
    <2>2. CASE N > 0
      <3>1. 1 \in 1 .. N
        BY <1>1, <2>2
      <3> QED
        BY <1>6, <1>8, <2>2, <3>1
    <2> QED
      BY <1>1, <2>1, <2>2
  <1>14. both[N + (L + 1)].no = M + 1 /\ both[N + (L + 1)].at = L + 1
    <2>1. L + 1 \in 1 .. L + 1
      BY <1>1
    <2> QED
      BY <1>2, <1>9, <2>1
  <1>15. Len(all[M + 1]) = L
    BY <1>4 DEF L
  <1>16. Flows(both, all, n, at)
    BY <1>3, <1>4, <1>5, <1>11, <1>12, <1>13, <1>14, <1>15 DEF Flows
  <1> QED
    BY <1>3, <1>16 DEF both, all, row, M

\* What write_byte moves from the sender to the pipe.
LEMMA MoveOne ==
  ASSUME NEW s \in Seq(Byte), NEW t \in Seq(Byte), t # << >>
  PROVE  Append(s, Head(t)) \o Tail(t) = s \o t
PROOF
  <1> DEFINE a == Append(s, Head(t))
             moved == a \o Tail(t)
  <1>1. Len(s) \in Nat /\ Len(t) \in Nat \ {0}
    BY EmptySeq, LenProperties
  <1>2. /\ Head(t) \in Byte /\ Tail(t) \in Seq(Byte) /\ Len(Tail(t)) = Len(t) - 1
        /\ Head(t) = t[1]
        /\ \A i \in 1 .. Len(t) - 1 : Tail(t)[i] = t[i + 1]
    BY HeadTailProperties
  <1>3. /\ a \in Seq(Byte) /\ Len(a) = Len(s) + 1
        /\ \A i \in 1 .. Len(s) : a[i] = s[i]
        /\ a[Len(s) + 1] = t[1]
    BY <1>2, AppendProperties
  <1> HIDE DEF a
  <1>4. /\ moved \in Seq(Byte)
        /\ Len(moved) = (Len(s) + 1) + (Len(t) - 1)
        /\ \A i \in 1 .. (Len(s) + 1) + (Len(t) - 1) :
             moved[i] = IF i <= Len(s) + 1 THEN a[i] ELSE Tail(t)[i - (Len(s) + 1)]
    <2>1. /\ moved \in Seq(Byte) /\ Len(moved) = Len(a) + Len(Tail(t))
          /\ \A i \in 1 .. Len(a) + Len(Tail(t)) :
               moved[i] = IF i <= Len(a) THEN a[i] ELSE Tail(t)[i - Len(a)]
      BY <1>2, <1>3, ConcatProperties
    <2>2. Len(a) = Len(s) + 1 /\ Len(Tail(t)) = Len(t) - 1
      BY <1>2, <1>3
    <2> HIDE DEF moved
    <2> QED
      BY <2>1, <2>2
  <1>5. /\ s \o t \in Seq(Byte) /\ Len(s \o t) = Len(s) + Len(t)
        /\ \A i \in 1 .. Len(s) + Len(t) :
             (s \o t)[i] = IF i <= Len(s) THEN s[i] ELSE t[i - Len(s)]
    BY ConcatProperties
  <1> HIDE DEF moved
  <1>6. Len(moved) = Len(s \o t) /\ Len(moved) = Len(s) + Len(t)
    BY <1>1, <1>4, <1>5
  <1>7. ASSUME NEW i \in 1 .. Len(s) + Len(t)
        PROVE  moved[i] = (s \o t)[i]
    <2>1. moved[i] = IF i <= Len(s) + 1 THEN a[i] ELSE Tail(t)[i - (Len(s) + 1)]
      BY <1>1, <1>4
    <2>2. (s \o t)[i] = IF i <= Len(s) THEN s[i] ELSE t[i - Len(s)]
      BY <1>5
    <2>3. CASE i <= Len(s)
      BY <1>1, <1>3, <2>1, <2>2, <2>3
    <2>4. CASE i = Len(s) + 1
      <3>1. ~ (i <= Len(s)) /\ i - Len(s) = 1
        BY <1>1, <2>4
      <3> QED
        BY <1>3, <2>1, <2>2, <2>4, <3>1
    <2>5. CASE i > Len(s) + 1
      <3>1. /\ i - (Len(s) + 1) \in 1 .. Len(t) - 1
            /\ (i - (Len(s) + 1)) + 1 = i - Len(s)
            /\ ~ (i <= Len(s) + 1) /\ ~ (i <= Len(s))
        BY <1>1, <2>5
      <3> QED
        BY <1>2, <2>1, <2>2, <3>1
    <2> QED
      BY <1>1, <2>3, <2>4, <2>5
  <1>8. moved = s \o t
    BY <1>4, <1>5, <1>6, <1>7, SeqEqual
  <1> QED
    BY <1>8 DEF moved, a

\* What read_byte takes out of the pipe.
LEMMA TakeOne ==
  ASSUME NEW s \in Seq(Byte), NEW t \in Seq(Byte), s # << >>
  PROVE  /\ s \o t \in Seq(Byte) /\ s \o t # << >>
         /\ Head(s \o t) = Head(s) /\ Tail(s \o t) = Tail(s) \o t
PROOF
  <1> DEFINE both == s \o t
             taken == Tail(s) \o t
  <1>1. Len(s) \in Nat \ {0} /\ Len(t) \in Nat
    BY EmptySeq, LenProperties
  <1>2. /\ both \in Seq(Byte) /\ Len(both) = Len(s) + Len(t)
        /\ \A i \in 1 .. Len(s) + Len(t) :
             both[i] = IF i <= Len(s) THEN s[i] ELSE t[i - Len(s)]
    BY ConcatProperties
  <1> HIDE DEF both
  <1>3. both # << >>
    BY <1>1, <1>2, EmptySeq
  <1>4. /\ Tail(s) \in Seq(Byte) /\ Len(Tail(s)) = Len(s) - 1 /\ Head(s) = s[1]
        /\ \A i \in 1 .. Len(s) - 1 : Tail(s)[i] = s[i + 1]
    BY HeadTailProperties
  <1>5. /\ Tail(both) \in Seq(Byte) /\ Len(Tail(both)) = (Len(s) + Len(t)) - 1
        /\ Head(both) = both[1]
        /\ \A i \in 1 .. (Len(s) + Len(t)) - 1 : Tail(both)[i] = both[i + 1]
    BY <1>2, <1>3, HeadTailProperties
  <1>6. Head(both) = Head(s)
    BY <1>1, <1>2, <1>4, <1>5
  <1>7. /\ taken \in Seq(Byte) /\ Len(taken) = (Len(s) - 1) + Len(t)
        /\ \A i \in 1 .. (Len(s) - 1) + Len(t) :
             taken[i] = IF i <= Len(s) - 1 THEN Tail(s)[i] ELSE t[i - (Len(s) - 1)]
    BY <1>4, ConcatProperties
  <1> HIDE DEF taken
  <1>8. ASSUME NEW i \in 1 .. (Len(s) - 1) + Len(t)
        PROVE  taken[i] = Tail(both)[i]
    <2>1. i \in 1 .. (Len(s) + Len(t)) - 1 /\ i + 1 \in 1 .. Len(s) + Len(t)
      BY <1>1
    <2>2. Tail(both)[i] = IF i + 1 <= Len(s) THEN s[i + 1] ELSE t[(i + 1) - Len(s)]
      BY <1>2, <1>5, <2>1
    <2>3. taken[i] = IF i <= Len(s) - 1 THEN Tail(s)[i] ELSE t[i - (Len(s) - 1)]
      BY <1>7
    <2>4. CASE i <= Len(s) - 1
      <3>1. i \in 1 .. Len(s) - 1 /\ i + 1 <= Len(s)
        BY <1>1, <2>4
      <3> QED
        BY <1>4, <2>2, <2>3, <2>4, <3>1
    <2>5. CASE ~ (i <= Len(s) - 1)
      <3>1. ~ (i + 1 <= Len(s)) /\ (i + 1) - Len(s) = i - (Len(s) - 1)
        BY <1>1, <2>5
      <3> QED
        BY <2>2, <2>3, <2>5, <3>1
    <2> QED
      BY <2>4, <2>5
  <1>9. taken = Tail(both)
    <2>1. Len(taken) = Len(Tail(both))
      BY <1>1, <1>5, <1>7
    <2> QED
      BY <1>5, <1>7, <1>8, <2>1, SeqEqual
  <1> QED
    BY <1>2, <1>3, <1>6, <1>9 DEF both, taken

Flowing == Flows(pipe \o rest, sent, Len(received) + 1, Len(buf) + 1)

\* What was received is what was sent first.
Prefix ==
  /\ Len(received) <= Len(sent)
  /\ \A i \in 1 .. Len(received) : received[i] = sent[i]

\* What recv_frame holds is the beginning of the next frame.
Begun ==
  \A k \in 1 .. Len(buf) :
    /\ Len(received) + 1 <= Len(sent)
    /\ k <= Len(sent[Len(received) + 1])
    /\ buf[k].ch = sent[Len(received) + 1][k]

EndIsTrue ==
  /\ rest # << >> => open
  /\ result = "UnexpectedEof" => ~ open /\ received = sent

ContractInv == Flowing /\ Prefix /\ Begun /\ EndIsTrue

\* The sequences of the state, for the lemmas above.
LEMMA StateSeqs ==
  ASSUME TypeOK
  PROVE  /\ sent \in Seq(Seq(Chars)) /\ sent \in Seq(Frames)
         /\ received \in Seq(Seq(Chars))
         /\ pipe \in Seq(Byte) /\ rest \in Seq(Byte) /\ pipe \o rest \in Seq(Byte)
         /\ buf \in Seq(Byte) /\ Len(buf) \in Nat /\ Len(sent) \in Nat
         /\ Len(received) \in Nat
         /\ \A n \in 1 .. Len(sent) :
              sent[n] \in Frames /\ sent[n] \in Seq(Chars) /\ Len(sent[n]) \in Nat
PROOF
  <1>1. /\ sent \in Seq(Frames) /\ received \in Seq(Seq(Chars)) /\ pipe \in Seq(Byte)
        /\ rest \in Seq(Byte) /\ buf \in Seq(Byte) /\ Frames \subseteq Seq(Chars)
    BY TransportAssumption DEF TypeOK
  <1>2. sent \in Seq(Seq(Chars))
    BY <1>1, LenProperties, IsASeq
  <1>3. pipe \o rest \in Seq(Byte)
    BY <1>1, ConcatProperties
  <1>4. /\ Len(buf) \in Nat /\ Len(sent) \in Nat /\ Len(received) \in Nat
        /\ \A n \in 1 .. Len(sent) :
             sent[n] \in Frames /\ sent[n] \in Seq(Chars) /\ Len(sent[n]) \in Nat
    BY <1>1, ElementOfSeq, LenProperties
  <1> QED
    BY <1>1, <1>2, <1>3, <1>4

LEMMA SendFrameContract ==
  ASSUME TypeOK, ContractInv, NEW frame \in Frames, send_frame(frame)
  PROVE  ContractInv' /\ Channel!Send
PROOF
  <1>1. /\ sent \in Seq(Seq(Chars)) /\ received \in Seq(Seq(Chars))
        /\ pipe \in Seq(Byte) /\ Len(sent) \in Nat /\ Len(received) \in Nat
        /\ Len(buf) \in Nat /\ frame \in Seq(Chars) /\ Len(sent) < MaxSent
    BY StateSeqs, TransportAssumption DEF send_frame
  <1>2. /\ open /\ rest = << >> /\ rest' = line(Len(sent) + 1, frame)
        /\ sent' = Append(sent, frame)
        /\ pipe' = pipe /\ received' = received /\ buf' = buf
        /\ open' = open /\ result' = result
    BY DEF send_frame, receiver
  <1>3. /\ Len(sent') = Len(sent) + 1
        /\ \A n \in 1 .. Len(sent) : sent'[n] = sent[n]
    BY <1>1, <1>2, AppendProperties
  <1>4. Flowing'
    <2>1. Flows(pipe, sent, Len(received) + 1, Len(buf) + 1)
      <3>1. pipe \o rest = pipe
        BY <1>1, <1>2, ConcatEmptySeq
      <3> QED
        BY <3>1 DEF ContractInv, Flowing
    <2>2. Flows(pipe \o line(Len(sent) + 1, frame), Append(sent, frame),
                Len(received) + 1, Len(buf) + 1)
      BY <1>1, <2>1, AppendFlows
    <2> QED
      BY <1>2, <2>2 DEF Flowing
  <1>5. Prefix'
    <2>1. Len(received) <= Len(sent) /\ \A i \in 1 .. Len(received) : received[i] = sent[i]
      BY DEF ContractInv, Prefix
    <2> QED
      BY <1>1, <1>2, <1>3, <2>1 DEF Prefix
  <1>6. Begun'
    <2> SUFFICES ASSUME NEW k \in 1 .. Len(buf)
                 PROVE  /\ Len(received) + 1 <= Len(sent')
                        /\ k <= Len(sent'[Len(received) + 1])
                        /\ buf[k].ch = sent'[Len(received) + 1][k]
      BY <1>2 DEF Begun
    <2>1. /\ Len(received) + 1 <= Len(sent) /\ k <= Len(sent[Len(received) + 1])
          /\ buf[k].ch = sent[Len(received) + 1][k]
      BY DEF ContractInv, Begun
    <2>2. Len(received) + 1 \in 1 .. Len(sent)
      BY <1>1, <2>1
    <2> QED
      BY <1>1, <1>3, <2>1, <2>2
  <1>7. EndIsTrue'
    BY <1>2 DEF ContractInv, EndIsTrue
  <1>8. Channel!Send
    BY <1>1, <1>2 DEF Channel!Send
  <1> QED
    BY <1>4, <1>5, <1>6, <1>7, <1>8 DEF ContractInv

LEMMA WriteByteContract ==
  ASSUME TypeOK, ContractInv, write_byte
  PROVE  ContractInv' /\ UNCHANGED Channel!vars
PROOF
  <1>1. /\ rest # << >> /\ pipe' = Append(pipe, Head(rest)) /\ rest' = Tail(rest)
        /\ sent' = sent /\ open' = open /\ received' = received /\ buf' = buf
        /\ result' = result
    BY DEF write_byte, receiver
  <1>2. pipe' \o rest' = pipe \o rest
    BY <1>1, StateSeqs, MoveOne
  <1>3. Flowing'
    BY <1>1, <1>2 DEF ContractInv, Flowing
  <1>4. Prefix' /\ Begun' /\ EndIsTrue'
    BY <1>1 DEF ContractInv, Prefix, Begun, EndIsTrue
  <1>5. UNCHANGED Channel!vars
    BY <1>1 DEF Channel!vars
  <1> QED
    BY <1>3, <1>4, <1>5 DEF ContractInv

LEMMA CloseContract ==
  ASSUME TypeOK, ContractInv, close
  PROVE  ContractInv' /\ Channel!Close
PROOF
  <1>1. /\ open /\ rest = << >> /\ open' = FALSE
        /\ sent' = sent /\ rest' = rest /\ pipe' = pipe /\ received' = received
        /\ buf' = buf /\ result' = result
    BY DEF close, receiver
  <1>2. Flowing' /\ Prefix' /\ Begun' /\ EndIsTrue'
    BY <1>1 DEF ContractInv, Flowing, Prefix, Begun, EndIsTrue
  <1>3. Channel!Close
    BY <1>1 DEF Channel!Close
  <1> QED
    BY <1>2, <1>3 DEF ContractInv

LEMMA ReadByteContract ==
  ASSUME CleanConnection, TypeOK, ContractInv, read_byte
  PROVE  ContractInv' /\ (Channel!Deliver \/ UNCHANGED Channel!vars)
PROOF
  <1> DEFINE n == Len(received) + 1
             at == Len(buf) + 1
             L == Len(sent[n])
             bytes == Append(buf, Head(pipe))
             tail == Tail(pipe) \o rest
  <1>1. /\ sent \in Seq(Seq(Chars)) /\ received \in Seq(Seq(Chars))
        /\ pipe \in Seq(Byte) /\ rest \in Seq(Byte) /\ pipe \o rest \in Seq(Byte)
        /\ Len(buf) \in Nat /\ Len(sent) \in Nat /\ Len(received) \in Nat
    BY StateSeqs
  <1>2. /\ pipe # << >> /\ pipe' = Tail(pipe)
        /\ sent' = sent /\ rest' = rest /\ open' = open
        /\ \/ stops(bytes) /\ Return(bytes)
           \/ /\ ~ stops(bytes) /\ buf' = bytes
              /\ result' = result /\ received' = received
    BY DEF read_byte, sender
  <1>3. /\ pipe \o rest # << >> /\ Head(pipe \o rest) = Head(pipe)
        /\ Tail(pipe \o rest) = tail
    BY <1>1, <1>2, TakeOne
  <1>4. Flows(pipe \o rest, sent, n, at)
    BY DEF ContractInv, Flowing
  <1>5. /\ n \in 1 .. Len(sent) /\ at \in 1 .. L + 1
        /\ Head(pipe).ch = IF at <= L THEN sent[n][at] ELSE "nl"
        /\ at <= L => Flows(tail, sent, n, at + 1)
        /\ ~ (at <= L) => Flows(tail, sent, n + 1, 1)
    <2> DEFINE flow == pipe \o rest
    <2>1. flow \in Seq(Byte) /\ flow # << >> /\ Flows(flow, sent, n, at)
      BY <1>1, <1>3, <1>4
    <2>2. Head(flow) = Head(pipe) /\ Tail(flow) = tail
      BY <1>3
    <2> HIDE DEF flow, n, at, tail
    <2>3. /\ n \in 1 .. Len(sent) /\ at \in 1 .. Len(sent[n]) + 1
          /\ Head(flow).ch = IF at <= Len(sent[n]) THEN sent[n][at] ELSE "nl"
          /\ IF at <= Len(sent[n]) THEN Flows(Tail(flow), sent, n, at + 1)
             ELSE Flows(Tail(flow), sent, n + 1, 1)
      BY <1>1, <2>1, TailFlows
    <2> QED
      BY <2>2, <2>3
  <1>6. /\ L \in Nat /\ sent[n] \in Seq(Chars) /\ Fits(sent[n]) /\ DOMAIN sent[n] = 1 .. L
    <2>1. sent[n] \in Frames /\ sent[n] \in Seq(Chars)
      BY <1>5, StateSeqs
    <2> QED
      BY <2>1, LenProperties DEF CleanConnection
  <1>7. /\ bytes \in Seq(Byte) /\ Len(bytes) = at
        /\ \A k \in 1 .. Len(buf) : bytes[k] = buf[k]
        /\ bytes[at] = Head(pipe)
    BY <1>2, NextByte
  <1>8. \A k \in 1 .. Len(buf) : buf[k].ch = sent[n][k]
    BY DEF ContractInv, Begun
  <1>9. Len(received) <= Len(sent) /\ \A i \in 1 .. Len(received) : received[i] = sent[i]
    BY DEF ContractInv, Prefix
  <1> HIDE DEF bytes, tail
  <1>10. pipe' \o rest' = tail
    BY <1>2 DEF tail
  <1>11. CASE at <= L
    <2>1. at \in 1 .. L /\ at < MAX_FRAME_BYTES /\ sent[n][at] # "nl"
      <3>1. /\ L < MAX_FRAME_BYTES /\ MAX_FRAME_BYTES \in Nat
            /\ \A i \in 1 .. L : sent[n][i] # "nl"
        BY <1>6, TransportAssumption DEF Fits
      <3> QED
        BY <1>1, <1>5, <1>6, <1>11, <3>1
    <2>2. ~ stops(bytes)
      <3>1. bytes[Len(bytes)].ch # "nl"
        BY <1>5, <1>7, <1>11, <2>1
      <3>2. Len(bytes) # MAX_FRAME_BYTES
        BY <1>1, <1>7, <2>1, TransportAssumption
      <3> QED
        BY <3>1, <3>2 DEF stops
    <2>3. buf' = bytes /\ result' = result /\ received' = received
      BY <1>2, <2>2
    <2>4. Flowing'
      BY <1>2, <1>5, <1>7, <1>10, <1>11, <2>3 DEF Flowing
    <2>5. Prefix' /\ EndIsTrue'
      BY <1>2, <2>3 DEF ContractInv, Prefix, EndIsTrue
    <2>6. Begun'
      <3> SUFFICES ASSUME NEW k \in 1 .. at
                   PROVE  n <= Len(sent) /\ k <= L /\ bytes[k].ch = sent[n][k]
        BY <1>2, <1>7, <2>3 DEF Begun
      <3>1. CASE k = at
        BY <1>5, <1>7, <1>11, <3>1
      <3>2. CASE k \in 1 .. Len(buf)
        <4>1. n <= Len(sent) /\ k <= L
          BY <1>1, <1>5, <1>11, <3>2
        <4>2. bytes[k].ch = sent[n][k]
          BY <1>7, <1>8, <3>2
        <4> QED
          BY <4>1, <4>2
      <3> QED
        BY <1>1, <3>1, <3>2
    <2>7. UNCHANGED Channel!vars
      BY <1>2, <2>3 DEF Channel!vars
    <2> QED
      BY <2>4, <2>5, <2>6, <2>7 DEF ContractInv
  <1>12. CASE ~ (at <= L)
    <2>1. at = L + 1 /\ Len(buf) = L /\ Head(pipe).ch = "nl"
      BY <1>1, <1>5, <1>6, <1>12
    <2>2. stops(bytes) /\ Return(bytes)
      BY <1>2, <1>7, <2>1 DEF stops
    <2>3. verdict(bytes) = "Ok" /\ trim_end(Text(bytes)) = sent[n]
      BY <1>6, <1>7, <1>8, <2>1, FitsReturns
    <2>4. /\ buf' = << >> /\ result' = "Ok"
          /\ received' = Append(received, sent[n])
      BY <2>2, <2>3 DEF Return
    <2>5. Len(buf') = 0
      BY <2>4, EmptySeq
    <2>6. /\ Len(received') = n
          /\ \A i \in 1 .. Len(received) : received'[i] = received[i]
          /\ received'[n] = sent[n]
      BY <1>1, <1>6, <2>4, AppendProperties
    <2>7. Flowing'
      <3>1. Len(received') + 1 = n + 1 /\ Len(buf') + 1 = 1
        BY <2>5, <2>6
      <3>2. Flows(tail, sent, n + 1, 1)
        BY <1>5, <1>12
      <3> QED
        BY <1>2, <1>10, <3>1, <3>2 DEF Flowing
    <2>8. Prefix'
      <3>1. n <= Len(sent)
        BY <1>1, <1>5
      <3>2. ASSUME NEW i \in 1 .. n
            PROVE  received'[i] = sent[i]
        <4>1. i = n \/ i \in 1 .. Len(received)
          BY <1>1
        <4> QED
          BY <1>9, <2>6, <4>1
      <3> QED
        BY <1>2, <2>6, <3>1, <3>2 DEF Prefix
    <2>9. Begun'
      <3>1. ~ \E k \in 1 .. Len(buf') : TRUE
        BY <2>5
      <3> QED
        BY <3>1 DEF Begun
    <2>10. EndIsTrue'
      BY <1>2, <2>4 DEF ContractInv, EndIsTrue
    <2>11. Channel!Deliver
      <3>1. Len(received) < Len(sent)
        BY <1>1, <1>5
      <3>2. result # "UnexpectedEof"
        BY <1>1, <3>1 DEF ContractInv, EndIsTrue
      <3> QED
        BY <1>2, <2>4, <3>1, <3>2 DEF Channel!Deliver
    <2> QED
      BY <2>7, <2>8, <2>9, <2>10, <2>11 DEF ContractInv
  <1> QED
    BY <1>11, <1>12

LEMMA ReadEndContract ==
  ASSUME TypeOK, ContractInv, read_end
  PROVE  ContractInv' /\ Channel!ReportEnd
PROOF
  <1>1. /\ pipe = << >> /\ ~ open /\ Return(buf)
        /\ pipe' = pipe /\ sent' = sent /\ rest' = rest /\ open' = open
    BY DEF read_end, sender
  <1>2. rest = << >>
    BY <1>1 DEF ContractInv, EndIsTrue
  <1>3. pipe \o rest = << >>
    BY <1>1, <1>2, EmptySeq, ConcatEmptySeq
  <1>4. Len(received) + 1 = Len(sent) + 1 /\ Len(buf) + 1 = 1
    BY <1>3 DEF ContractInv, Flowing, Flows
  <1>5. /\ Len(received) = Len(sent) /\ buf = << >>
    BY <1>4, StateSeqs, EmptySeq
  <1>6. received = sent
    <2>1. \A i \in 1 .. Len(received) : received[i] = sent[i]
      BY DEF ContractInv, Prefix
    <2> QED
      BY <1>5, <2>1, StateSeqs, SeqEqual
  <1>7. buf' = << >> /\ result' = "UnexpectedEof" /\ received' = received
    BY <1>1, <1>5 DEF Return, verdict
  <1>8. Flowing' /\ Prefix' /\ Begun'
    BY <1>1, <1>5, <1>7 DEF ContractInv, Flowing, Prefix, Begun
  <1>9. EndIsTrue'
    BY <1>1, <1>2, <1>6, <1>7 DEF EndIsTrue
  <1>10. Channel!ReportEnd
    BY <1>1, <1>6, <1>7 DEF Channel!ReportEnd
  <1> QED
    BY <1>8, <1>9, <1>10 DEF ContractInv

LEMMA RecvFrameContract ==
  ASSUME ContractInv, recv_frame \/ UNCHANGED vars
  PROVE  ContractInv' /\ UNCHANGED Channel!vars
PROOF
  <1>1. /\ sent' = sent /\ rest' = rest /\ open' = open /\ pipe' = pipe
        /\ buf' = buf /\ received' = received /\ result' = result
    BY DEF recv_frame, vars, sender, receiver
  <1> QED
    BY <1>1 DEF ContractInv, Flowing, Prefix, Begun, EndIsTrue, Channel!vars

LEMMA ContractInit ==
  ASSUME Init
  PROVE  ContractInv /\ Channel!Init
PROOF
  <1>1. Len(<< >>) = 0 /\ << >> \in Seq(Byte) /\ << >> \o << >> = << >>
    BY EmptySeq, ConcatEmptySeq
  <1>2. Flowing
    BY <1>1 DEF Init, Flowing, Flows
  <1> QED
    BY <1>1, <1>2 DEF Init, ContractInv, Prefix, Begun, EndIsTrue, Channel!Init

(***************************************************************************)
(* LineTransport keeps the contract of FrameTransport (transport.rs        *)
(* 10-20): on a clean connection, for frames that fit, of any number and   *)
(* length and for any MAX_FRAME_BYTES, recv_frame returns the frames of    *)
(* send_frame whole, once and in order, and UnexpectedEof only after the   *)
(* last one of a closed connection.                                        *)
(***************************************************************************)
THEOREM ContractIsKept == CleanConnection /\ Spec => KeepsContract
PROOF
  <1>1. Init => ContractInv /\ Channel!Init
    BY ContractInit
  <1>2. CleanConnection /\ TypeOK /\ ContractInv /\ [Next]_vars
          => ContractInv' /\ [Channel!Next]_Channel!vars
    <2> SUFFICES ASSUME CleanConnection, TypeOK, ContractInv, [Next]_vars
                 PROVE  ContractInv' /\ [Channel!Next]_Channel!vars
      OBVIOUS
    <2>1. ~ write_fails /\ ~ close_within_frame /\ ~ read_fails
      BY DEF CleanConnection, write_fails, close_within_frame, read_fails
    <2>2. CASE \E frame \in Frames : send_frame(frame)
      BY <2>2, SendFrameContract DEF Channel!Next
    <2>3. CASE write_byte
      BY <2>3, WriteByteContract
    <2>4. CASE close
      BY <2>4, CloseContract DEF Channel!Next
    <2>5. CASE recv_frame \/ UNCHANGED vars
      BY <2>5, RecvFrameContract
    <2>6. CASE read_byte
      BY <2>6, ReadByteContract DEF Channel!Next
    <2>7. CASE read_end
      BY <2>7, ReadEndContract DEF Channel!Next
    <2> QED
      BY <2>1, <2>2, <2>3, <2>4, <2>5, <2>6, <2>7 DEF Next, Receive
  <1>3. CASE CleanConnection
    <2>1. TypeOK /\ ContractInv /\ [Next]_vars
            => ContractInv' /\ [Channel!Next]_Channel!vars
      BY <1>2, <1>3
    <2> QED
      BY <1>1, <2>1, TransportTypes, PTL DEF Spec, KeepsContract, Channel!Spec
  <1> QED
    BY <1>3

-----------------------------------------------------------------------------
(***************************************************************************)
(* What faults leave of the contract.  flow is all that was written or is  *)
(* being written and has not been returned.  The line of a frame that no   *)
(* fault hit is whole in it up to its newline, in one piece, and starts    *)
(* after a newline or at the beginning: Window says where.                 *)
(***************************************************************************)
flow == buf \o (pipe \o rest)

\* The len bytes of line n are those of S after position s, which is negative
\* when the first of them are gone.
Window(S, n, len, s) ==
  /\ s + len \in 1 .. Len(S)
  /\ \A j \in 1 .. Len(S) : S[j].no = n <=> j \in s + 1 .. s + len
  /\ \A j \in 1 .. Len(S) : S[j].no = n => S[j].at = j - s
  /\ s >= 1 => S[s].ch = "nl"

Has(S, n) == \E j \in 1 .. Len(S) : S[j].no = n

Genuine == \A j \in 1 .. Len(flow) : IsSentByte(flow[j], sent)

Ordered == \A i, j \in 1 .. Len(flow) : i < j => flow[i].no <= flow[j].no

Intact ==
  \A n \in 1 .. Len(sent) \ hit :
    Has(flow, n) => \E s \in Int : Window(flow, n, Len(sent[n]) + 1, s)

\* A frame that is sent next and that no fault has hit begins a line.
LineIsOver ==
  Len(flow) > 0 /\ open /\ Len(sent) + 1 \notin hit => flow[Len(flow)].ch = "nl"

RestIsLast ==
  /\ \A j \in 1 .. Len(rest) : rest[j].no = Len(sent)
  /\ rest # << >> => open

NoNewline == \A j \in 1 .. Len(buf) : buf[j].ch # "nl"

Behind ==
  \A i \in 1 .. Len(origin) :
    /\ origin[i] \subseteq 1 .. Len(sent)
    /\ \A n \in origin[i], j \in 1 .. Len(flow) : n <= flow[j].no

OriginsOrdered ==
  \A i, j \in 1 .. Len(origin) : i < j => \A n \in origin[i], m \in origin[j] : n <= m

\* What was returned of several frames, or of none, was hit.
Apart == \A i \in 1 .. Len(origin) : (\E n : origin[i] = {n}) \/ origin[i] \subseteq hit

FlowInv == Genuine /\ Ordered /\ Intact /\ LineIsOver /\ RestIsLast /\ NoNewline

FaultInv == FlowInv /\ Behind /\ OriginsOrdered /\ Apart

\* The windows of a flow whose first c bytes were taken.
LEMMA WindowDropped ==
  ASSUME NEW S, NEW T, Len(S) \in Nat, NEW c \in 0 .. Len(S), Len(T) = Len(S) - c,
         \A j \in 1 .. Len(T) : T[j] = S[j + c],
         NEW n, NEW len \in Nat \ {0}, NEW s \in Int, Window(S, n, len, s)
  PROVE  /\ s + len > c => Window(T, n, len, s - c)
         /\ s + len <= c => ~ Has(T, n)
PROOF
  <1> DEFINE LS == Len(S)
             LT == Len(T)
  <1>1. LS \in Nat /\ LT \in Nat /\ LT = LS - c
    OBVIOUS
  <1>2. /\ s + len \in 1 .. LS
        /\ \A j \in 1 .. LS : S[j].no = n <=> j \in s + 1 .. s + len
        /\ \A j \in 1 .. LS : S[j].no = n => S[j].at = j - s
        /\ s >= 1 => S[s].ch = "nl"
    BY DEF Window
  <1>3. \A j \in 1 .. LT : j + c \in 1 .. LS /\ T[j] = S[j + c]
    BY <1>1
  <1> HIDE DEF LS, LT
  <1>4. ASSUME NEW j \in 1 .. LT
        PROVE  /\ T[j].no = n <=> j + c \in s + 1 .. s + len
               /\ T[j].no = n => T[j].at = j + c - s
    BY <1>2, <1>3
  <1>5. ASSUME s + len > c
        PROVE  Window(T, n, len, s - c)
    <2>1. s - c + len \in 1 .. LT
      BY <1>1, <1>2, <1>5
    <2>2. ASSUME NEW j \in 1 .. LT
          PROVE  /\ T[j].no = n <=> j \in s - c + 1 .. s - c + len
                 /\ T[j].no = n => T[j].at = j - (s - c)
      <3>1. /\ j + c \in s + 1 .. s + len <=> j \in s - c + 1 .. s - c + len
            /\ j + c - s = j - (s - c)
        BY <1>1
      <3> QED
        BY <1>4, <3>1
    <2>3. s - c >= 1 => T[s - c].ch = "nl"
      <3>1. s - c >= 1 => s >= 1 /\ s - c \in 1 .. LT /\ s - c + c = s
        BY <1>1, <2>1
      <3> QED
        BY <1>2, <1>3, <3>1
    <2> QED
      BY <2>1, <2>2, <2>3 DEF Window, LT
  <1>6. ASSUME s + len <= c, NEW j \in 1 .. LT, T[j].no = n
        PROVE  FALSE
    <2>1. j + c \in s + 1 .. s + len
      BY <1>4, <1>6
    <2> QED
      BY <1>1, <1>6, <2>1
  <1> QED
    BY <1>5, <1>6 DEF Has, LT

\* The windows of a flow that was cut off behind them or grew.
LEMMA WindowKept ==
  ASSUME NEW S, NEW T, Len(S) \in Nat, Len(T) \in Nat,
         NEW n, NEW len \in Nat \ {0}, NEW s \in Int, Window(S, n, len, s),
         s + len <= Len(T),
         \A j \in 1 .. Len(T) : j <= Len(S) => T[j] = S[j],
         \A j \in 1 .. Len(T) : j > Len(S) => T[j].no # n
  PROVE  Window(T, n, len, s)
PROOF
  <1> DEFINE LS == Len(S)
             LT == Len(T)
  <1>1. /\ LS \in Nat /\ LT \in Nat /\ s + len <= LT
        /\ \A j \in 1 .. LT : j <= LS => T[j] = S[j]
        /\ \A j \in 1 .. LT : j > LS => T[j].no # n
    OBVIOUS
  <1>2. /\ s + len \in 1 .. LS
        /\ \A j \in 1 .. LS : S[j].no = n <=> j \in s + 1 .. s + len
        /\ \A j \in 1 .. LS : S[j].no = n => S[j].at = j - s
        /\ s >= 1 => S[s].ch = "nl"
    BY DEF Window
  <1> HIDE DEF LS, LT
  <1>3. s + len \in 1 .. LT
    BY <1>1, <1>2
  <1>4. ASSUME NEW j \in 1 .. LT
        PROVE  /\ T[j].no = n <=> j \in s + 1 .. s + len
               /\ T[j].no = n => T[j].at = j - s
    <2>1. CASE j <= LS
      BY <1>1, <1>2, <2>1
    <2>2. CASE j > LS
      <3>1. j \notin s + 1 .. s + len
        BY <1>1, <1>2, <2>2
      <3> QED
        BY <1>1, <2>2, <3>1
    <2> QED
      BY <1>1, <2>1, <2>2
  <1>5. s >= 1 => T[s].ch = "nl"
    <2>1. s >= 1 => s \in 1 .. LT /\ s <= LS
      BY <1>1, <1>2, <1>3
    <2> QED
      BY <1>1, <1>2, <2>1
  <1> QED
    BY <1>3, <1>4, <1>5 DEF Window, LT

LEMMA ConcatThree ==
  ASSUME NEW a \in Seq(Byte), NEW b \in Seq(Byte), NEW c \in Seq(Byte), NEW s, s = a \o (b \o c)
  PROVE  /\ s \in Seq(Byte) /\ Len(s) \in Nat /\ Len(s) = Len(a) + Len(b) + Len(c)
         /\ Len(a) \in Nat /\ Len(b) \in Nat /\ Len(c) \in Nat
         /\ \A j \in 1 .. Len(s) : s[j] \in Byte
         /\ \A j \in 1 .. Len(a) : s[j] = a[j]
         /\ \A j \in 1 .. Len(b) : s[Len(a) + j] = b[j]
         /\ \A j \in 1 .. Len(c) : s[Len(a) + Len(b) + j] = c[j]
PROOF
  <1> DEFINE t == b \o c
             la == Len(a)
             lb == Len(b)
             lc == Len(c)
  <1>1. la \in Nat /\ lb \in Nat /\ lc \in Nat
    BY LenProperties
  <1>2. /\ t \in Seq(Byte) /\ Len(t) = lb + lc
        /\ \A j \in 1 .. lb + lc : t[j] = IF j <= lb THEN b[j] ELSE c[j - lb]
    BY ConcatProperties
  <1> HIDE DEF t
  <1>3. /\ s \in Seq(Byte) /\ Len(s) = la + Len(t)
        /\ \A j \in 1 .. la + Len(t) : s[j] = IF j <= la THEN a[j] ELSE t[j - la]
    BY <1>2, ConcatProperties DEF t
  <1>4. \A j \in 1 .. Len(s) : s[j] \in Byte
    BY <1>3, ElementOfSeq
  <1> HIDE DEF la, lb, lc
  <1>5. Len(s) \in Nat /\ Len(s) = la + lb + lc
    BY <1>1, <1>2, <1>3
  <1>6. ASSUME NEW j \in 1 .. la
        PROVE  s[j] = a[j]
    <2>1. j \in 1 .. la + Len(t) /\ j <= la
      BY <1>1, <1>2
    <2> QED
      BY <1>3, <2>1
  <1>7. ASSUME NEW j \in 1 .. lb + lc
        PROVE  s[la + j] = t[j]
    <2> DEFINE k == la + j
    <2>1. k \in 1 .. la + Len(t) /\ ~ (k <= la) /\ k - la = j
      BY <1>1, <1>2
    <2> HIDE DEF k
    <2>2. s[k] = t[j]
      BY <1>3, <2>1
    <2> QED
      BY <2>2 DEF k
  <1>8. ASSUME NEW j \in 1 .. lb
        PROVE  s[la + j] = b[j]
    <2>1. j \in 1 .. lb + lc /\ j <= lb
      BY <1>1
    <2> QED
      BY <1>2, <1>7, <2>1
  <1>9. ASSUME NEW j \in 1 .. lc
        PROVE  s[la + lb + j] = c[j]
    <2> DEFINE k == lb + j
    <2>1. k \in 1 .. lb + lc /\ ~ (k <= lb) /\ k - lb = j /\ la + k = la + lb + j
      BY <1>1
    <2> HIDE DEF k
    <2>2. s[la + k] = t[k] /\ t[k] = c[j]
      BY <1>2, <1>7, <2>1
    <2> QED
      BY <2>1, <2>2
  <1> QED
    BY <1>1, <1>3, <1>4, <1>5, <1>6, <1>8, <1>9 DEF la, lb, lc

LEMMA FlowIs ==
  ASSUME TypeOK
  PROVE  /\ flow \in Seq(Byte) /\ Len(flow) \in Nat
         /\ Len(flow) = Len(buf) + Len(pipe) + Len(rest)
         /\ Len(buf) \in Nat /\ Len(pipe) \in Nat /\ Len(rest) \in Nat
         /\ \A j \in 1 .. Len(flow) : flow[j] \in Byte
         /\ \A j \in 1 .. Len(buf) : flow[j] = buf[j]
         /\ \A j \in 1 .. Len(pipe) : flow[Len(buf) + j] = pipe[j]
         /\ \A j \in 1 .. Len(rest) : flow[Len(buf) + Len(pipe) + j] = rest[j]
PROOF
  <1>1. buf \in Seq(Byte) /\ pipe \in Seq(Byte) /\ rest \in Seq(Byte)
    BY DEF TypeOK
  <1> QED
    BY <1>1, ConcatThree DEF flow

\* The first c bytes of the flow, or none, have gone to the app or to waste.
Drops(c) ==
  /\ c \in 0 .. Len(flow) /\ Len(flow') = Len(flow) - c
  /\ \A j \in 1 .. Len(flow') : flow'[j] = flow[j + c]

LEMMA FlowDropped ==
  ASSUME TypeOK, FlowInv, NEW c, Drops(c), sent' = sent, open' => open, hit \subseteq hit'
  PROVE  Genuine' /\ Ordered' /\ Intact' /\ LineIsOver'
PROOF
  <1>1. Len(flow) \in Nat /\ flow \in Seq(Byte)
    BY FlowIs
  <1>2. /\ c \in 0 .. Len(flow) /\ Len(flow') = Len(flow) - c
        /\ \A j \in 1 .. Len(flow') : flow'[j] = flow[j + c]
    BY DEF Drops
  <1>3. \A j \in 1 .. Len(flow') : j + c \in 1 .. Len(flow)
    BY <1>1, <1>2
  <1>4. Genuine'
    BY <1>2, <1>3 DEF FlowInv, Genuine
  <1>5. Ordered'
    <2> SUFFICES ASSUME NEW i \in 1 .. Len(flow'), NEW j \in 1 .. Len(flow'), i < j
                 PROVE  flow'[i].no <= flow'[j].no
      BY DEF Ordered
    <2>1. i + c < j + c /\ i + c \in 1 .. Len(flow) /\ j + c \in 1 .. Len(flow)
      BY <1>1, <1>2, <1>3
    <2> QED
      BY <1>2, <2>1 DEF FlowInv, Ordered
  <1>6. Intact'
    <2> SUFFICES ASSUME NEW n \in 1 .. Len(sent) \ hit, Has(flow', n)
                 PROVE  \E s \in Int : Window(flow', n, Len(sent[n]) + 1, s)
      BY DEF Intact
    <2>1. Has(flow, n)
      BY <1>2, <1>3 DEF Has
    <2>2. PICK s \in Int : Window(flow, n, Len(sent[n]) + 1, s)
      BY <2>1 DEF FlowInv, Intact
    <2>3. Len(sent[n]) + 1 \in Nat \ {0}
      BY StateSeqs
    <2>4. /\ s + (Len(sent[n]) + 1) > c => Window(flow', n, Len(sent[n]) + 1, s - c)
          /\ s + (Len(sent[n]) + 1) <= c => ~ Has(flow', n)
      BY <1>1, <1>2, <2>2, <2>3, WindowDropped
    <2>5. s - c \in Int /\ (s + (Len(sent[n]) + 1) > c \/ s + (Len(sent[n]) + 1) <= c)
      BY <1>1, <1>2, <2>3
    <2> QED
      BY <2>4, <2>5
  <1>7. LineIsOver'
    <2> SUFFICES ASSUME Len(flow') > 0, open', Len(sent) + 1 \notin hit
                 PROVE  flow'[Len(flow')].ch = "nl"
      BY DEF LineIsOver
    <2>1. Len(flow) > 0 /\ Len(flow') \in 1 .. Len(flow') /\ Len(flow') + c = Len(flow)
      BY <1>1, <1>2
    <2> QED
      BY <1>2, <2>1 DEF FlowInv, LineIsOver
  <1> QED
    BY <1>4, <1>5, <1>6, <1>7

\* t is s with c behind it.
Extends(s, t, c) ==
  /\ Len(s) \in Nat /\ Len(t) \in Nat /\ Len(c) \in Nat /\ Len(t) = Len(s) + Len(c)
  /\ \A j \in 1 .. Len(s) : t[j] = s[j]
  /\ \A k \in 1 .. Len(c) : t[Len(s) + k] = c[k]

LEMMA ConcatGrows ==
  ASSUME NEW a \in Seq(Byte), NEW b \in Seq(Byte), NEW c \in Seq(Byte)
  PROVE  Extends(a \o (b \o << >>), a \o (b \o c), c)
PROOF
  <1> DEFINE s == a \o (b \o << >>)
             t == a \o (b \o c)
  <1> DEFINE la == Len(a)
             lb == Len(b)
             lc == Len(c)
             ls == Len(s)
  <1>1. << >> \in Seq(Byte) /\ Len(<< >>) = 0
    BY EmptySeq
  <1>2. /\ ls \in Nat /\ ls = la + lb + 0 /\ la \in Nat /\ lb \in Nat
        /\ \A j \in 1 .. la : s[j] = a[j]
        /\ \A j \in 1 .. lb : s[la + j] = b[j]
    BY <1>1, ConcatThree
  <1>3. /\ Len(t) \in Nat /\ Len(t) = la + lb + lc /\ lc \in Nat
        /\ \A j \in 1 .. la : t[j] = a[j]
        /\ \A j \in 1 .. lb : t[la + j] = b[j]
        /\ \A j \in 1 .. lc : t[la + lb + j] = c[j]
    BY ConcatThree
  <1> HIDE DEF la, lb, lc, ls, s, t
  <1>4. ASSUME NEW j \in 1 .. ls
        PROVE  t[j] = s[j]
    <2>1. CASE j \in 1 .. la
      BY <1>2, <1>3, <2>1
    <2>2. CASE j \notin 1 .. la
      <3> DEFINE k == j - la
      <3>1. k \in 1 .. lb /\ la + k = j
        BY <1>2, <2>2
      <3> HIDE DEF k
      <3>2. t[la + k] = s[la + k]
        BY <1>2, <1>3, <3>1
      <3> QED
        BY <3>1, <3>2
    <2> QED
      BY <2>1, <2>2
  <1>5. la + lb = ls
    BY <1>2
  <1>6. Len(t) = ls + lc /\ \A k \in 1 .. lc : t[ls + k] = c[k]
    BY <1>3, <1>5
  <1> QED
    BY <1>2, <1>3, <1>4, <1>6 DEF la, lb, lc, ls, s, t, Extends

LEMMA SendFrameFlow ==
  ASSUME TypeOK, FlowInv, NEW frame \in Frames, send_frame(frame)
  PROVE  /\ FlowInv'
         /\ Len(sent') = Len(sent) + 1 /\ \A n \in 1 .. Len(sent) : sent'[n] = sent[n]
         /\ \A j \in 1 .. Len(flow') : Has(flow, flow'[j].no) \/ flow'[j].no = Len(sent) + 1
         /\ Window(flow', Len(sent) + 1, Len(frame) + 1, Len(flow)) \/ Len(sent) + 1 \in hit
         /\ Len(flow) \in Nat /\ sent'[Len(sent) + 1] = frame
         /\ \A n \in 1 .. Len(sent), len \in Nat \ {0}, s \in Int :
              Window(flow, n, len, s) => Window(flow', n, len, s)
PROOF
  <1> DEFINE N == Len(sent) + 1
             m == Len(frame) + 1
             S == flow
             T == flow'
             LS == Len(S)
             new == line(N, frame)
  <1>1. /\ sent \in Seq(Frames) /\ Len(sent) \in Nat /\ frame \in Seq(Chars)
        /\ buf \in Seq(Byte) /\ pipe \in Seq(Byte) /\ N \in 1 .. MaxSent
        /\ Len(frame) \in Nat
    BY StateSeqs, TransportAssumption, LenProperties DEF send_frame
  <1>2. /\ open /\ rest = << >> /\ rest' = new
        /\ sent' = Append(sent, frame)
        /\ pipe' = pipe /\ buf' = buf /\ open' = open /\ hit' = hit
    BY DEF send_frame, receiver
  <1>3. /\ Len(sent') = N /\ sent'[N] = frame
        /\ \A n \in 1 .. Len(sent) : sent'[n] = sent[n]
    BY <1>1, <1>2, AppendProperties
  <1>4. /\ new \in Seq(Byte) /\ Len(new) = m
        /\ \A k \in 1 .. m :
             /\ new[k].no = N /\ new[k].at = k
             /\ new[k].ch = IF k <= Len(frame) THEN frame[k] ELSE "nl"
    BY <1>1, LineIs
  <1>5. S = buf \o (pipe \o << >>) /\ T = buf \o (pipe \o new)
    BY <1>2 DEF flow
  <1> HIDE DEF new, S, T
  <1>6. /\ LS \in Nat /\ Len(T) = LS + m
        /\ \A j \in 1 .. LS : T[j] = S[j]
        /\ \A k \in 1 .. m : T[LS + k] = new[k]
    <2>1. new \in Seq(Byte)
      BY <1>4
    <2>2. Extends(S, T, new)
      BY <1>1, <1>5, <2>1, ConcatGrows
    <2> QED
      BY <1>4, <2>2 DEF Extends
  <1>7. \A j \in 1 .. LS : IsSentByte(S[j], sent)
    BY DEF S, FlowInv, Genuine
  <1>8. \A j \in 1 .. LS : S[j].no \in 1 .. Len(sent)
    BY <1>7 DEF IsSentByte
  <1> HIDE DEF N, m, LS
  <1>9. N \in Nat /\ m \in Nat \ {0} /\ m = Len(frame) + 1 /\ Len(sent) = N - 1
    BY <1>1 DEF N, m
  <1>10. ASSUME NEW j \in 1 .. Len(T), ~ (j <= LS)
         PROVE  /\ j - LS \in 1 .. m /\ T[j] = new[j - LS]
                /\ T[j].no = N /\ T[j].at = j - LS
                /\ T[j].ch = IF j - LS <= Len(frame) THEN frame[j - LS] ELSE "nl"
    <2> DEFINE k == j - LS
    <2>1. k \in 1 .. m /\ LS + k = j
      BY <1>6, <1>9, <1>10
    <2> HIDE DEF k
    <2>2. T[LS + k] = new[k]
      BY <1>6, <2>1
    <2>3. T[j] = new[k]
      BY <2>1, <2>2
    <2> QED
      BY <1>4, <2>1, <2>3 DEF k
  <1>11. \A j \in 1 .. Len(T) : IsSentByte(T[j], sent')
    <2> SUFFICES ASSUME NEW j \in 1 .. Len(T)
                 PROVE  IsSentByte(T[j], sent')
      OBVIOUS
    <2>1. CASE j <= LS
      <3>1. j \in 1 .. LS /\ T[j] = S[j]
        BY <1>6, <2>1
      <3>2. S[j].no \in 1 .. Len(sent) /\ S[j].no \in 1 .. N
        BY <1>8, <1>9, <3>1
      <3> QED
        BY <1>3, <1>7, <3>1, <3>2 DEF IsSentByte
    <2>2. CASE ~ (j <= LS)
      <3>1. N \in 1 .. N
        BY <1>1, <1>9
      <3> QED
        BY <1>3, <1>9, <1>10, <2>2, <3>1 DEF IsSentByte
    <2> QED
      BY <2>1, <2>2
  <1>12. \A i, j \in 1 .. Len(T) : i < j => T[i].no <= T[j].no
    <2> SUFFICES ASSUME NEW i \in 1 .. Len(T), NEW j \in 1 .. Len(T), i < j
                 PROVE  T[i].no <= T[j].no
      OBVIOUS
    <2>1. \A x, y \in 1 .. LS : x < y => S[x].no <= S[y].no
      BY DEF S, LS, FlowInv, Ordered
    <2>2. CASE j <= LS
      BY <1>6, <2>1, <2>2
    <2>3. CASE i <= LS /\ ~ (j <= LS)
      <3>1. T[j].no = N
        BY <1>10, <2>3
      <3>2. i \in 1 .. LS
        BY <1>6, <2>3
      <3>3. T[i].no \in 1 .. Len(sent)
        BY <1>6, <1>8, <3>2
      <3> QED
        BY <1>9, <3>1, <3>3
    <2>4. CASE ~ (i <= LS) /\ ~ (j <= LS)
      BY <1>9, <1>10, <2>4
    <2> QED
      BY <1>6, <2>2, <2>3, <2>4
  <1>13. N \notin hit => Window(T, N, m, LS)
    <2> SUFFICES ASSUME N \notin hit
                 PROVE  Window(T, N, m, LS)
      OBVIOUS
    <2>1. LS + m \in 1 .. Len(T)
      BY <1>6, <1>9
    <2>2. ASSUME NEW j \in 1 .. Len(T)
          PROVE  /\ T[j].no = N <=> j \in LS + 1 .. LS + m
                 /\ T[j].no = N => T[j].at = j - LS
      <3>1. CASE j <= LS
        <4>1. j \in 1 .. LS /\ T[j] = S[j] /\ j \notin LS + 1 .. LS + m
          BY <1>6, <3>1
        <4>2. S[j].no \in 1 .. Len(sent)
          BY <1>8, <4>1
        <4>3. T[j].no # N
          BY <1>9, <4>1, <4>2
        <4> QED
          BY <4>1, <4>3
      <3>2. CASE ~ (j <= LS)
        <4>1. j \in LS + 1 .. LS + m
          BY <1>6, <3>2
        <4> QED
          BY <1>10, <3>2, <4>1
      <3> QED
        BY <3>1, <3>2
    <2>3. LS >= 1 => T[LS].ch = "nl"
      <3>1. LS > 0 => S[LS].ch = "nl"
        BY <1>2 DEF S, LS, N, FlowInv, LineIsOver
      <3>2. LS >= 1 => LS > 0 /\ LS \in 1 .. LS
        BY <1>6
      <3> QED
        BY <1>6, <3>1, <3>2
    <2> QED
      BY <2>1, <2>2, <2>3 DEF Window
  <1>14. ASSUME NEW n \in 1 .. Len(sent), NEW len \in Nat \ {0}, NEW s \in Int,
                Window(S, n, len, s)
         PROVE  Window(T, n, len, s)
    <2>1. s + len <= Len(T)
      <3>1. s + len \in 1 .. LS
        BY <1>14 DEF Window, LS
      <3> QED
        BY <1>6, <1>9, <3>1
    <2>2. \A j \in 1 .. Len(T) : ~ (j <= LS) => T[j].no # n
      BY <1>9, <1>10
    <2>3. Len(S) \in Nat /\ Len(T) \in Nat
      BY <1>6, <1>9 DEF LS
    <2>4. /\ \A j \in 1 .. Len(T) : j <= Len(S) => T[j] = S[j]
          /\ \A j \in 1 .. Len(T) : j > Len(S) => T[j].no # n
      BY <1>6, <2>2, <2>3 DEF LS
    <2> QED
      BY <1>14, <2>1, <2>3, <2>4, WindowKept
  <1>15. \A n \in 1 .. N \ hit :
           Has(T, n) => \E s \in Int : Window(T, n, Len(sent'[n]) + 1, s)
    <2> SUFFICES ASSUME NEW n \in 1 .. N \ hit, Has(T, n)
                 PROVE  \E s \in Int : Window(T, n, Len(sent'[n]) + 1, s)
      OBVIOUS
    <2>1. CASE n = N
      <3>1. Window(T, n, Len(sent'[n]) + 1, LS) /\ LS \in Int
        BY <1>3, <1>6, <1>9, <1>13, <2>1
      <3> QED
        BY <3>1
    <2>2. CASE n # N
      <3>1. n \in 1 .. Len(sent)
        BY <1>9, <2>2
      <3>2. PICK j \in 1 .. Len(T) : T[j].no = n
        BY DEF Has
      <3>3. j <= LS
        BY <1>10, <2>2, <3>2
      <3>4. Has(S, n)
        <4>1. j \in 1 .. LS /\ T[j] = S[j]
          BY <1>6, <3>3
        <4> QED
          BY <3>2, <4>1 DEF Has, LS
      <3>5. PICK s \in Int : Window(S, n, Len(sent[n]) + 1, s)
        BY <3>1, <3>4 DEF S, FlowInv, Intact
      <3>6. Len(sent[n]) + 1 \in Nat \ {0}
        BY <3>1, StateSeqs
      <3>7. Window(T, n, Len(sent[n]) + 1, s)
        BY <1>14, <3>1, <3>5, <3>6
      <3> QED
        BY <1>3, <3>1, <3>7
    <2> QED
      BY <2>1, <2>2
  <1>16. T[Len(T)].ch = "nl" /\ Len(T) > 0
    <2>1. /\ Len(T) \in 1 .. Len(T) /\ ~ (Len(T) <= LS) /\ Len(T) - LS = m
          /\ ~ (m <= Len(frame)) /\ Len(T) > 0
      BY <1>1, <1>6, <1>9
    <2> QED
      BY <1>10, <2>1
  <1>17. FlowInv'
    <2>1. Genuine' /\ Ordered' /\ LineIsOver'
      BY <1>11, <1>12, <1>16 DEF Genuine, Ordered, LineIsOver, T
    <2>2. Intact'
      BY <1>2, <1>3, <1>15 DEF Intact, T
    <2>3. RestIsLast' /\ NoNewline'
      BY <1>2, <1>3, <1>4 DEF FlowInv, RestIsLast, NoNewline
    <2> QED
      BY <2>1, <2>2, <2>3 DEF FlowInv
  <1>18. \A j \in 1 .. Len(T) : Has(S, T[j].no) \/ T[j].no = N
    BY <1>6, <1>10 DEF Has, LS
  <1> QED
    BY <1>3, <1>6, <1>9, <1>13, <1>14, <1>17, <1>18 DEF S, T, N, LS

\* What the sender has not written of its frame is lost.
LEMMA FlowCut ==
  ASSUME TypeOK, FlowInv, rest # << >>, rest' = << >>, sent' = sent, pipe' = pipe,
         buf' = buf, hit \subseteq hit', Len(sent) \in hit', open' => open,
         open' /\ Len(sent) + 1 \notin hit' => Head(rest).at = 1 /\ Len(sent) \notin hit
  PROVE  /\ FlowInv'
         /\ \A j \in 1 .. Len(flow') : Has(flow, flow'[j].no)
         /\ \A n \in 1 .. Len(sent) \ hit', len \in Nat \ {0}, s \in Int :
              Window(flow, n, len, s) => Window(flow', n, len, s)
         /\ \A n : Has(flow', n) => Has(flow, n)
PROOF
  <1> DEFINE N == Len(sent)
             S == flow
             T == flow'
             LT == Len(T)
  <1>1. /\ buf \in Seq(Byte) /\ pipe \in Seq(Byte) /\ rest \in Seq(Byte) /\ N \in Nat
        /\ rest[1] = Head(rest)
    BY StateSeqs, HeadTailProperties
  <1>2. T = buf \o (pipe \o << >>) /\ S = buf \o (pipe \o rest)
    BY DEF flow
  <1> HIDE DEF S, T
  <1>3. Extends(T, S, rest)
    BY <1>1, <1>2, ConcatGrows
  <1> HIDE DEF LT
  <1>4. /\ LT \in Nat /\ Len(rest) \in Nat \ {0} /\ Len(S) = LT + Len(rest)
        /\ Len(S) \in Nat
        /\ \A j \in 1 .. LT : S[j] = T[j] /\ j \in 1 .. Len(S)
        /\ \A k \in 1 .. Len(rest) : S[LT + k] = rest[k]
    <2>1. Len(rest) # 0
      BY <1>1, EmptySeq
    <2> QED
      BY <1>3, <2>1 DEF Extends, LT
  <1>5. ASSUME NEW j \in 1 .. Len(S), ~ (j <= LT)
        PROVE  S[j].no = N
    <2> DEFINE k == j - LT
    <2>1. k \in 1 .. Len(rest) /\ LT + k = j
      BY <1>4, <1>5
    <2> HIDE DEF k
    <2>2. S[LT + k] = rest[k] /\ rest[k].no = N
      BY <1>4, <2>1 DEF FlowInv, RestIsLast
    <2> QED
      BY <2>1, <2>2
  <1>6. \A j \in 1 .. LT : IsSentByte(T[j], sent)
    BY <1>4 DEF S, FlowInv, Genuine
  <1>7. \A i, j \in 1 .. LT : i < j => T[i].no <= T[j].no
    <2>1. \A i, j \in 1 .. Len(S) : i < j => S[i].no <= S[j].no
      BY DEF S, FlowInv, Ordered
    <2> QED
      BY <1>4, <2>1
  <1>8. \A n : Has(T, n) => Has(S, n)
    BY <1>4 DEF Has, LT
  <1>9. ASSUME NEW n \in 1 .. N, n # N, NEW len \in Nat \ {0}, NEW s \in Int,
               Window(S, n, len, s)
        PROVE  Window(T, n, len, s)
    <2>1. s + len <= LT
      <3>1. s + len \in 1 .. Len(S) /\ s + len \in s + 1 .. s + len
        BY <1>9 DEF Window
      <3>2. S[s + len].no = n
        BY <1>9, <3>1 DEF Window
      <3>3. s + len <= LT \/ S[s + len].no = N
        BY <1>5, <3>1
      <3> QED
        BY <1>9, <3>2, <3>3
    <2>2. /\ \A j \in 1 .. LT : j <= Len(S) => T[j] = S[j]
          /\ \A j \in 1 .. LT : j > Len(S) => T[j].no # n
      BY <1>4
    <2> QED
      BY <1>4, <1>9, <2>1, <2>2, WindowKept DEF LT
  <1>10. ASSUME NEW n \in 1 .. N \ hit', Has(T, n)
         PROVE  \E s \in Int : Window(T, n, Len(sent[n]) + 1, s)
    <2>1. n # N /\ n \in 1 .. N \ hit
      BY <1>10
    <2>2. PICK s \in Int : Window(S, n, Len(sent[n]) + 1, s)
      BY <1>8, <1>10, <2>1 DEF S, FlowInv, Intact
    <2>3. Len(sent[n]) + 1 \in Nat \ {0}
      BY StateSeqs
    <2> QED
      BY <1>9, <2>1, <2>2, <2>3
  <1>11. ASSUME LT > 0, open', N + 1 \notin hit'
         PROVE  T[LT].ch = "nl"
    <2>1. Head(rest).at = 1 /\ N \notin hit
      BY <1>11
    <2>2. /\ LT + 1 \in 1 .. Len(S) /\ S[LT + 1] = rest[1]
          /\ 1 \in 1 .. Len(rest)
      BY <1>4
    <2>3. S[LT + 1].at = 1 /\ S[LT + 1].no = N
      BY <1>1, <2>1, <2>2 DEF FlowInv, RestIsLast
    <2>4. N \in 1 .. N /\ Has(S, N)
      <3>1. IsSentByte(S[LT + 1], sent)
        BY <2>2 DEF S, FlowInv, Genuine
      <3> QED
        BY <2>2, <2>3, <3>1 DEF IsSentByte, Has
    <2>5. PICK s \in Int : Window(S, N, Len(sent[N]) + 1, s)
      BY <2>1, <2>4 DEF S, FlowInv, Intact
    <2>6. S[LT + 1].at = LT + 1 - s
      <3>1. LT + 1 \in 1 .. Len(S) /\ S[LT + 1].no = N /\ LT \in Int
        BY <1>4, <2>2, <2>3
      <3> QED
        BY <2>5, <3>1 DEF Window
    <2>7. s = LT /\ s >= 1
      BY <1>4, <1>11, <2>3, <2>6
    <2>8. S[LT].ch = "nl"
      BY <2>5, <2>7 DEF Window
    <2>9. LT \in 1 .. LT
      BY <1>4, <1>11
    <2> QED
      BY <1>4, <2>8, <2>9
  <1>12. FlowInv'
    <2>1. Genuine' /\ Ordered'
      BY <1>6, <1>7 DEF Genuine, Ordered, T, LT
    <2>2. Intact'
      BY <1>10 DEF Intact, T
    <2>3. LineIsOver'
      BY <1>11 DEF LineIsOver, T, LT
    <2>4. RestIsLast' /\ NoNewline'
      <3>1. Len(rest') = 0
        BY EmptySeq
      <3>2. \A j \in 1 .. Len(rest') : FALSE
        BY <3>1
      <3> QED
        BY <3>2 DEF FlowInv, RestIsLast, NoNewline
    <2> QED
      BY <2>1, <2>2, <2>3, <2>4 DEF FlowInv
  <1>13. \A j \in 1 .. LT : Has(S, T[j].no)
    BY <1>4 DEF Has
  <1> QED
    BY <1>8, <1>9, <1>12, <1>13 DEF S, T, N, LT

\* recv_frame returns what it read, and the flow goes on behind it.
LEMMA BufDropped ==
  ASSUME TypeOK, buf' = << >>, pipe' = pipe, rest' = rest
  PROVE  Drops(Len(buf))
PROOF
  <1> DEFINE T == flow'
             lb == Len(buf)
             lp == Len(pipe)
             lr == Len(rest)
  <1>1. << >> \in Seq(Byte) /\ Len(<< >>) = 0 /\ pipe \in Seq(Byte) /\ rest \in Seq(Byte)
    BY EmptySeq, StateSeqs
  <1>2. T = << >> \o (pipe \o rest)
    BY DEF flow
  <1>3. T = pipe \o rest
    BY <1>1, <1>2, ConcatProperties, ConcatEmptySeq
  <1> HIDE DEF T
  <1>4. /\ Len(T) = lp + lr
        /\ \A j \in 1 .. lp + lr : T[j] = IF j <= lp THEN pipe[j] ELSE rest[j - lp]
    BY <1>1, <1>3, ConcatProperties
  <1>5. /\ Len(flow) = lb + lp + lr /\ lb \in Nat /\ lp \in Nat /\ lr \in Nat
        /\ \A j \in 1 .. lp : flow[lb + j] = pipe[j]
        /\ \A j \in 1 .. lr : flow[lb + lp + j] = rest[j]
    BY FlowIs
  <1> HIDE DEF lb, lp, lr
  <1>6. ASSUME NEW j \in 1 .. lp + lr
        PROVE  T[j] = flow[j + lb]
    <2>1. CASE j <= lp
      <3>1. j \in 1 .. lp /\ lb + j = j + lb
        BY <1>5, <2>1
      <3>2. T[j] = pipe[j] /\ flow[lb + j] = pipe[j]
        BY <1>4, <1>5, <2>1, <3>1
      <3> QED
        BY <3>1, <3>2
    <2>2. CASE ~ (j <= lp)
      <3> DEFINE k == j - lp
      <3>1. k \in 1 .. lr /\ lb + lp + k = j + lb
        BY <1>5, <2>2
      <3>2. T[j] = rest[k]
        BY <1>4, <2>2
      <3> HIDE DEF k
      <3>3. flow[lb + lp + k] = rest[k]
        BY <1>5, <3>1
      <3> QED
        BY <3>1, <3>2, <3>3
    <2> QED
      BY <2>1, <2>2
  <1>7. lb \in 0 .. Len(flow) /\ Len(T) = Len(flow) - lb
    BY <1>4, <1>5
  <1> QED
    BY <1>4, <1>6, <1>7 DEF Drops, T, lb

\* The byte recv_frame takes next.
LEMMA BytesAreFirst ==
  ASSUME TypeOK, pipe # << >>, NEW bytes, bytes = Append(buf, Head(pipe))
  PROVE  /\ bytes \o (Tail(pipe) \o rest) = flow
         /\ bytes \in Seq(Byte) /\ Len(bytes) = Len(buf) + 1 /\ Len(bytes) \in 1 .. Len(flow)
         /\ \A j \in 1 .. Len(bytes) : bytes[j] = flow[j]
         /\ \A j \in 1 .. Len(bytes) - 1 : bytes[j] = buf[j]
PROOF
  <1>1. /\ buf \in Seq(Byte) /\ pipe \in Seq(Byte) /\ rest \in Seq(Byte)
        /\ pipe \o rest \in Seq(Byte)
    BY StateSeqs
  <1>2. /\ pipe \o rest # << >> /\ Head(pipe \o rest) = Head(pipe)
        /\ Tail(pipe \o rest) = Tail(pipe) \o rest
    BY <1>1, TakeOne
  <1>3. Append(buf, Head(pipe \o rest)) \o Tail(pipe \o rest) = buf \o (pipe \o rest)
    BY <1>1, <1>2, MoveOne
  <1>4. bytes \o (Tail(pipe) \o rest) = flow
    BY <1>2, <1>3 DEF flow
  <1>5. /\ bytes \in Seq(Byte) /\ Len(bytes) = Len(buf) + 1 /\ Tail(pipe) \in Seq(Byte)
        /\ \A j \in 1 .. Len(buf) : bytes[j] = buf[j]
    BY NextByte
  <1>6. /\ Len(flow) = Len(bytes) + Len(Tail(pipe)) + Len(rest) /\ Len(bytes) \in Nat
        /\ Len(Tail(pipe)) \in Nat /\ Len(rest) \in Nat
        /\ \A j \in 1 .. Len(bytes) : bytes[j] = flow[j]
    <2> DEFINE tail == Tail(pipe)
    <2>1. flow = bytes \o (tail \o rest) /\ tail \in Seq(Byte)
      BY <1>4, <1>5
    <2> HIDE DEF tail
    <2>2. /\ bytes \in Seq(Byte) /\ tail \in Seq(Byte) /\ rest \in Seq(Byte)
          /\ flow = bytes \o (tail \o rest)
      BY <1>1, <1>5, <2>1
    <2> QED
      BY <2>2, ConcatThree DEF tail
  <1>7. Len(buf) \in Nat
    BY StateSeqs
  <1>8. Len(bytes) - 1 = Len(buf) /\ Len(bytes) \in 1 .. Len(flow)
    BY <1>5, <1>6, <1>7
  <1>9. \A j \in 1 .. Len(bytes) - 1 : bytes[j] = buf[j]
    BY <1>5, <1>8
  <1> QED
    BY <1>4, <1>5, <1>6, <1>8, <1>9

LEMMA BytesDropped ==
  ASSUME TypeOK, pipe # << >>, buf' = << >>, pipe' = Tail(pipe), rest' = rest
  PROVE  Drops(Len(buf) + 1)
PROOF
  <1> DEFINE bytes == Append(buf, Head(pipe))
             T == flow'
             tail == Tail(pipe) \o rest
  <1>1. /\ bytes \o tail = flow /\ bytes \in Seq(Byte) /\ Len(bytes) = Len(buf) + 1
        /\ Len(bytes) \in Nat
    BY BytesAreFirst, LenProperties
  <1>2. tail \in Seq(Byte)
    BY NextByte, StateSeqs, ConcatProperties
  <1>3. T = tail
    BY <1>2, ConcatEmptySeq DEF flow
  <1> HIDE DEF T, tail, bytes
  <1>4. /\ Len(flow) = Len(bytes) + Len(tail) /\ Len(tail) \in Nat
        /\ \A j \in 1 .. Len(bytes) + Len(tail) :
             flow[j] = IF j <= Len(bytes) THEN bytes[j] ELSE tail[j - Len(bytes)]
    <2>1. /\ Len(bytes \o tail) = Len(bytes) + Len(tail) /\ Len(tail) \in Nat
          /\ \A j \in 1 .. Len(bytes) + Len(tail) :
               (bytes \o tail)[j] = IF j <= Len(bytes) THEN bytes[j] ELSE tail[j - Len(bytes)]
      BY <1>1, <1>2, ConcatProperties, LenProperties
    <2> QED
      BY <1>1, <2>1
  <1>5. ASSUME NEW j \in 1 .. Len(tail)
        PROVE  tail[j] = flow[j + Len(bytes)]
    <2> DEFINE k == j + Len(bytes)
    <2>1. k \in 1 .. Len(bytes) + Len(tail) /\ ~ (k <= Len(bytes)) /\ k - Len(bytes) = j
      BY <1>1, <1>4
    <2> HIDE DEF k
    <2>2. flow[k] = tail[j]
      BY <1>4, <2>1
    <2> QED
      BY <2>2 DEF k
  <1>6. Len(bytes) \in 0 .. Len(flow) /\ Len(tail) = Len(flow) - Len(bytes)
    BY <1>1, <1>4
  <1>7. Drops(Len(bytes))
    BY <1>3, <1>5, <1>6 DEF Drops, T
  <1> QED
    BY <1>1, <1>7

LEMMA FlowKept ==
  ASSUME FlowInv, flow' = flow, sent' = sent, hit \subseteq hit', open' => open
  PROVE  Genuine' /\ Ordered' /\ Intact' /\ LineIsOver'
PROOF
  <1>1. Genuine' /\ Ordered'
    BY DEF FlowInv, Genuine, Ordered
  <1>2. Intact'
    <2>1. \A n \in 1 .. Len(sent) \ hit' : n \in 1 .. Len(sent) \ hit
      OBVIOUS
    <2> QED
      BY <2>1 DEF FlowInv, Intact
  <1>3. LineIsOver'
    BY DEF FlowInv, LineIsOver
  <1> QED
    BY <1>1, <1>2, <1>3

\* Of several frames, recv_frame reads only those that were hit together: the
\* line of any other ends what it reads, and begins it.
LEMMA NotMixed ==
  ASSUME TypeOK, FlowInv, NEW c \in 1 .. Len(flow),
         \A j \in 1 .. c - 1 : flow[j].ch # "nl",
         NEW i \in 1 .. c, flow[i].no \notin hit
  PROVE  \A j \in 1 .. c : flow[j].no = flow[i].no
PROOF
  <1> DEFINE S == flow
             n == S[i].no
             len == Len(sent[n]) + 1
  <1>1. Len(S) \in Nat /\ Len(sent) \in Nat /\ i \in 1 .. Len(S)
    BY FlowIs, StateSeqs
  <1>2. IsSentByte(S[i], sent)
    BY <1>1 DEF FlowInv, Genuine
  <1>3. n \in 1 .. Len(sent)
    BY <1>2 DEF IsSentByte
  <1>4. len \in Nat \ {0} /\ len = Len(sent[n]) + 1 /\ Len(sent[n]) \in Nat
    <2>1. Len(sent[n]) \in Nat
      BY <1>3, StateSeqs
    <2> QED
      BY <2>1
  <1>5. \E s \in Int : Window(S, n, len, s)
    BY <1>1, <1>3 DEF FlowInv, Intact, Has
  <1>6. \A j \in 1 .. Len(S) : IsSentByte(S[j], sent)
    BY DEF FlowInv, Genuine
  <1> HIDE DEF len
  <1>7. PICK s \in Int : Window(S, n, len, s)
    BY <1>5
  <1> HIDE DEF n, S
  <1>8. /\ s + len \in 1 .. Len(S)
        /\ \A j \in 1 .. Len(S) : S[j].no = n <=> j \in s + 1 .. s + len
        /\ \A j \in 1 .. Len(S) : S[j].no = n => S[j].at = j - s
        /\ s >= 1 => S[s].ch = "nl"
    BY <1>7 DEF Window
  <1>9. i \in s + 1 .. s + len
    BY <1>1, <1>8 DEF n
  <1>10. \A j \in 1 .. c - 1 : S[j].ch # "nl"
    BY DEF S
  <1>11. s + len >= c
    <2> DEFINE e == s + len
    <2>1. e \in 1 .. Len(S) /\ e \in s + 1 .. s + len /\ e - s = len /\ e \in Int
      BY <1>4, <1>8
    <2> HIDE DEF e
    <2>2. S[e].no = n /\ S[e].at = len
      BY <1>8, <2>1
    <2>3. S[e].ch = "nl"
      <3>1. IsSentByte(S[e], sent)
        BY <1>6, <2>1
      <3>2. ~ (len <= Len(sent[n]))
        BY <1>4
      <3> QED
        BY <2>2, <3>1, <3>2 DEF IsSentByte
    <2>4. e \notin 1 .. c - 1
      BY <1>10, <2>3
    <2>5. e >= c
      BY <1>1, <2>1, <2>4
    <2> QED
      BY <2>5 DEF e
  <1>12. s < 1
    <2> SUFFICES ASSUME s >= 1
                 PROVE  FALSE
      BY <1>8
    <2>1. S[s].ch = "nl"
      BY <1>8
    <2>2. s \in 1 .. c - 1
      BY <1>1, <1>4, <1>9
    <2> QED
      BY <1>10, <2>1, <2>2
  <1>13. ASSUME NEW j \in 1 .. c
         PROVE  S[j].no = n
    <2>1. j \in 1 .. Len(S) /\ j \in s + 1 .. s + len
      BY <1>1, <1>4, <1>8, <1>11, <1>12
    <2> QED
      BY <1>8, <2>1
  <1> QED
    BY <1>13 DEF S, n

\* What is read of the flow.
Reads(bytes) ==
  /\ bytes \in Seq(Byte) /\ Len(bytes) \in 1 .. Len(flow)
  /\ \A j \in 1 .. Len(bytes) : bytes[j] = flow[j]
  /\ \A j \in 1 .. Len(bytes) - 1 : bytes[j].ch # "nl"

LEMMA NumbersOfReads ==
  ASSUME TypeOK, FlowInv, NEW bytes, Reads(bytes)
  PROVE  /\ \A n : n \in Numbers(bytes) <=> \E j \in 1 .. Len(bytes) : flow[j].no = n
         /\ (\E n : Numbers(bytes) = {n}) \/ Numbers(bytes) \subseteq hit
         /\ \A n \in Numbers(bytes) : n \notin hit => Numbers(bytes) = {n}
         /\ Numbers(bytes) \subseteq 1 .. Len(sent) /\ Numbers(bytes) \subseteq 1 .. MaxSent
PROOF
  <1> DEFINE c == Len(bytes)
             S == flow
  <1>1. /\ bytes \in Seq(Byte) /\ c \in 1 .. Len(S) /\ DOMAIN bytes = 1 .. c
        /\ \A j \in 1 .. c : bytes[j] = S[j]
        /\ \A j \in 1 .. c - 1 : bytes[j].ch # "nl"
        /\ Len(S) \in Nat
    BY LenProperties, FlowIs DEF Reads
  <1>2. \A n : n \in Numbers(bytes) <=> \E j \in 1 .. c : S[j].no = n
    BY <1>1 DEF Numbers
  <1>3. \A j \in 1 .. c - 1 : S[j].ch # "nl"
    <2>1. 1 .. c - 1 \subseteq 1 .. c
      BY <1>1
    <2> QED
      BY <1>1, <2>1
  <1> HIDE DEF c
  <1>4. ASSUME NEW n \in Numbers(bytes), n \notin hit
        PROVE  Numbers(bytes) = {n}
    <2>1. PICK i \in 1 .. c : S[i].no = n
      BY <1>2
    <2>2. \A j \in 1 .. c : S[j].no = n
      BY <1>1, <1>3, <1>4, <2>1, NotMixed
    <2> QED
      BY <1>2, <1>4, <2>2
  <1>5. Numbers(bytes) \subseteq 1 .. Len(sent)
    <2>1. \A j \in 1 .. c : IsSentByte(S[j], sent)
      BY <1>1 DEF FlowInv, Genuine
    <2> QED
      BY <1>2, <2>1 DEF IsSentByte
  <1> QED
    BY <1>1, <1>2, <1>4, <1>5, TextIs DEF c

LEMMA HistoryKept ==
  ASSUME FaultInv, origin' = origin, hit \subseteq hit',
         \A n \in 1 .. Len(sent) : n \in 1 .. Len(sent'), Len(sent) \in Nat,
         \A j \in 1 .. Len(flow') : Has(flow, flow'[j].no) \/ flow'[j].no = Len(sent) + 1
  PROVE  Behind' /\ OriginsOrdered' /\ Apart'
PROOF
  <1>1. ASSUME NEW i \in 1 .. Len(origin), NEW n \in origin[i], NEW j \in 1 .. Len(flow')
        PROVE  n <= flow'[j].no
    <2>1. n \in 1 .. Len(sent) /\ \A k \in 1 .. Len(flow) : n <= flow[k].no
      BY DEF FaultInv, Behind
    <2>2. CASE Has(flow, flow'[j].no)
      BY <2>1, <2>2 DEF Has
    <2>3. CASE flow'[j].no = Len(sent) + 1
      BY <2>1, <2>3
    <2> QED
      BY <2>2, <2>3
  <1>2. \A i \in 1 .. Len(origin) : origin[i] \subseteq 1 .. Len(sent')
    BY DEF FaultInv, Behind
  <1>3. Behind'
    BY <1>1, <1>2 DEF Behind
  <1>4. OriginsOrdered' /\ Apart'
    BY DEF FaultInv, OriginsOrdered, Apart
  <1> QED
    BY <1>3, <1>4

LEMMA HistoryGrows ==
  ASSUME TypeOK, FaultInv, NEW bytes, Reads(bytes), Drops(Len(bytes)),
         origin' = Append(origin, Numbers(bytes)), hit' = hit, sent' = sent
  PROVE  Behind' /\ OriginsOrdered' /\ Apart'
PROOF
  <1> DEFINE c == Len(bytes)
             new == Numbers(bytes)
             S == flow
             T == flow'
             K == Len(origin)
  <1>1. /\ c \in 1 .. Len(S) /\ Len(S) \in Nat
        /\ \A j \in 1 .. Len(T) : T[j] = S[j + c]
        /\ Len(T) = Len(S) - c
    BY FlowIs DEF Reads, Drops
  <1>2. /\ \A n : n \in new <=> \E j \in 1 .. c : S[j].no = n
        /\ (\E n : new = {n}) \/ new \subseteq hit
        /\ new \subseteq 1 .. Len(sent) /\ new \subseteq 1 .. MaxSent
    BY NumbersOfReads DEF FaultInv
  <1> HIDE DEF c, new, S, T
  <1>3. /\ K \in Nat /\ Len(origin') = K + 1 /\ origin'[K + 1] = new
        /\ \A i \in 1 .. K : origin'[i] = origin[i]
    <2>1. origin \in Seq(SUBSET (1 .. MaxSent)) /\ new \in SUBSET (1 .. MaxSent)
      BY <1>2 DEF TypeOK
    <2> QED
      BY <2>1, AppendProperties, LenProperties DEF new
  <1> HIDE DEF K
  <1>4. \A x, y \in 1 .. Len(S) : x < y => S[x].no <= S[y].no
    BY DEF S, FaultInv, FlowInv, Ordered
  <1>5. /\ \A i \in 1 .. K : origin[i] \subseteq 1 .. Len(sent)
        /\ \A i \in 1 .. K : \A n \in origin[i], j \in 1 .. Len(S) : n <= S[j].no
    BY DEF S, K, FaultInv, Behind
  <1>6. \A j \in 1 .. Len(T) : j + c \in 1 .. Len(S)
    BY <1>1
  <1>7. ASSUME NEW i \in 1 .. K + 1, NEW n \in origin'[i], NEW j \in 1 .. Len(T)
        PROVE  n <= T[j].no
    <2>1. CASE i \in 1 .. K
      BY <1>1, <1>3, <1>5, <1>6, <2>1
    <2>2. CASE i = K + 1
      <3>1. PICK x \in 1 .. c : S[x].no = n
        BY <1>2, <1>3, <2>2
      <3> DEFINE y == j + c
      <3>2. y \in 1 .. Len(S) /\ x \in 1 .. Len(S) /\ x < y
        BY <1>1, <1>6
      <3>3. T[j] = S[y]
        BY <1>1
      <3> HIDE DEF y
      <3> QED
        BY <1>4, <3>1, <3>2, <3>3
    <2> QED
      BY <1>3, <2>1, <2>2
  <1>8. \A i \in 1 .. K + 1 : origin'[i] \subseteq 1 .. Len(sent)
    <2>1. \A i \in 1 .. K + 1 : i \in 1 .. K \/ i = K + 1
      BY <1>3
    <2> QED
      BY <1>2, <1>3, <1>5, <2>1
  <1>9. Behind'
    BY <1>3, <1>7, <1>8 DEF Behind, T
  <1>10. OriginsOrdered'
    <2> SUFFICES ASSUME NEW i \in 1 .. K + 1, NEW j \in 1 .. K + 1, i < j,
                        NEW n \in origin'[i], NEW m \in origin'[j]
                 PROVE  n <= m
      BY <1>3 DEF OriginsOrdered
    <2>1. i \in 1 .. K
      BY <1>3
    <2>2. CASE j \in 1 .. K
      <3>1. n \in origin[i] /\ m \in origin[j]
        BY <1>3, <2>1, <2>2
      <3> QED
        BY <2>1, <2>2, <3>1 DEF FaultInv, OriginsOrdered, K
    <2>3. CASE j = K + 1
      <3>1. PICK x \in 1 .. c : S[x].no = m
        BY <1>2, <1>3, <2>3
      <3>2. x \in 1 .. Len(S) /\ n \in origin[i]
        BY <1>1, <1>3, <2>1
      <3> QED
        BY <1>5, <2>1, <3>1, <3>2
    <2> QED
      BY <1>3, <2>2, <2>3
  <1>11. Apart'
    <2> SUFFICES ASSUME NEW i \in 1 .. K + 1
                 PROVE  (\E n : origin'[i] = {n}) \/ origin'[i] \subseteq hit
      BY <1>3 DEF Apart
    <2>1. CASE i \in 1 .. K
      BY <1>3, <2>1 DEF FaultInv, Apart, K
    <2>2. CASE i = K + 1
      BY <1>2, <1>3, <2>2
    <2> QED
      BY <1>3, <2>1, <2>2
  <1> QED
    BY <1>9, <1>10, <1>11

(***************************************************************************)
(* What each step does to the flow.                                        *)
(***************************************************************************)
ReadsOn == read_byte /\ pc' = "recv_frame"
ReadsLine == read_byte /\ pc' = "idle"

LEMMA SteadyFlow ==
  ASSUME TypeOK, FlowInv,
         write_byte \/ recv_frame \/ close \/ ReadsOn \/ UNCHANGED vars
  PROVE  /\ FlowInv'
         /\ flow' = flow /\ sent' = sent /\ hit' = hit
         /\ origin' = origin /\ received' = received
PROOF
  <1>1. /\ sent' = sent /\ hit' = hit /\ origin' = origin /\ received' = received
        /\ open' => open
    <2>1. CASE write_byte \/ recv_frame \/ close \/ UNCHANGED vars
      BY <2>1 DEF write_byte, recv_frame, close, vars, sender, receiver
    <2>2. CASE ReadsOn
      BY <2>2 DEF ReadsOn, read_byte, sender, Return
    <2> QED
      BY <2>1, <2>2
  <1>2. flow' = flow /\ RestIsLast' /\ NoNewline'
    <2>1. CASE write_byte
      <3>1. /\ rest # << >> /\ pipe' = Append(pipe, Head(rest)) /\ rest' = Tail(rest)
            /\ buf' = buf /\ open' = open
        BY <2>1 DEF write_byte, receiver
      <3>2. pipe \in Seq(Byte) /\ rest \in Seq(Byte)
        BY StateSeqs
      <3>3. pipe' \o rest' = pipe \o rest
        BY <3>1, <3>2, MoveOne
      <3>4. /\ Len(Tail(rest)) = Len(rest) - 1 /\ Len(rest) \in Nat
            /\ \A j \in 1 .. Len(rest) - 1 : Tail(rest)[j] = rest[j + 1]
        BY <3>1, <3>2, HeadTailProperties, LenProperties
      <3>5. \A j \in 1 .. Len(rest) - 1 : j + 1 \in 1 .. Len(rest)
        BY <3>4
      <3>6. RestIsLast' /\ NoNewline'
        BY <1>1, <3>1, <3>4, <3>5 DEF FlowInv, RestIsLast, NoNewline
      <3> QED
        BY <3>1, <3>3, <3>6 DEF flow
    <2>2. CASE recv_frame \/ UNCHANGED vars
      BY <2>2 DEF recv_frame, vars, sender, receiver, flow, FlowInv, RestIsLast, NoNewline
    <2>3. CASE close
      <3>1. rest = << >> /\ rest' = rest /\ pipe' = pipe /\ buf' = buf
        BY <2>3 DEF close, receiver
      <3> QED
        BY <1>1, <3>1 DEF flow, FlowInv, RestIsLast, NoNewline
    <2>4. CASE ReadsOn
      <3> DEFINE bytes == Append(buf, Head(pipe))
      <3>1. pipe # << >> /\ pipe' = Tail(pipe) /\ rest' = rest /\ open' = open
        BY <2>4 DEF ReadsOn, read_byte, sender
      <3>2. ~ stops(bytes) /\ buf' = bytes
        BY <2>4 DEF ReadsOn, read_byte, Return
      <3>3. /\ bytes \o (Tail(pipe) \o rest) = flow
            /\ Len(bytes) = Len(buf) + 1 /\ Len(buf) \in Nat
            /\ \A j \in 1 .. Len(bytes) - 1 : bytes[j] = buf[j]
        BY <3>1, BytesAreFirst, FlowIs
      <3> HIDE DEF bytes
      <3>4. flow' = flow
        BY <3>1, <3>2, <3>3 DEF flow
      <3>5. RestIsLast'
        BY <1>1, <3>1 DEF FlowInv, RestIsLast
      <3>6. NoNewline'
        <4> SUFFICES ASSUME NEW j \in 1 .. Len(bytes)
                     PROVE  bytes[j].ch # "nl"
          BY <3>2 DEF NoNewline
        <4>1. CASE j = Len(bytes)
          BY <3>2, <4>1 DEF stops
        <4>2. CASE j # Len(bytes)
          <5>1. j \in 1 .. Len(buf) /\ j \in 1 .. Len(bytes) - 1
            BY <3>3, <4>2
          <5>2. bytes[j] = buf[j]
            BY <3>3, <5>1
          <5> QED
            BY <5>1, <5>2 DEF FlowInv, NoNewline
        <4> QED
          BY <4>1, <4>2
      <3> QED
        BY <3>4, <3>5, <3>6
    <2> QED
      BY <2>1, <2>2, <2>3, <2>4
  <1>3. Genuine' /\ Ordered' /\ Intact' /\ LineIsOver'
    BY <1>1, <1>2, FlowKept
  <1> QED
    BY <1>1, <1>2, <1>3 DEF FlowInv

LEMMA CutFlow ==
  ASSUME TypeOK, FlowInv, write_fails \/ close_within_frame
  PROVE  /\ rest # << >> /\ rest' = << >> /\ sent' = sent /\ pipe' = pipe
         /\ buf' = buf /\ hit \subseteq hit' /\ Len(sent) \in hit' /\ (open' => open)
         /\ open' /\ Len(sent) + 1 \notin hit' => Head(rest).at = 1 /\ Len(sent) \notin hit
         /\ origin' = origin /\ received' = received
PROOF
  <1>1. CASE write_fails
    <2>1. /\ rest # << >> /\ rest' = << >> /\ sent' = sent /\ pipe' = pipe
          /\ buf' = buf /\ open' = open /\ origin' = origin /\ received' = received
      BY <1>1 DEF write_fails, receiver
    <2>2. hit' = hit \cup (IF Head(rest).at > 1 \/ Len(sent) \in hit
                             THEN {Len(sent), Len(sent) + 1} ELSE {Len(sent)})
      BY <1>1 DEF write_fails
    <2>3. Head(rest) \in Byte
      BY <2>1, StateSeqs, HeadTailProperties
    <2>4. Head(rest).at \in Nat
      BY <2>3 DEF Byte
    <2>5. rest[1] = Head(rest) /\ 1 \in 1 .. Len(rest)
      BY <2>1, StateSeqs, HeadTailProperties, LenProperties, EmptySeq
    <2>6. Head(rest).at # 0
      <3>1. Len(buf) + Len(pipe) + 1 \in 1 .. Len(flow)
        BY <2>5, FlowIs
      <3>2. flow[Len(buf) + Len(pipe) + 1] = rest[1]
        BY <2>5, FlowIs
      <3>3. IsSentByte(flow[Len(buf) + Len(pipe) + 1], sent)
        BY <3>1 DEF FlowInv, Genuine
      <3> QED
        BY <2>5, <3>2, <3>3 DEF IsSentByte
    <2>7. Head(rest).at > 1 \/ Head(rest).at = 1
      BY <2>4, <2>6
    <2> QED
      BY <2>1, <2>2, <2>7
  <1>2. CASE close_within_frame
    BY <1>2 DEF close_within_frame, receiver
  <1> QED
    BY <1>1, <1>2

LEMMA LineFlow ==
  ASSUME TypeOK, FlowInv, ReadsLine
  PROVE  /\ FlowInv'
         /\ sent' = sent /\ hit' = hit
         /\ \E bytes : Reads(bytes) /\ stops(bytes) /\ Return(bytes) /\ Drops(Len(bytes))
PROOF
  <1> DEFINE bytes == Append(buf, Head(pipe))
  <1>1. /\ pipe # << >> /\ pipe' = Tail(pipe) /\ rest' = rest /\ open' = open
        /\ sent' = sent /\ hit' = hit
    BY DEF ReadsLine, read_byte, sender
  <1>2. stops(bytes) /\ Return(bytes)
    BY DEF ReadsLine, read_byte
  <1>3. buf' = << >>
    BY <1>2 DEF Return
  <1>4. /\ bytes \in Seq(Byte) /\ Len(bytes) = Len(buf) + 1 /\ Len(bytes) \in 1 .. Len(flow)
        /\ \A j \in 1 .. Len(bytes) : bytes[j] = flow[j]
        /\ \A j \in 1 .. Len(bytes) - 1 : bytes[j] = buf[j]
    BY <1>1, BytesAreFirst
  <1>5. Drops(Len(buf) + 1)
    BY <1>1, <1>3, BytesDropped
  <1> HIDE DEF bytes
  <1>6. Len(buf) \in Nat
    BY StateSeqs
  <1>7. Reads(bytes)
    <2>1. \A j \in 1 .. Len(bytes) - 1 : j \in 1 .. Len(buf) /\ bytes[j] = buf[j]
      BY <1>4, <1>6
    <2> QED
      BY <1>4, <2>1 DEF Reads, FlowInv, NoNewline
  <1>8. Drops(Len(bytes))
    BY <1>4, <1>5
  <1>9. Genuine' /\ Ordered' /\ Intact' /\ LineIsOver'
    BY <1>1, <1>8, FlowDropped
  <1>10. RestIsLast' /\ NoNewline'
    <2>1. ~ \E j \in 1 .. Len(buf') : TRUE
      BY <1>3, EmptySeq
    <2> QED
      BY <1>1, <2>1 DEF FlowInv, RestIsLast, NoNewline
  <1> QED
    BY <1>1, <1>2, <1>7, <1>8, <1>9, <1>10 DEF FlowInv

LEMMA EndFlow ==
  ASSUME TypeOK, FlowInv, read_end \/ read_fails
  PROVE  /\ FlowInv' /\ Drops(Len(buf)) /\ sent' = sent
         /\ buf = << >> \/ Reads(buf)
         /\ read_end => Return(buf) /\ hit' = hit /\ Len(flow) = Len(buf)
         /\ read_fails => hit' = hit \cup Numbers(buf) /\ origin' = origin
                            /\ received' = received
PROOF
  <1>1. buf' = << >> /\ pipe' = pipe /\ rest' = rest /\ open' = open /\ sent' = sent
        /\ hit \subseteq hit'
    BY DEF read_end, read_fails, Return, sender
  <1>2. Drops(Len(buf))
    BY <1>1, BufDropped
  <1>3. Genuine' /\ Ordered' /\ Intact' /\ LineIsOver'
    BY <1>1, <1>2, FlowDropped
  <1>4. RestIsLast' /\ NoNewline'
    <2>1. ~ \E j \in 1 .. Len(buf') : TRUE
      BY <1>1, EmptySeq
    <2> QED
      BY <1>1, <2>1 DEF FlowInv, RestIsLast, NoNewline
  <1>5. buf = << >> \/ Reads(buf)
    <2>1. /\ buf \in Seq(Byte) /\ Len(buf) \in Nat
          /\ \A j \in 1 .. Len(buf) : buf[j] = flow[j]
          /\ buf # << >> => Len(buf) # 0
      BY StateSeqs, FlowIs, EmptySeq
    <2>2. Len(buf) <= Len(flow) /\ Len(flow) \in Nat
      BY FlowIs
    <2>3. \A j \in 1 .. Len(buf) - 1 : buf[j].ch # "nl"
      <3>1. \A j \in 1 .. Len(buf) - 1 : j \in 1 .. Len(buf)
        BY <2>1
      <3> QED
        BY <3>1 DEF FlowInv, NoNewline
    <2> QED
      BY <2>1, <2>2, <2>3 DEF Reads
  <1>6. read_end => Return(buf) /\ hit' = hit /\ Len(flow) = Len(buf)
    <2> SUFFICES ASSUME read_end
                 PROVE  Return(buf) /\ hit' = hit /\ Len(flow) = Len(buf)
      OBVIOUS
    <2>1. pipe = << >> /\ ~ open /\ Return(buf) /\ hit' = hit
      BY DEF read_end
    <2>2. rest = << >>
      BY <2>1 DEF FlowInv, RestIsLast
    <2>3. Len(pipe) = 0 /\ Len(rest) = 0
      BY <2>1, <2>2, EmptySeq
    <2> QED
      BY <2>1, <2>3, FlowIs
  <1>7. read_fails => hit' = hit \cup Numbers(buf) /\ origin' = origin /\ received' = received
    BY DEF read_fails
  <1> QED
    BY <1>1, <1>2, <1>3, <1>4, <1>5, <1>6, <1>7 DEF FlowInv

LEMMA FaultStep ==
  ASSUME TypeOK, FaultInv, [Next]_vars
  PROVE  FaultInv'
PROOF
  <1>0. FlowInv /\ Len(sent) \in Nat
    BY StateSeqs DEF FaultInv
  <1>1. ASSUME NEW frame \in Frames, send_frame(frame)
        PROVE  FaultInv'
    <2>1. /\ FlowInv' /\ Len(sent') = Len(sent) + 1
          /\ \A j \in 1 .. Len(flow') : Has(flow, flow'[j].no) \/ flow'[j].no = Len(sent) + 1
      BY <1>0, <1>1, SendFrameFlow
    <2>2. origin' = origin /\ hit' = hit
      BY <1>1 DEF send_frame, receiver
    <2>3. \A n \in 1 .. Len(sent) : n \in 1 .. Len(sent')
      BY <1>0, <2>1
    <2>4. Behind' /\ OriginsOrdered' /\ Apart'
      BY <1>0, <2>1, <2>2, <2>3, HistoryKept
    <2> QED
      BY <2>1, <2>4 DEF FaultInv
  <1>2. CASE write_byte \/ recv_frame \/ close \/ ReadsOn \/ UNCHANGED vars
    <2>1. FlowInv' /\ flow' = flow /\ sent' = sent /\ hit' = hit /\ origin' = origin
      BY <1>0, <1>2, SteadyFlow
    <2>2. Behind' /\ OriginsOrdered' /\ Apart'
      BY <1>0, <2>1, HistoryKept DEF Has
    <2> QED
      BY <2>1, <2>2 DEF FaultInv
  <1>3. CASE write_fails \/ close_within_frame
    <2>1. /\ rest # << >> /\ rest' = << >> /\ sent' = sent /\ pipe' = pipe
          /\ buf' = buf /\ hit \subseteq hit' /\ Len(sent) \in hit' /\ (open' => open)
          /\ open' /\ Len(sent) + 1 \notin hit' => Head(rest).at = 1 /\ Len(sent) \notin hit
          /\ origin' = origin
      BY <1>0, <1>3, CutFlow
    <2>2. FlowInv' /\ \A j \in 1 .. Len(flow') : Has(flow, flow'[j].no)
      BY <1>0, <2>1, FlowCut
    <2>3. Behind' /\ OriginsOrdered' /\ Apart'
      BY <1>0, <2>1, <2>2, HistoryKept
    <2> QED
      BY <2>2, <2>3 DEF FaultInv
  <1>4. ASSUME NEW c, Drops(c), NEW j \in 1 .. Len(flow')
        PROVE  Has(flow, flow'[j].no)
    <2>1. j + c \in 1 .. Len(flow) /\ flow'[j] = flow[j + c]
      BY <1>4, FlowIs DEF Drops
    <2> QED
      BY <2>1 DEF Has
  <1>5. ASSUME NEW bytes, Reads(bytes), Drops(Len(bytes)), Return(bytes),
               sent' = sent, hit' = hit
        PROVE  Behind' /\ OriginsOrdered' /\ Apart'
    <2>1. CASE verdict(bytes) = "Ok"
      <3>1. origin' = Append(origin, Numbers(bytes))
        BY <1>5, <2>1 DEF Return
      <3> QED
        BY <1>5, <3>1, HistoryGrows
    <2>2. CASE verdict(bytes) # "Ok"
      <3>1. origin' = origin
        BY <1>5, <2>2 DEF Return
      <3>2. \A j \in 1 .. Len(flow') : Has(flow, flow'[j].no)
        BY <1>4, <1>5
      <3> QED
        BY <1>0, <1>5, <3>1, <3>2, HistoryKept
    <2> QED
      BY <2>1, <2>2
  <1>6. CASE ReadsLine
    <2>1. /\ FlowInv' /\ sent' = sent /\ hit' = hit
          /\ \E bytes : Reads(bytes) /\ stops(bytes) /\ Return(bytes) /\ Drops(Len(bytes))
      BY <1>0, <1>6, LineFlow
    <2>2. Behind' /\ OriginsOrdered' /\ Apart'
      BY <1>5, <2>1
    <2> QED
      BY <2>1, <2>2 DEF FaultInv
  <1>7. CASE read_end \/ read_fails
    <2>1. /\ FlowInv' /\ Drops(Len(buf)) /\ sent' = sent
          /\ buf = << >> \/ Reads(buf)
          /\ read_end => Return(buf) /\ hit' = hit
          /\ read_fails => hit' = hit \cup Numbers(buf) /\ origin' = origin
      BY <1>0, <1>7, EndFlow
    <2>2. \A j \in 1 .. Len(flow') : Has(flow, flow'[j].no)
      BY <1>4, <2>1
    <2>3. CASE origin' = origin
      <3>1. hit \subseteq hit'
        BY <1>7, <2>1
      <3> QED
        BY <1>0, <2>1, <2>2, <2>3, <3>1, HistoryKept DEF FaultInv
    <2>4. CASE origin' # origin
      <3>1. read_end /\ Return(buf) /\ hit' = hit
        BY <1>7, <2>1, <2>4
      <3>2. buf # << >>
        BY <2>4, <3>1 DEF Return, verdict
      <3> QED
        BY <1>5, <2>1, <3>1, <3>2 DEF FaultInv
    <2> QED
      BY <2>3, <2>4
  <1>8. read_byte => ReadsOn \/ ReadsLine
    BY DEF read_byte, ReadsOn, ReadsLine, Return
  <1> QED
    BY <1>1, <1>2, <1>3, <1>6, <1>7, <1>8 DEF Next, Receive

LEMMA FaultInit ==
  ASSUME Init
  PROVE  FaultInv
PROOF
  <1>1. Len(<< >>) = 0 /\ << >> \in Seq(Byte) /\ << >> \o << >> = << >>
    BY EmptySeq, ConcatEmptySeq
  <1>2. flow = << >> /\ Len(flow) = 0 /\ Len(rest) = 0 /\ Len(buf) = 0 /\ Len(origin) = 0
        /\ Len(sent) = 0 /\ rest = << >>
    BY <1>1 DEF Init, flow
  <1>3. \A j : j \notin 1 .. 0
    OBVIOUS
  <1> QED
    BY <1>2, <1>3 DEF FaultInv, FlowInv, Genuine, Ordered, Intact, Has, LineIsOver, RestIsLast,
       NoNewline, Behind, OriginsOrdered, Apart

LEMMA FaultInvariant == Spec => [](TypeOK /\ FaultInv)
PROOF
  <1>1. Init => FaultInv
    BY FaultInit
  <1>2. TypeOK /\ FaultInv /\ [Next]_vars => FaultInv'
    BY FaultStep
  <1> QED
    BY <1>1, <1>2, TransportTypes, PTL DEF Spec

(***************************************************************************)
(* Two frames are never read as one (recv_frame), for any frames, limit    *)
(* and faults: what recv_frame returned of several frames is of frames     *)
(* that a failed write of send_frame, a truncation or a failed read hit.   *)
(***************************************************************************)
THEOREM NotGluedTheorem == Spec => []NotGlued
PROOF
  <1>1. TypeOK /\ FaultInv => NotGlued
    <2> SUFFICES ASSUME TypeOK, FaultInv, NEW i \in DOMAIN origin, Cardinality(origin[i]) # 1
                 PROVE  origin[i] \subseteq hit
      BY DEF NotGlued
    <2>1. i \in 1 .. Len(origin)
      BY LenProperties DEF TypeOK
    <2>2. ~ \E n : origin[i] = {n}
      BY FS_Singleton
    <2> QED
      BY <2>1, <2>2 DEF FaultInv, Apart
  <1> QED
    BY <1>1, FaultInvariant, PTL

-----------------------------------------------------------------------------
(***************************************************************************)
(* Frames that no fault hit arrive.  The senders send single lines:        *)
(* client.rs and the engine's host send what serde_json::to_string made,   *)
(* which escapes line ends.                                                *)
(***************************************************************************)
SingleLines == \A frame \in Frames : \A i \in DOMAIN frame : frame[i] # "nl"

Small(n) == Len(sent[n]) < MAX_FRAME_BYTES /\ is_utf8(sent[n])

\* All of frame n is on its way, from its first byte to its newline.
NotYet(n) ==
  /\ \E s \in Nat : Window(flow, n, Len(sent[n]) + 1, s)
  /\ \A i \in 1 .. Len(origin) : n \notin origin[i]

Arrived(n) ==
  \E i \in 1 .. Len(origin) :
    /\ origin[i] = {n} /\ received[i] = trim_end(sent[n])
    /\ \A j \in 1 .. Len(origin) : j # i => n \notin origin[j]

ArrivesInv ==
  \A n \in 1 .. Len(sent) \ hit :
    Small(n) => NotYet(n) \/ (~ Has(flow, n) /\ Arrived(n))

\* What a step that returns nothing of frame n does to what was returned.
ReturnsNot(n) ==
  \/ origin' = origin /\ received' = received
  \/ \E A \in SUBSET (1 .. MaxSent), x \in Seq(Chars) :
       n \notin A /\ origin' = Append(origin, A) /\ received' = Append(received, x)

LEMMA ReturnedKept ==
  ASSUME TypeOK, NEW n, ReturnsNot(n), sent'[n] = sent[n]
  PROVE  /\ Arrived(n) => Arrived(n)'
         /\ (\A i \in 1 .. Len(origin) : n \notin origin[i])
              => \A i \in 1 .. Len(origin') : n \notin origin'[i]
PROOF
  <1>1. CASE origin' = origin /\ received' = received
    BY <1>1 DEF Arrived
  <1>2. ASSUME NEW A \in SUBSET (1 .. MaxSent), NEW x \in Seq(Chars), n \notin A,
               origin' = Append(origin, A), received' = Append(received, x)
        PROVE  /\ Arrived(n) => Arrived(n)'
               /\ (\A i \in 1 .. Len(origin) : n \notin origin[i])
                    => \A i \in 1 .. Len(origin') : n \notin origin'[i]
    <2> DEFINE K == Len(origin)
    <2>1. /\ origin \in Seq(SUBSET (1 .. MaxSent)) /\ received \in Seq(Seq(Chars))
          /\ Len(received) = K /\ K \in Nat
      BY LenProperties DEF TypeOK
    <2>2. /\ Len(origin') = K + 1 /\ origin'[K + 1] = A
          /\ \A i \in 1 .. K : origin'[i] = origin[i]
      BY <1>2, <2>1, AppendProperties
    <2>3. \A i \in 1 .. K : received'[i] = received[i]
      BY <1>2, <2>1, AppendProperties
    <2> HIDE DEF K
    <2>4. \A i \in 1 .. K + 1 : i \in 1 .. K \/ i = K + 1
      BY <2>1
    <2>5. ASSUME Arrived(n)
          PROVE  Arrived(n)'
      <3>1. PICK i \in 1 .. K :
              /\ origin[i] = {n} /\ received[i] = trim_end(sent[n])
              /\ \A j \in 1 .. K : j # i => n \notin origin[j]
        BY <2>5 DEF Arrived, K
      <3>2. /\ i \in 1 .. K + 1 /\ origin'[i] = {n} /\ received'[i] = trim_end(sent'[n])
        <4>1. i \in 1 .. K + 1
          BY <2>1
        <4>2. origin'[i] = {n}
          BY <2>2, <3>1
        <4>3. received'[i] = trim_end(sent'[n])
          BY <2>3, <3>1
        <4> QED
          BY <4>1, <4>2, <4>3
      <3>3. \A j \in 1 .. K + 1 : j # i => n \notin origin'[j]
        BY <1>2, <2>2, <2>4, <3>1
      <3> QED
        BY <2>2, <3>2, <3>3 DEF Arrived
    <2>6. ASSUME \A i \in 1 .. K : n \notin origin[i], NEW i \in 1 .. K + 1
          PROVE  n \notin origin'[i]
      BY <1>2, <2>2, <2>4, <2>6
    <2> QED
      BY <2>2, <2>5, <2>6 DEF K
  <1> QED
    BY <1>1, <1>2 DEF ReturnsNot

\* Return(bytes), when none of the bytes are of frame n.
LEMMA ReturnsOthers ==
  ASSUME TypeOK, NEW bytes \in Seq(Byte), Return(bytes), NEW n, n \notin Numbers(bytes)
  PROVE  ReturnsNot(n)
PROOF
  <1>1. /\ Numbers(bytes) \in SUBSET (1 .. MaxSent)
        /\ trim_end(Text(bytes)) \in Seq(Chars)
    BY TextIs, TrimIs
  <1>2. CASE verdict(bytes) = "Ok"
    BY <1>1, <1>2 DEF Return, ReturnsNot
  <1>3. CASE verdict(bytes) # "Ok"
    BY <1>3 DEF Return, ReturnsNot
  <1> QED
    BY <1>2, <1>3

\* A line that was not hit ends with a newline and has no other.
LEMMA WindowLine ==
  ASSUME TypeOK, FlowInv, SingleLines, NEW n \in 1 .. Len(sent), NEW s \in Nat,
         Window(flow, n, Len(sent[n]) + 1, s)
  PROVE  /\ Len(sent[n]) \in Nat /\ s + (Len(sent[n]) + 1) \in 1 .. Len(flow)
         /\ Len(flow) \in Nat
         /\ \A k \in 1 .. Len(sent[n]) :
              flow[s + k].ch = sent[n][k] /\ flow[s + k].ch # "nl"
         /\ flow[s + (Len(sent[n]) + 1)].ch = "nl"
         /\ \A k \in 1 .. Len(sent[n]) + 1 : s + k \in 1 .. Len(flow) /\ flow[s + k].no = n
PROOF
  <1> DEFINE S == flow
             L == Len(sent[n])
  <1>1. /\ L \in Nat /\ sent[n] \in Frames /\ DOMAIN sent[n] = 1 .. L
        /\ Len(S) \in Nat
    BY StateSeqs, LenProperties, FlowIs
  <1>2. \A k \in 1 .. L : sent[n][k] # "nl"
    BY <1>1 DEF SingleLines
  <1>3. \A j \in 1 .. Len(S) : IsSentByte(S[j], sent)
    BY DEF FlowInv, Genuine
  <1>4. /\ s + (L + 1) \in 1 .. Len(S)
        /\ \A j \in 1 .. Len(S) : S[j].no = n <=> j \in s + 1 .. s + (L + 1)
        /\ \A j \in 1 .. Len(S) : S[j].no = n => S[j].at = j - s
    BY DEF Window
  <1> HIDE DEF S
  <1>5. ASSUME NEW k \in 1 .. L + 1
        PROVE  /\ s + k \in 1 .. Len(S) /\ S[s + k].no = n
               /\ S[s + k].ch = IF k <= L THEN sent[n][k] ELSE "nl"
    <2> DEFINE j == s + k
    <2>1. j \in 1 .. Len(S) /\ j \in s + 1 .. s + (L + 1) /\ j - s = k
      BY <1>1, <1>4
    <2> HIDE DEF j
    <2>2. S[j].no = n /\ S[j].at = k
      BY <1>4, <2>1
    <2>3. IsSentByte(S[j], sent)
      BY <1>3, <2>1
    <2>4. S[j].ch = IF k <= L THEN sent[n][k] ELSE "nl"
      BY <2>2, <2>3 DEF IsSentByte
    <2> QED
      BY <2>1, <2>2, <2>4 DEF j
  <1> HIDE DEF L
  <1>6. \A k \in 1 .. L : k \in 1 .. L + 1 /\ k <= L
    BY <1>1
  <1>7. L + 1 \in 1 .. L + 1 /\ ~ (L + 1 <= L)
    BY <1>1
  <1>8. \A k \in 1 .. L : S[s + k].ch = sent[n][k] /\ S[s + k].ch # "nl"
    BY <1>2, <1>5, <1>6
  <1>9. S[s + (L + 1)].ch = "nl"
    BY <1>5, <1>7
  <1> QED
    BY <1>1, <1>4, <1>5, <1>8, <1>9 DEF S, L

\* recv_frame reads a line that was not hit, and fits, from its first byte to
\* its newline, or nothing of it.
LEMMA TakesLine ==
  ASSUME TypeOK, FlowInv, SingleLines, NEW n \in 1 .. Len(sent), Small(n),
         NEW s \in Nat, Window(flow, n, Len(sent[n]) + 1, s),
         NEW bytes, Reads(bytes), stops(bytes)
  PROVE  ~ (Len(bytes) <= s) => s = 0 /\ Len(bytes) = Len(sent[n]) + 1
PROOF
  <1> DEFINE S == flow
             L == Len(sent[n])
             c == Len(bytes)
  <1>1. /\ L \in Nat /\ s + (L + 1) \in 1 .. Len(S) /\ Len(S) \in Nat
        /\ \A k \in 1 .. L : S[s + k].ch # "nl"
        /\ S[s + (L + 1)].ch = "nl"
    BY WindowLine
  <1>2. s >= 1 => S[s].ch = "nl"
    BY DEF Window
  <1>3. /\ c \in 1 .. Len(S)
        /\ \A j \in 1 .. c : bytes[j] = S[j]
        /\ \A j \in 1 .. c - 1 : bytes[j].ch # "nl"
    BY DEF Reads
  <1>4. bytes[c].ch = "nl" \/ c = MAX_FRAME_BYTES
    BY DEF stops
  <1>5. L < MAX_FRAME_BYTES /\ MAX_FRAME_BYTES \in Nat
    BY TransportAssumption DEF Small
  <1> HIDE DEF S, L, c
  <1>6. \A j \in 1 .. c - 1 : S[j].ch # "nl"
    <2>1. \A j \in 1 .. c - 1 : j \in 1 .. c
      BY <1>3
    <2> QED
      BY <1>3, <2>1
  <1> SUFFICES ASSUME ~ (c <= s)
               PROVE  s = 0 /\ c = L + 1
    BY DEF L, c
  <1>7. ~ (c <= s)
    OBVIOUS
  <1>8. s = 0
    <2>1. s >= 1 => s \in 1 .. c - 1
      BY <1>1, <1>3, <1>7
    <2> QED
      BY <1>2, <1>6, <2>1
  <1>9. ~ (c > L + 1)
    <2>1. c > L + 1 => s + (L + 1) \in 1 .. c - 1
      BY <1>1, <1>3, <1>8
    <2> QED
      BY <1>1, <1>6, <2>1
  <1>10. ~ (c < L + 1)
    <2> SUFFICES ASSUME c < L + 1
                 PROVE  FALSE
      OBVIOUS
    <2>1. c \in 1 .. L /\ s + c = c /\ c \in 1 .. c /\ c # MAX_FRAME_BYTES
      BY <1>1, <1>3, <1>5, <1>8
    <2>2. S[c].ch # "nl"
      BY <1>1, <2>1
    <2>3. S[c].ch = "nl"
      BY <1>3, <1>4, <2>1
    <2> QED
      BY <2>2, <2>3
  <1> QED
    BY <1>1, <1>3, <1>8, <1>9, <1>10

LEMMA SendArrives ==
  ASSUME TypeOK, FaultInv, ArrivesInv, NEW frame \in Frames, send_frame(frame)
  PROVE  ArrivesInv'
PROOF
  <1>1. /\ Len(sent') = Len(sent) + 1 /\ \A n \in 1 .. Len(sent) : sent'[n] = sent[n]
        /\ \A j \in 1 .. Len(flow') : Has(flow, flow'[j].no) \/ flow'[j].no = Len(sent) + 1
        /\ Window(flow', Len(sent) + 1, Len(frame) + 1, Len(flow)) \/ Len(sent) + 1 \in hit
        /\ Len(flow) \in Nat /\ sent'[Len(sent) + 1] = frame
        /\ \A n \in 1 .. Len(sent), len \in Nat \ {0}, s \in Int :
             Window(flow, n, len, s) => Window(flow', n, len, s)
    BY SendFrameFlow DEF FaultInv
  <1>2. origin' = origin /\ received' = received /\ hit' = hit
    BY DEF send_frame, receiver
  <1>3. Len(sent) \in Nat
    BY StateSeqs
  <1> SUFFICES ASSUME NEW n \in 1 .. Len(sent') \ hit', Small(n)'
               PROVE  NotYet(n)' \/ (~ Has(flow', n) /\ Arrived(n)')
    BY DEF ArrivesInv
  <1>4. CASE n = Len(sent) + 1
    <2>1. Window(flow', n, Len(sent'[n]) + 1, Len(flow))
      BY <1>1, <1>2, <1>4
    <2>2. \A i \in 1 .. Len(origin) : n \notin origin[i]
      <3>1. n \notin 1 .. Len(sent)
        BY <1>3, <1>4
      <3> QED
        BY <3>1 DEF FaultInv, Behind
    <2> QED
      BY <1>1, <1>2, <2>1, <2>2 DEF NotYet
  <1>5. CASE n # Len(sent) + 1
    <2>1. n \in 1 .. Len(sent) \ hit /\ sent'[n] = sent[n]
      BY <1>1, <1>2, <1>3, <1>5
    <2>2. Small(n)
      BY <2>1 DEF Small
    <2>3. CASE NotYet(n)
      <3>1. PICK s \in Nat : Window(flow, n, Len(sent[n]) + 1, s)
        BY <2>3 DEF NotYet
      <3>2. Len(sent[n]) + 1 \in Nat \ {0} /\ s \in Int
        BY <2>1, StateSeqs
      <3>3. Window(flow', n, Len(sent'[n]) + 1, s)
        BY <1>1, <2>1, <3>1, <3>2
      <3> QED
        BY <1>2, <2>3, <3>3 DEF NotYet
    <2>4. CASE ~ Has(flow, n) /\ Arrived(n)
      <3>1. ~ Has(flow', n)
        BY <1>1, <1>5, <2>4 DEF Has
      <3>2. Arrived(n)'
        BY <1>2, <2>1, <2>4 DEF Arrived
      <3> QED
        BY <3>1, <3>2
    <2> QED
      BY <2>1, <2>2, <2>3, <2>4 DEF ArrivesInv
  <1> QED
    BY <1>4, <1>5

LEMMA CutArrives ==
  ASSUME TypeOK, FaultInv, ArrivesInv, write_fails \/ close_within_frame
  PROVE  ArrivesInv'
PROOF
  <1>1. /\ rest # << >> /\ rest' = << >> /\ sent' = sent /\ pipe' = pipe
        /\ buf' = buf /\ hit \subseteq hit' /\ Len(sent) \in hit' /\ (open' => open)
        /\ open' /\ Len(sent) + 1 \notin hit' => Head(rest).at = 1 /\ Len(sent) \notin hit
        /\ origin' = origin /\ received' = received
    BY CutFlow DEF FaultInv
  <1>2. /\ \A n \in 1 .. Len(sent) \ hit', len \in Nat \ {0}, s \in Int :
             Window(flow, n, len, s) => Window(flow', n, len, s)
        /\ \A n : Has(flow', n) => Has(flow, n)
    BY <1>1, FlowCut DEF FaultInv
  <1> SUFFICES ASSUME NEW n \in 1 .. Len(sent) \ hit', Small(n)
               PROVE  NotYet(n)' \/ (~ Has(flow', n) /\ Arrived(n)')
    BY <1>1 DEF ArrivesInv, Small
  <1>3. NotYet(n) \/ (~ Has(flow, n) /\ Arrived(n))
    BY <1>1 DEF ArrivesInv
  <1>4. CASE NotYet(n)
    <2>1. PICK s \in Nat : Window(flow, n, Len(sent[n]) + 1, s)
      BY <1>4 DEF NotYet
    <2>2. Len(sent[n]) + 1 \in Nat \ {0} /\ s \in Int
      BY StateSeqs
    <2>3. Window(flow', n, Len(sent[n]) + 1, s)
      BY <1>2, <2>1, <2>2
    <2> QED
      BY <1>1, <1>4, <2>3 DEF NotYet
  <1>5. CASE ~ Has(flow, n) /\ Arrived(n)
    BY <1>1, <1>2, <1>5 DEF Arrived
  <1> QED
    BY <1>3, <1>4, <1>5

\* A frame that has arrived, or of which nothing is read, when the first bytes
\* of the flow are taken.
LEMMA OthersArrive ==
  ASSUME TypeOK, NEW n \in 1 .. Len(sent), NotYet(n) \/ (~ Has(flow, n) /\ Arrived(n)),
         NEW c, Drops(c), \A j \in 1 .. c : flow[j].no # n, ReturnsNot(n), sent' = sent
  PROVE  NotYet(n)' \/ (~ Has(flow', n) /\ Arrived(n)')
PROOF
  <1>1. /\ c \in 0 .. Len(flow) /\ Len(flow') = Len(flow) - c /\ Len(flow) \in Nat
        /\ \A j \in 1 .. Len(flow') : flow'[j] = flow[j + c]
    BY FlowIs DEF Drops
  <1>2. /\ Arrived(n) => Arrived(n)'
        /\ (\A i \in 1 .. Len(origin) : n \notin origin[i])
             => \A i \in 1 .. Len(origin') : n \notin origin'[i]
    BY ReturnedKept
  <1>3. CASE NotYet(n)
    <2> DEFINE len == Len(sent[n]) + 1
    <2>1. PICK s \in Nat : Window(flow, n, len, s)
      BY <1>3 DEF NotYet
    <2>2. len \in Nat \ {0}
      BY StateSeqs
    <2> HIDE DEF len
    <2>3. s >= c
      <3> SUFFICES ASSUME s < c
                   PROVE  FALSE
        BY <1>1
      <3>1. s + 1 \in 1 .. c /\ s + 1 \in 1 .. Len(flow) /\ s + 1 \in s + 1 .. s + len
        BY <1>1, <2>2
      <3>2. flow[s + 1].no = n
        BY <2>1, <3>1 DEF Window
      <3> QED
        BY <3>1, <3>2
    <2>4. s + len > c => Window(flow', n, len, s - c)
      <3>1. s \in Int
        OBVIOUS
      <3> QED
        BY <1>1, <2>1, <2>2, <3>1, WindowDropped
    <2>5. s + len > c /\ s - c \in Nat
      BY <1>1, <2>2, <2>3
    <2>6. Window(flow', n, Len(sent'[n]) + 1, s - c)
      BY <2>4, <2>5 DEF len
    <2>7. \A i \in 1 .. Len(origin) : n \notin origin[i]
      BY <1>3 DEF NotYet
    <2> QED
      BY <1>2, <2>5, <2>6, <2>7 DEF NotYet
  <1>4. CASE ~ Has(flow, n) /\ Arrived(n)
    <2>1. \A j \in 1 .. Len(flow') : j + c \in 1 .. Len(flow)
      BY <1>1
    <2>2. ~ Has(flow', n)
      BY <1>1, <1>4, <2>1 DEF Has
    <2> QED
      BY <1>2, <1>4, <2>2
  <1> QED
    BY <1>3, <1>4

\* recv_frame returns the line that was not hit.
LEMMA LineArrives ==
  ASSUME TypeOK, FlowInv, SingleLines, NEW n \in 1 .. Len(sent), Small(n), n \notin hit,
         NotYet(n), Window(flow, n, Len(sent[n]) + 1, 0),
         NEW bytes, Reads(bytes), Len(bytes) = Len(sent[n]) + 1, Return(bytes),
         Drops(Len(bytes)), sent' = sent
  PROVE  ~ Has(flow', n) /\ Arrived(n)'
PROOF
  <1> DEFINE L == Len(sent[n])
             K == Len(origin)
  <1>1. /\ L \in Nat /\ Len(flow) \in Nat
        /\ \A k \in 1 .. L : flow[0 + k].ch = sent[n][k]
        /\ flow[0 + (L + 1)].ch = "nl"
        /\ \A k \in 1 .. L + 1 : 0 + k \in 1 .. Len(flow) /\ flow[0 + k].no = n
    <2>1. 0 \in Nat
      OBVIOUS
    <2> QED
      BY <2>1, WindowLine
  <1>2. /\ bytes \in Seq(Byte) /\ Len(bytes) = L + 1
        /\ \A j \in 1 .. L + 1 : bytes[j] = flow[j]
    BY DEF Reads
  <1>3. sent[n] \in Seq(Chars) /\ is_utf8(sent[n])
    BY StateSeqs DEF Small
  <1>4. /\ \A k \in 1 .. L : bytes[k].ch = sent[n][k]
        /\ bytes[L + 1].ch = "nl"
        /\ \A k \in 1 .. L + 1 : flow[k].no = n
    <2>1. /\ \A k \in 1 .. L : 0 + k = k /\ k \in 1 .. L + 1
          /\ \A k \in 1 .. L + 1 : 0 + k = k
          /\ 0 + (L + 1) = L + 1 /\ L + 1 \in 1 .. L + 1
      BY <1>1
    <2> QED
      BY <1>1, <1>2, <2>1
  <1>5. verdict(bytes) = "Ok" /\ trim_end(Text(bytes)) = trim_end(sent[n])
    BY <1>2, <1>3, <1>4, LineReturns
  <1>6. Numbers(bytes) = {n} /\ Numbers(bytes) \subseteq 1 .. MaxSent
    <2>1. /\ \A m : m \in Numbers(bytes) <=> \E j \in 1 .. Len(bytes) : flow[j].no = m
          /\ \A m \in Numbers(bytes) : m \notin hit => Numbers(bytes) = {m}
          /\ Numbers(bytes) \subseteq 1 .. MaxSent
      BY NumbersOfReads
    <2>2. 1 \in 1 .. L + 1
      BY <1>1
    <2>3. n \in Numbers(bytes)
      BY <1>2, <1>4, <2>1, <2>2
    <2> QED
      BY <2>1, <2>3
  <1>7. /\ origin' = Append(origin, {n})
        /\ received' = Append(received, trim_end(sent[n]))
    BY <1>5, <1>6 DEF Return
  <1>8. /\ K \in Nat /\ Len(origin') = K + 1 /\ origin'[K + 1] = {n}
        /\ \A i \in 1 .. K : origin'[i] = origin[i]
        /\ received'[K + 1] = trim_end(sent[n])
    <2>1. /\ origin \in Seq(SUBSET (1 .. MaxSent)) /\ received \in Seq(Seq(Chars))
          /\ Len(received) = K /\ K \in Nat
      BY LenProperties DEF TypeOK
    <2>2. {n} \in SUBSET (1 .. MaxSent) /\ trim_end(sent[n]) \in Seq(Chars)
      BY <1>3, <1>6, TrimIs
    <2> QED
      BY <1>7, <2>1, <2>2, AppendProperties
  <1>9. \A i \in 1 .. K : n \notin origin[i]
    BY DEF NotYet
  <1> HIDE DEF K
  <1>10. Arrived(n)'
    <2>1. K + 1 \in 1 .. K + 1 /\ \A j \in 1 .. K + 1 : j # K + 1 => j \in 1 .. K
      BY <1>8
    <2>2. \A j \in 1 .. K + 1 : j # K + 1 => n \notin origin'[j]
      BY <1>8, <1>9, <2>1
    <2> QED
      BY <1>8, <2>1, <2>2 DEF Arrived
  <1>11. ~ Has(flow', n)
    <2>1. /\ L + 1 \in 0 .. Len(flow) /\ Len(flow') = Len(flow) - (L + 1)
          /\ \A j \in 1 .. Len(flow') : flow'[j] = flow[j + (L + 1)]
      BY <1>2 DEF Drops
    <2>2. L + 1 \in Nat \ {0} /\ 0 \in Int /\ 0 + (L + 1) <= L + 1
      BY <1>1
    <2>3. Window(flow, n, L + 1, 0)
      OBVIOUS
    <2> HIDE DEF L
    <2> QED
      BY <1>1, <2>1, <2>2, <2>3, WindowDropped
  <1> QED
    BY <1>10, <1>11

LEMMA ReadsLineArrives ==
  ASSUME TypeOK, FlowInv, SingleLines, ArrivesInv, ReadsLine
  PROVE  ArrivesInv'
PROOF
  <1>1. /\ sent' = sent /\ hit' = hit
        /\ \E bytes : Reads(bytes) /\ stops(bytes) /\ Return(bytes) /\ Drops(Len(bytes))
    BY LineFlow
  <1>2. PICK bytes : Reads(bytes) /\ stops(bytes) /\ Return(bytes) /\ Drops(Len(bytes))
    BY <1>1
  <1> SUFFICES ASSUME NEW n \in 1 .. Len(sent) \ hit, Small(n)
               PROVE  NotYet(n)' \/ (~ Has(flow', n) /\ Arrived(n)')
    BY <1>1 DEF ArrivesInv, Small
  <1>3. NotYet(n) \/ (~ Has(flow, n) /\ Arrived(n))
    BY DEF ArrivesInv
  <1>4. /\ bytes \in Seq(Byte) /\ Len(bytes) \in 1 .. Len(flow) /\ Len(flow) \in Nat
    BY <1>2, FlowIs DEF Reads
  <1>5. CASE \A j \in 1 .. Len(bytes) : flow[j].no # n
    <2>1. n \notin Numbers(bytes)
      BY <1>2, <1>5, NumbersOfReads
    <2>2. ReturnsNot(n)
      BY <1>2, <1>4, <2>1, ReturnsOthers
    <2> QED
      BY <1>1, <1>2, <1>3, <1>5, <2>2, OthersArrive
  <1>6. CASE \E j \in 1 .. Len(bytes) : flow[j].no = n
    <2>1. PICK j \in 1 .. Len(bytes) : flow[j].no = n
      BY <1>6
    <2>2. j \in 1 .. Len(flow)
      BY <1>4
    <2>3. NotYet(n)
      BY <1>3, <2>1, <2>2 DEF Has
    <2>4. PICK s \in Nat : Window(flow, n, Len(sent[n]) + 1, s)
      BY <2>3 DEF NotYet
    <2>5. ~ (Len(bytes) <= s)
      <3>1. j \in s + 1 .. s + (Len(sent[n]) + 1)
        BY <2>1, <2>2, <2>4 DEF Window
      <3>2. Len(sent[n]) \in Nat
        BY StateSeqs
      <3> QED
        BY <1>4, <3>1, <3>2
    <2>6. s = 0 /\ Len(bytes) = Len(sent[n]) + 1
      BY <1>2, <2>4, <2>5, TakesLine
    <2>7. Window(flow, n, Len(sent[n]) + 1, 0)
      BY <2>4, <2>6
    <2> QED
      BY <1>1, <1>2, <2>3, <2>6, <2>7, LineArrives
  <1> QED
    BY <1>5, <1>6

LEMMA EndArrives ==
  ASSUME TypeOK, FlowInv, SingleLines, ArrivesInv, read_end \/ read_fails
  PROVE  ArrivesInv'
PROOF
  <1>1. /\ Drops(Len(buf)) /\ sent' = sent
        /\ buf = << >> \/ Reads(buf)
        /\ read_end => Return(buf) /\ hit' = hit /\ Len(flow) = Len(buf)
        /\ read_fails => hit' = hit \cup Numbers(buf) /\ origin' = origin
                           /\ received' = received
    BY EndFlow
  <1>2. hit \subseteq hit'
    BY <1>1
  <1> SUFFICES ASSUME NEW n \in 1 .. Len(sent) \ hit', Small(n)
               PROVE  NotYet(n)' \/ (~ Has(flow', n) /\ Arrived(n)')
    BY <1>1 DEF ArrivesInv, Small
  <1>3. NotYet(n) \/ (~ Has(flow, n) /\ Arrived(n))
    BY <1>2 DEF ArrivesInv
  <1>4. /\ buf \in Seq(Byte) /\ Len(buf) \in Nat /\ DOMAIN buf = 1 .. Len(buf)
        /\ \A j \in 1 .. Len(buf) : flow[j] = buf[j]
    BY StateSeqs, LenProperties, FlowIs
  <1>5. \A j \in 1 .. Len(buf) : flow[j].no # n
    <2>1. CASE read_fails
      <3>1. n \notin Numbers(buf)
        BY <1>1, <2>1
      <3> QED
        BY <1>4, <3>1 DEF Numbers
    <2>2. CASE read_end
      <3> SUFFICES ASSUME NEW j \in 1 .. Len(buf), flow[j].no = n
                   PROVE  FALSE
        OBVIOUS
      <3>1. Len(flow) = Len(buf)
        BY <1>1, <2>2
      <3>2. NotYet(n)
        BY <1>3, <3>1 DEF Has
      <3>3. PICK s \in Nat : Window(flow, n, Len(sent[n]) + 1, s)
        BY <3>2 DEF NotYet
      <3> DEFINE e == s + (Len(sent[n]) + 1)
      <3>4. e \in 1 .. Len(buf) /\ flow[e].ch = "nl"
        BY <3>1, <3>3, WindowLine
      <3> HIDE DEF e
      <3> QED
        BY <1>4, <3>4 DEF FlowInv, NoNewline
    <2> QED
      BY <2>1, <2>2
  <1>6. ReturnsNot(n)
    <2>1. CASE read_fails
      BY <1>1, <2>1 DEF ReturnsNot
    <2>2. CASE read_end
      <3>1. n \notin Numbers(buf)
        BY <1>4, <1>5 DEF Numbers
      <3> QED
        BY <1>1, <1>4, <2>2, <3>1, ReturnsOthers
    <2> QED
      BY <2>1, <2>2
  <1> QED
    BY <1>1, <1>3, <1>5, <1>6, OthersArrive

LEMMA ArrivesStep ==
  ASSUME TypeOK, FaultInv, SingleLines, ArrivesInv, [Next]_vars
  PROVE  ArrivesInv'
PROOF
  <1>1. CASE write_byte \/ recv_frame \/ close \/ ReadsOn \/ UNCHANGED vars
    <2>1. /\ flow' = flow /\ sent' = sent /\ hit' = hit
          /\ origin' = origin /\ received' = received
      BY <1>1, SteadyFlow DEF FaultInv
    <2> QED
      BY <2>1 DEF ArrivesInv, Small, NotYet, Arrived
  <1>2. read_byte => ReadsOn \/ ReadsLine
    BY DEF read_byte, ReadsOn, ReadsLine, Return
  <1>3. ReadsLine \/ read_end \/ read_fails => ArrivesInv'
    BY ReadsLineArrives, EndArrives DEF FaultInv
  <1> QED
    BY <1>1, <1>2, <1>3, SendArrives, CutArrives DEF Next, Receive

\* With the reader past a frame, nothing of it is on its way.
LEMMA PassedArrived ==
  ASSUME TypeOK, FlowInv, SingleLines, ArrivesInv,
         NEW n \in 1 .. Len(sent) \ hit, Small(n), Passed(n)
  PROVE  Arrived(n)
PROOF
  <1>1. ASSUME NotYet(n)
        PROVE  FALSE
    <2>1. PICK s \in Nat : Window(flow, n, Len(sent[n]) + 1, s)
      BY <1>1 DEF NotYet
    <2> DEFINE e == s + (Len(sent[n]) + 1)
    <2>2. /\ e \in 1 .. Len(flow) /\ flow[e].ch = "nl"
          /\ flow[e].no = n
      <3>1. /\ Len(sent[n]) \in Nat /\ e \in 1 .. Len(flow) /\ flow[e].ch = "nl"
            /\ \A k \in 1 .. Len(sent[n]) + 1 : flow[s + k].no = n
        BY <2>1, WindowLine
      <3>2. Len(sent[n]) + 1 \in 1 .. Len(sent[n]) + 1
        BY <3>1
      <3> QED
        BY <3>1, <3>2
    <2> HIDE DEF e
    <2> DEFINE lb == Len(buf)
               lp == Len(pipe)
               lr == Len(rest)
    <2>3. /\ Len(flow) = lb + lp + lr /\ lb \in Nat /\ lp \in Nat /\ lr \in Nat
          /\ \A j \in 1 .. lb : flow[j] = buf[j]
          /\ \A j \in 1 .. lp : flow[lb + j] = pipe[j]
          /\ \A j \in 1 .. lr : flow[lb + lp + j] = rest[j]
      BY FlowIs
    <2>4. /\ DOMAIN pipe = 1 .. lp /\ (rest = << >> => lr = 0) /\ Len(sent) \in Nat
      BY StateSeqs, LenProperties, EmptySeq
    <2>5. /\ \A j \in 1 .. lb : buf[j].ch # "nl"
          /\ \A j \in 1 .. lr : rest[j].no = Len(sent)
      BY DEF FlowInv, NoNewline, RestIsLast
    <2>6. /\ rest = << >> \/ n < Len(sent)
          /\ \A j \in 1 .. lp : pipe[j].no > n
      BY <2>4 DEF Passed
    <2> HIDE DEF lb, lp, lr
    <2>7. e \notin 1 .. lb
      BY <2>2, <2>3, <2>5
    <2>8. e - lb \notin 1 .. lp
      <3> SUFFICES ASSUME e - lb \in 1 .. lp
                   PROVE  FALSE
        OBVIOUS
      <3> DEFINE k == e - lb
      <3>1. k \in 1 .. lp /\ lb + k = e
        BY <2>2, <2>3
      <3> HIDE DEF k
      <3>2. pipe[k].no = n
        BY <2>2, <2>3, <3>1
      <3> QED
        BY <2>6, <3>1, <3>2
    <2>9. e - lb - lp \in 1 .. lr
      BY <2>2, <2>3, <2>7, <2>8
    <2> DEFINE k == e - lb - lp
    <2>10. k \in 1 .. lr /\ lb + lp + k = e
      BY <2>2, <2>3, <2>9
    <2> HIDE DEF k
    <2>11. rest[k].no = n /\ rest[k].no = Len(sent)
      BY <2>2, <2>3, <2>5, <2>10
    <2>12. lr # 0
      BY <2>3, <2>10
    <2> QED
      BY <2>4, <2>6, <2>11, <2>12
  <1> QED
    BY <1>1 DEF ArrivesInv

(***************************************************************************)
(* What faults leave of the contract (recv_frame resynchronises at a       *)
(* newline): for single-line frames of any number and length, any limit    *)
(* and any faults, a frame that no fault hit and that fits is returned     *)
(* once, whole but for trailing line ends, and frames keep their order.    *)
(***************************************************************************)
THEOREM UndamagedTheorem == SingleLines /\ Spec => []UndamagedFramesArrive
PROOF
  <1>1. CASE SingleLines
    <2>1. Init => ArrivesInv
      <3>1. Len(<< >>) = 0 /\ \A n : n \notin 1 .. 0
        OBVIOUS
      <3> QED
        BY <3>1 DEF Init, ArrivesInv
    <2>2. TypeOK /\ FaultInv /\ ArrivesInv /\ [Next]_vars => ArrivesInv'
      BY <1>1, ArrivesStep
    <2>3. TypeOK /\ FaultInv /\ ArrivesInv => UndamagedFramesArrive
      <3> SUFFICES ASSUME TypeOK, FaultInv, ArrivesInv
                   PROVE  UndamagedFramesArrive
        OBVIOUS
      <3>1. DOMAIN origin = 1 .. Len(origin)
        BY LenProperties DEF TypeOK
      <3>2. ASSUME NEW n \in 1 .. Len(sent) \ hit, Small(n), Passed(n)
            PROVE  Arrived(n)
        BY <1>1, <3>2, PassedArrived DEF FaultInv
      <3>3. OriginsOrdered
        BY DEF FaultInv
      <3> QED
        BY <3>1, <3>2, <3>3 DEF UndamagedFramesArrive, Small, Arrived, OriginsOrdered
    <2> QED
      BY <2>1, <2>2, <2>3, FaultInvariant, PTL DEF Spec
  <1> QED
    BY <1>1
=============================================================================
