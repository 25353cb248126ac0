---------------------------- MODULE LineTransport ---------------------------
(***************************************************************************)
(* LineTransport (transport.rs) over a byte stream, one direction: a       *)
(* sender whose send_frame writes a line, a pipe, and a receiver whose     *)
(* recv_frame reads up to a newline, up to MAX_FRAME_BYTES or up to the    *)
(* end.  Bytes pass one at a time, so writer and reader interleave at      *)
(* every byte; a larger chunk is several such steps.  The pipe includes    *)
(* the receiver's BufReader, which keeps what a call did not take.         *)
(*                                                                         *)
(* Faults: the sender dies in the middle of a frame ("truncate"), a write  *)
(* fails after part of a frame and the connection lives ("write_error"), a *)
(* read fails, as a read timeout set by the owner of the stream would make *)
(* it, and read_until's bytes so far are lost ("read_error").              *)
(***************************************************************************)
EXTENDS Integers, Sequences, FiniteSetsExt

CONSTANTS
  Frames,           \* what senders pass to send_frame: sequences of characters
  MAX_FRAME_BYTES,  \* 1 MiB
  Faults,           \* the faults that happen
  MaxSent           \* bound: how many frames are sent

\* Bytes, as recv_frame tells them apart; "lead" and "cont" are the two bytes
\* of a character that is not ASCII.
Chars == {"nl", "cr", "a", "b", "lead", "cont"}

ASSUME TransportAssumption ==
  /\ Frames \subseteq Seq(Chars)
  /\ MAX_FRAME_BYTES \in Nat \ {0}
  /\ Faults \subseteq {"truncate", "write_error", "read_error"}
  /\ MaxSent \in Nat

VARIABLES
  sent,      \* the frames passed to send_frame, in order
  rest,      \* what send_frame has yet to write
  open,      \* the sender's end
  pipe,      \* bytes written and not read
  pc,        \* the receiver: "idle" or in "recv_frame"
  buf,       \* recv_frame: the bytes of this call
  result,    \* how the last recv_frame returned
  received,  \* the frames recv_frame returned, in order
  origin,    \* ghost: of which sent frames each of them has bytes
  hit        \* ghost: the sent frames a fault damaged

sender == << sent, rest, open >>
receiver == << pc, buf, result, received, origin >>
vars == << sender, pipe, receiver, hit >>

\* A byte of the stream, with the frame and the position it was written for.
Byte == [no: 1 .. MaxSent, at: Nat, ch: Chars]
Numbers(bytes) == {bytes[i].no : i \in DOMAIN bytes}
Text(bytes) == [i \in DOMAIN bytes |-> bytes[i].ch]

Init ==
  /\ sent = << >> /\ rest = << >> /\ open = TRUE /\ pipe = << >>
  /\ pc = "idle" /\ buf = << >> /\ result = "none" /\ received = << >>
  /\ origin = << >> /\ hit = {}
-----------------------------------------------------------------------------
(***************************************************************************)
(* The sender.                                                             *)
(***************************************************************************)

\* Frame number n as it goes on the wire: the frame and its newline.
line(n, frame) ==
  [k \in 1 .. Len(frame) + 1 |->
     [no |-> n, at |-> k, ch |-> IF k <= Len(frame) THEN frame[k] ELSE "nl"]]

send_frame(frame) ==
  /\ open /\ rest = << >> /\ Len(sent) < MaxSent
  /\ sent' = Append(sent, frame)
  /\ rest' = line(Len(sent) + 1, frame)
  /\ UNCHANGED << open, pipe, receiver, hit >>

write_byte ==
  /\ rest # << >>
  /\ pipe' = Append(pipe, Head(rest))
  /\ rest' = Tail(rest)
  /\ UNCHANGED << sent, open, receiver, hit >>

\* write_all returns an error; what was written stays written, and the next
\* frame follows it on the same line.
write_fails ==
  /\ "write_error" \in Faults /\ rest # << >>
  /\ rest' = << >>
  /\ LET n == Len(sent)
         line_begun == Head(rest).at > 1 \/ n \in hit
     IN  hit' = hit \cup (IF line_begun THEN {n, n + 1} ELSE {n})
  /\ UNCHANGED << sent, open, pipe, receiver >>

close ==
  /\ open /\ rest = << >>
  /\ open' = FALSE
  /\ UNCHANGED << sent, rest, pipe, receiver, hit >>

close_within_frame ==
  /\ "truncate" \in Faults /\ open /\ rest # << >>
  /\ open' = FALSE /\ rest' = << >>
  /\ hit' = hit \cup {Len(sent)}
  /\ UNCHANGED << sent, pipe, receiver >>
-----------------------------------------------------------------------------
(***************************************************************************)
(* The receiver.                                                           *)
(***************************************************************************)

\* trim_end_matches(['\n', '\r']).
trim_end(text) ==
  SubSeq(text, 1, Max({0} \cup {i \in DOMAIN text : text[i] \notin {"nl", "cr"}}))

\* String::from_utf8 succeeds.
is_utf8(text) ==
  \A i \in DOMAIN text :
    /\ text[i] = "lead" => i < Len(text) /\ text[i + 1] = "cont"
    /\ text[i] = "cont" => i > 1 /\ text[i - 1] = "lead"

\* take(MAX_FRAME_BYTES).read_until(b'\n') has read enough.  Mutants: it reads
\* to the limit, whatever lines it finds; it reads a line of any length.
stops_at_newline(bytes) == bytes[Len(bytes)].ch = "nl"
stops_at_limit(bytes) == Len(bytes) = MAX_FRAME_BYTES
stops(bytes) == bytes[Len(bytes)].ch = "nl" \/ Len(bytes) = MAX_FRAME_BYTES

\* Mutant: any full buffer is an overlong frame.
overlong_if_full(bytes) == Len(bytes) >= MAX_FRAME_BYTES
overlong(bytes) ==
  Len(bytes) >= MAX_FRAME_BYTES /\ bytes[Len(bytes)].ch # "nl"

verdict(bytes) ==
  IF bytes = << >> THEN "UnexpectedEof"
  ELSE IF overlong(bytes) \/ ~ is_utf8(Text(bytes)) THEN "InvalidData"
  ELSE "Ok"

Return(bytes) ==
  /\ pc' = "idle" /\ buf' = << >>
  /\ result' = verdict(bytes)
  /\ IF verdict(bytes) = "Ok"
       THEN /\ received' = Append(received, trim_end(Text(bytes)))
            /\ origin' = Append(origin, Numbers(bytes))
       ELSE UNCHANGED << received, origin >>

recv_frame ==
  /\ pc = "idle"
  /\ pc' = "recv_frame"
  /\ UNCHANGED << sender, pipe, buf, result, received, origin, hit >>

read_byte ==
  /\ pc = "recv_frame" /\ pipe # << >>
  /\ pipe' = Tail(pipe)
  /\ LET bytes == Append(buf, Head(pipe))
     IN  \/ stops(bytes) /\ Return(bytes)
         \/ /\ ~ stops(bytes)
            /\ buf' = bytes
            /\ UNCHANGED << pc, result, received, origin >>
  /\ UNCHANGED << sender, hit >>

read_end ==
  /\ pc = "recv_frame" /\ pipe = << >> /\ ~ open
  /\ Return(buf)
  /\ UNCHANGED << sender, pipe, hit >>

read_fails ==
  /\ "read_error" \in Faults /\ pc = "recv_frame"
  /\ pc' = "idle" /\ buf' = << >> /\ result' = "Io"
  /\ hit' = hit \cup Numbers(buf)
  /\ UNCHANGED << sender, pipe, received, origin >>

Receive == recv_frame \/ read_byte \/ read_end

Next ==
  \/ \E frame \in Frames : send_frame(frame)
  \/ write_byte \/ write_fails \/ close \/ close_within_frame
  \/ Receive \/ read_fails

Spec == Init /\ [][Next]_vars

\* A sender inside write_all goes on writing; the receiver's owner reads again
\* after each frame (it has no other way to hear from the peer).
FairSpec == Spec /\ WF_vars(write_byte) /\ WF_vars(Receive)
-----------------------------------------------------------------------------
TypeOK ==
  /\ sent \in Seq(Frames) /\ Len(sent) <= MaxSent
  /\ rest \in Seq(Byte) /\ pipe \in Seq(Byte)
  /\ open \in BOOLEAN
  /\ pc \in {"idle", "recv_frame"}
  /\ buf \in Seq(Byte) /\ Len(buf) < MAX_FRAME_BYTES
  /\ result \in {"none", "Ok", "UnexpectedEof", "InvalidData", "Io"}
  /\ received \in Seq(Seq(Chars))
  /\ origin \in Seq(SUBSET (1 .. MaxSent)) /\ Len(origin) = Len(received)
  /\ hit \subseteq 1 .. MaxSent + 1

\* Frames that send_frame and recv_frame keep: single lines of UTF-8 of at most
\* MAX_FRAME_BYTES, newline included, that do not end in a line end of their own.
Fits(frame) ==
  /\ Len(frame) < MAX_FRAME_BYTES
  /\ \A i \in DOMAIN frame : frame[i] # "nl"
  /\ frame # << >> => frame[Len(frame)] # "cr"
  /\ is_utf8(frame)

CleanConnection == Faults = {} /\ \A frame \in Frames : Fits(frame)

Channel == INSTANCE FrameChannel WITH ended <- result = "UnexpectedEof"

(***************************************************************************)
(* LineTransport keeps the contract of FrameTransport (transport.rs 10-20) *)
(* on a clean connection: the frames of send_frame come out of recv_frame  *)
(* whole, once and in order, and UnexpectedEof after the last of them, on  *)
(* a connection the sender closed, and never before.                       *)
(***************************************************************************)
KeepsContract == Channel!Spec

(***************************************************************************)
(* recv_frame keeps no frame back: when the sender writes out what it      *)
(* began and the receiver goes on reading, every frame is returned.        *)
(***************************************************************************)
FramesAreDelivered == Channel!Fairness

(***************************************************************************)
(* What faults and overlong frames leave of the contract (the bounded read *)
(* of recv_frame, and its error returns, resynchronise at a newline): a    *)
(* frame that was not itself damaged, and fits, arrives once, whole but    *)
(* for trailing line ends, at its place, once the reader is past it.       *)
(***************************************************************************)
Passed(n) ==
  /\ rest = << >> \/ n < Len(sent)
  /\ \A i \in DOMAIN pipe : pipe[i].no > n

UndamagedFramesArrive ==
  /\ \A n \in 1 .. Len(sent) \ hit :
       Len(sent[n]) < MAX_FRAME_BYTES /\ is_utf8(sent[n]) /\ Passed(n) =>
         \E i \in DOMAIN origin :
           /\ origin[i] = {n} /\ received[i] = trim_end(sent[n])
           /\ \A j \in DOMAIN origin \ {i} : n \notin origin[j]
  /\ \A i, j \in DOMAIN origin : i < j =>
       \A n \in origin[i], m \in origin[j] : n <= m

(***************************************************************************)
(* Frames are read as one only if a fault hit each of them (send_frame     *)
(* writes frame and newline separately, so a failed write may leave a      *)
(* frame without its newline): an undamaged frame runs into no other.      *)
(***************************************************************************)
NotGlued ==
  \A i \in DOMAIN origin : Cardinality(origin[i]) # 1 => origin[i] \subseteq hit

(***************************************************************************)
(* The claim of FrameTransport's documentation (transport.rs 17-18): a     *)
(* closed channel surfaces as UnexpectedEof.                               *)
(***************************************************************************)
ClosedChannelIsEof == [][read_end => result' = "UnexpectedEof"]_vars
=============================================================================
