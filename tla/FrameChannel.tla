---------------------------- MODULE FrameChannel ----------------------------
(***************************************************************************)
(* What the role-halves expect of one direction of a connection (the       *)
(* contract of the FrameTransport trait): frames arrive whole, once and in *)
(* the order they were sent; after the last one, a closed channel is       *)
(* reported as its end (UnexpectedEof), and never before.  SessionClient   *)
(* is written against this contract; LineTransport implements it, for the  *)
(* frames and on the connections its module names.                         *)
(***************************************************************************)
EXTENDS Integers, Sequences

CONSTANTS
  Frames,   \* what a sender may send
  MaxSent   \* bound: how many frames are sent

VARIABLES
  sent,      \* the frames sent, in order
  received,  \* the frames received, in order
  open,      \* the sender has not closed the channel
  ended      \* the receiver was told of the end

vars == << sent, received, open, ended >>

Init == sent = << >> /\ received = << >> /\ open = TRUE /\ ended = FALSE

Send ==
  /\ open /\ Len(sent) < MaxSent
  /\ \E frame \in Frames : sent' = Append(sent, frame)
  /\ UNCHANGED << received, open, ended >>

Close ==
  /\ open' = FALSE
  /\ UNCHANGED << sent, received, ended >>

Deliver ==
  /\ Len(received) < Len(sent)
  /\ received' = Append(received, sent[Len(received) + 1])
  /\ UNCHANGED << sent, open, ended >>

ReportEnd ==
  /\ ~ open /\ received = sent
  /\ ended' = TRUE
  /\ UNCHANGED << sent, received, open >>

Next == Send \/ Close \/ Deliver \/ ReportEnd

Spec == Init /\ [][Next]_vars

\* A receiver that reads gets what was sent.
Fairness == WF_vars(Deliver)
=============================================================================
