---------------------------- MODULE MCIdentityKey ---------------------------
(***************************************************************************)
(* The identity key with the tags of the code, nonces of two bytes and a   *)
(* length prefix in radix 2, so that a payload type of four bytes is       *)
(* already too long.  Payloads and user messages include byte strings that *)
(* are themselves the output of another builder.                           *)
(***************************************************************************)
EXTENDS IdentityKey, SequencesExt

\* "DIGNET-SESSION-v1", "DIGNET-SIGN-v1" and "DIGNET-USER-SIGN-v1" in ASCII.
Dignet == << 68, 73, 71, 78, 69, 84, 45 >>
V1 == << 45, 118, 49 >>
SessionTag == Dignet \o << 83, 69, 83, 83, 73, 79, 78 >> \o V1
SignTag == Dignet \o << 83, 73, 71, 78 >> \o V1
UserTag == Dignet \o << 85, 83, 69, 82, 45, 83, 73, 71, 78 >> \o V1

MCNonces == SeqOf({0, 1}, 3)
MCDids == SeqOf({1}, 2)
MCTypes == SeqOf({0, 1}, 1) \cup {<< 1, 0 >>, << 1, 1, 1 >>, << 1, 1, 1, 1 >>}
MCBodies == SeqOf({0, 1}, 2)
MCPayloads == MCBodies \cup {challenge_message(<< 0, 1 >>, << 1 >>)}
MCUserMessages ==
  MCPayloads \cup {sign_callback_message(<< 1 >>, << 0 >>)}
=============================================================================
