------------------------------ MODULE MCEngine ------------------------------
(***************************************************************************)
(* The engine registry with room for two handshakes, two DIDs and two keys.*)
(***************************************************************************)
EXTENDS EngineSessionRegistry

CONSTANTS alice, bob, k1, k2

MCDIDs == {alice, bob}
MCKeys == {k1, k2}

\* What a step of the registry depends on.  Of its history an attach needs the
\* handshakes still pending, which are in pending (one with any other candidate
\* changes nothing), and of its open sessions no step needs anything.
RegistryOnly == << drawn, pending, candidate_order, published >>
=============================================================================
