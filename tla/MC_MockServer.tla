--------------------------- MODULE MC_MockServer ---------------------------
(* Three clients, one of which may stay silent, and two descriptors. *)
EXTENDS MockServer

CONSTANTS a, b, mute

MCClients == {a, b, mute}
MCTalkers == {a, b}
=============================================================================
