--------------------------- MODULE MC_InspectMock ---------------------------
(* The call, a client that talks, one that may be silent, two descriptors. *)
EXTENDS InspectMock

CONSTANTS talker, mute

MCOthers  == {talker, mute}
MCTalkers == {talker}
MCTexts   == {"mock.tls.local", "example.test", "www.example.test", "127.0.0.1"}
=============================================================================
