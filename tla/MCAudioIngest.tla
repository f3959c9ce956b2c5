--------------------------- MODULE MCAudioIngest ----------------------------
(* AudioIngest for TLC: one speaker across the wrap of an 8-valued sequence *)
(* number, and a second speaker there is no room for.                       *)
EXTENDS AudioIngest

CONSTANTS s1, s2, Said

MCPacket == {<<s1, n>> : n \in Said} \cup {<<s2, 1>>}
=============================================================================
