---------------------------- MODULE MCJoinSession ----------------------------
(* Two streams, a machine with room for two viewers and a session that     *)
(* begins with one: keys reach nothing, the ceiling, and past it.          *)
EXTENDS JoinSession

CONSTANTS s1, s2
MCStreams == {s1, s2}
=============================================================================
