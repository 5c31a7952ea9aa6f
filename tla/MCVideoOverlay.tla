--------------------------- MODULE MCVideoOverlay ---------------------------
(* VideoOverlay for TLC: the sessions, a plain closure and one more
   goroutine, which posts it. *)
EXTENDS VideoOverlay

CONSTANTS p, g

MCPlain == {p}

MCClosures == Sessions \union MCPlain

MCGoroutines == Sessions \union {g}

MCCommands == {Frame, Delete}
=============================================================================
