----------------------------- MODULE MCPongMain -----------------------------
(* A table of 12 by 10 pixels (contact planes at +-2, walls at +-4), and a *)
(* sensor whose valid readings lie strictly between 1 and 5; 65535 is      *)
(* negative once it is an int16_t.  The commands contain the targets that  *)
(* the loop can reach, as ReachableAssumption asks.                        *)
EXTENDS PongMain

MCCommand       == -12 .. 5
MCReading       == {2, 4, 65535}
MCUninitialized == {-12, 5}
=============================================================================
