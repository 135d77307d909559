------------------------------- MODULE MCPong -------------------------------
(* A table of 20 by 12 pixels: paddle planes at +-8, planes of contact at  *)
(* +-6, walls at +-5, paddles clamped to +-4, reach 3.                     *)
EXTENDS Pong

MCCommand == {-9, 0, 3, 9}
=============================================================================
