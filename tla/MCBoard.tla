------------------------------ MODULE MCBoard ------------------------------
EXTENDS Board

MCEvent == {"lastPaddleEvent", "lastEvent"}

(* Periods for a system clock of CLOCK_FREQUENCY.                          *)
MCPeriod == [e \in MCEvent |-> IF e = "lastEvent" THEN 3 ELSE 5]

(* A byte, and two that wrap around the end of the memory.                *)
MCWrites == {<<2>>, <<1, 3>>}

(* A byte, and three over the end of a page.                               *)
MCTexts == {<<{"p"}>>, <<{}, {"q"}, {"p"}>>}
=============================================================================
