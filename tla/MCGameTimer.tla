---------------------------- MODULE MCGameTimer ----------------------------
EXTENDS GameTimer

MCEvent == {"lastPaddleEvent", "lastEvent"}

(* Periods for a system clock of CLOCK_FREQUENCY.                          *)
MCPeriod == [e \in MCEvent |-> IF e = "lastEvent" THEN 3 ELSE 5]

(* main.c computes its periods from 100 MHz; the clock of the SoC is 75    *)
(* MHz, so 1/480 s is three quarters of the clocks that it waits.          *)
MCPeriod100MHz == [e \in MCEvent |-> IF e = "lastEvent" THEN 8 ELSE 12]
MCStated75MHz  == [e \in MCEvent |-> IF e = "lastEvent" THEN 6 ELSE 9]
=============================================================================
