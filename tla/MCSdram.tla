------------------------------ MODULE MCSdram ------------------------------
(* Two modules of any skew, which one of two bitslips can read.            *)
EXTENDS Sdram
MCEyes == {[b \in Bitslips |-> IF b = 1 THEN 0 .. 2 ELSE {}]}
MCPhys == [skew : [Modules -> 0 .. TckTaps - 1], latency : [Modules -> {0}], eye : [Modules -> MCEyes]]
SdramSpec == SdramInit /\ [][sdram_leveling]_trainingVars
=============================================================================
