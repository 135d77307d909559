-------------------------------- MODULE Sonar --------------------------------
(***************************************************************************)
(* One distance sensor with its interface: continuous_measure of           *)
(* hardware/custom/hcsr04.vhd, which every PULSE_PERIOD_IN_CLOCKS + 1      *)
(* clocks starts interface_hcsr04 (control unit, trigger generator, output *)
(* register), around the EchoCounter.  The sensor itself is the            *)
(* environment: after a trigger it may answer with one echo.               *)
(*                                                                         *)
(* The control unit does not wait for the echo: from envia_trigger it goes *)
(* straight to armazenamento (hcsr04.vhd:789), so what it latches is the   *)
(* count that the PREVIOUS period has left, and the states espera_echo and *)
(* medida are never entered.                                               *)
(*                                                                         *)
(* The reset of the processor, from its own faster clock, reaches the      *)
(* control unit and the output register only (hcsr04.vhd:723 and :774):    *)
(* the period, the trigger, the counter and the sensor go on.              *)
(***************************************************************************)
EXTENDS EchoCounter

CONSTANTS
  PULSE_PERIOD_IN_CLOCKS,   \* 600_000
  LARGURA,                  \* clocks of the trigger (generic largura, 100)
  EchoDeadline              \* clocks after which an echo has ended, from the
                            \* start of the period (the sensor gives up)

ASSUME SonarAssumption ==
  /\ PULSE_PERIOD_IN_CLOCKS \in Nat /\ LARGURA \in Nat /\ EchoDeadline \in Nat
  /\ 1 <= LARGURA /\ LARGURA < EchoDeadline
  /\ EchoDeadline + 3 < PULSE_PERIOD_IN_CLOCKS

ASSUME RangeAssumption ==      \* a period of 600_000 clocks holds 1020 cm, far
  /\ EchoDeadline <= MaxCount * R                 \* less than the 4095 of `fim`
  /\ EchoDeadline <= MaxWidth

VARIABLES
  reset,       \* the input since the last edge: "low", "pulse" (high in between
               \* only) or "high" (also at the next edge)
  iq,          \* update_counter
  delayed,     \* delayed_done
  interface,   \* state of interface_hcsr04_uc
  pulse,       \* state of gerador_pulso
  cont,        \* reg_cont of gerador_pulso
  medida,      \* the output register, read by the processor
  sensor,      \* "idle", "answering" (sound under way), "echoing"
  measured     \* history: width of the echo that medida should tell, or
               \* NoEcho while no echo has ended before the last trigger

NoEcho == -1

sonarVars == <<echoVars, reset, iq, delayed, interface, pulse, cont, medida, sensor, measured>>

done       == iq = PULSE_PERIOD_IN_CLOCKS - 1
triggering == pulse = "contagem"

SonarInit ==
  /\ EchoInit
  /\ reset \in {"low", "pulse", "high"}
  /\ iq = 0 /\ delayed = FALSE
  /\ interface = "inicial"
  /\ pulse = "parado" /\ cont = 0
  /\ medida = 0
  /\ sensor = "idle"
  /\ measured = NoEcho

-----------------------------------------------------------------------------
(* update_counter wraps by itself, and delayed_done holds it at 0 for one  *)
(* more clock: the period is one clock longer than the constant says.      *)
PeriodClock ==
  /\ iq' = IF delayed \/ done THEN 0 ELSE iq + 1
  /\ delayed' = done

(* The control unit at the edge; a reset after it makes it inicial again.  *)
interfaceProx ==
  CASE reset = "high"              -> "inicial"
    [] interface = "inicial"       -> IF done THEN "preparacao" ELSE "inicial"
    [] interface = "preparacao"    -> "envia_trigger"
    [] interface = "envia_trigger" -> "armazenamento"
    [] interface = "espera_echo"   -> IF pulso THEN "medida" ELSE "espera_echo"
    [] interface = "medida"        -> IF Eatual = "final" THEN "armazenamento" ELSE "medida"
    [] interface = "armazenamento" -> "final"
    [] interface = "final"         -> "inicial"

(* zera, high throughout preparacao, is the asynchronous reset of the      *)
(* counter's control unit, of the generator and of the output register:    *)
(* it acts at the edge that enters preparacao and at the one that leaves.  *)
zera == "preparacao" \in {interface, interfaceProx}

InterfaceClock ==
  interface' = IF reset' = "low" THEN interfaceProx ELSE "inicial"

PulseClock_reset ==                       \* the reset wired to the generator too
  IF zera \/ reset' # "low" THEN pulse' = "parado" /\ cont' = 0
  ELSE CASE pulse = "parado" ->
              /\ pulse' = IF interface = "envia_trigger" THEN "contagem" ELSE "parado"
              /\ cont' = 0
         [] pulse = "contagem" ->
              IF cont = LARGURA - 1
              THEN pulse' = "final" /\ cont' = cont
              ELSE pulse' = "contagem" /\ cont' = cont + 1
         [] pulse = "final" -> pulse' = "parado" /\ cont' = cont

PulseClock ==
  IF zera THEN pulse' = "parado" /\ cont' = 0
  ELSE CASE pulse = "parado" ->
              /\ pulse' = IF interface = "envia_trigger" THEN "contagem" ELSE "parado"
              /\ cont' = 0
         [] pulse = "contagem" ->
              IF cont = LARGURA - 1
              THEN pulse' = "final" /\ cont' = cont
              ELSE pulse' = "contagem" /\ cont' = cont + 1
         [] pulse = "final" -> pulse' = "parado" /\ cont' = cont

RegisterClock_early ==
  medida' = IF zera THEN 0 ELSE IF Eatual = "incrementa_cm" THEN contagem ELSE medida

RegisterClock_stuck == medida' = IF zera THEN 0 ELSE medida

RegisterClock ==                          \* s_limpa_reg is zera or reset
  medida' = IF zera \/ reset' # "low" THEN 0
            ELSE IF interface = "armazenamento" THEN contagem ELSE medida

(* The sensor answers the end of a trigger, once, or not at all; its echo  *)
(* is over in time.                                                        *)
SensorClock ==
  \/ /\ sensor = "idle" /\ triggering /\ pulse' # "contagem"
     /\ sensor' = "answering"
     /\ pulso' = FALSE
  \/ /\ sensor = "idle"
     /\ UNCHANGED <<sensor, pulso>>
  \/ /\ sensor = "answering"
     /\ \/ iq + 1 < EchoDeadline /\ UNCHANGED <<sensor, pulso>>
        \/ iq + 1 < EchoDeadline /\ sensor' = "echoing" /\ pulso' = TRUE
        \/ sensor' = "idle" /\ pulso' = FALSE
  \/ /\ sensor = "echoing"
     /\ \/ iq + 1 < EchoDeadline /\ UNCHANGED <<sensor, pulso>>
        \/ sensor' = "idle" /\ pulso' = FALSE

(* The history of what the register should tell: the last complete echo.   *)
MeasuredClock ==
  measured' = IF interface = "preparacao" /\ width # 0 THEN width ELSE measured

SonarClock ==
  /\ reset' \in {"low", "pulse", "high"}
  /\ PeriodClock
  /\ InterfaceClock
  /\ PulseClock
  /\ CounterClock(zera)
  /\ RegisterClock
  /\ SensorClock
  /\ WidthClock
  /\ MeasuredClock

SonarSpec == SonarInit /\ [][SonarClock]_sonarVars

(* The oscillator runs.                                                    *)
SonarFairSpec == SonarSpec /\ WF_sonarVars(SonarClock)

-----------------------------------------------------------------------------
(* A reading is 0, for the three clocks after the start of a period, after *)
(* a reset or when nothing has been measured, or the length of the last    *)
(* echo that had ended when the period started: never a count under way,   *)
(* and wherever a reset has cut the control unit's sequence.               *)
ReadingIsAnEcho ==
  medida # 0 => measured # NoEcho /\ Tells(medida, measured)

Displayed == measured # NoEcho /\ Tells(medida, measured)

(* The processor sees every echo: once one has ended, the register comes   *)
(* to show its length, unless the board is reset before.                   *)
EchoIsDisplayed ==
  \A w \in 3 .. MaxWidth :
    (Eatual = "final" /\ width = w) ~> ((measured = w /\ Displayed) \/ reset # "low")

(* A trigger is never cut: the sensor gets its LARGURA clocks also when    *)
(* the board is reset in the middle, and no start of a period finds one    *)
(* under way.                                                              *)
TriggerIsWhole ==
  [][ triggering /\ ~ triggering' => cont = LARGURA - 1 ]_sonarVars
=============================================================================
