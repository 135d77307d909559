----------------------------- MODULE EchoCounter -----------------------------
(***************************************************************************)
(* The centimetre counter of the distance sensor interface: contador_cm of *)
(* hardware/custom/hcsr04.vhd, its control unit (contador_cm_uc) and its   *)
(* datapath (contador_cm_fd).  While `pulso` is high it counts one         *)
(* centimetre for every R + 1 clocks (R ticks and the clock that           *)
(* increments), and it rounds when the pulse ends.                         *)
(*                                                                         *)
(* A step is a rising edge of the clock: every register takes the value    *)
(* computed from the values before the edge.  An asynchronous reset acts   *)
(* from the cycle in which it rises, so CounterClock takes whether the     *)
(* reset is high at the edge or right after it.                            *)
(***************************************************************************)
EXTENDS Integers

CONSTANTS
  R,          \* clocks that stand for a centimetre (generic R, 588)
  MaxCount,   \* the count that raises `fim` (4095)
  MaxWidth    \* bound of the model: no pulse is longer, in clocks

ASSUME CounterAssumption ==
  /\ R \in Nat /\ R >= 2
  /\ MaxCount \in Nat /\ 1 <= MaxCount /\ MaxCount <= 65535
  /\ MaxWidth \in Nat

VARIABLES
  pulso,      \* the input, sampled at the edge
  Eatual,     \* state of contador_cm_uc
  tick,       \* IQ of contador_m, ticks of the current centimetre
  contagem,   \* s_contagem of contador, centimetres
  width       \* history: edges at which the last pulse has been seen high

echoVars    == <<pulso, Eatual, tick, contagem, width>>

State == {"espera", "prepara", "incrementa_tk", "incrementa_cm", "final"}

fim       == contagem = MaxCount
arredonda_half == tick = R \div 2 - 1           \* `meio` in its place
arredonda == tick >= R \div 2                  \* metade_superior of analisa_m
tickEnd   == tick = R - 1                      \* `tick` of contador_cm_fd

CounterInit ==
  /\ Eatual = "espera"
  /\ tick = 0
  /\ contagem = 0

-----------------------------------------------------------------------------
Eprox ==
  CASE Eatual = "espera"        -> IF pulso THEN "prepara" ELSE "espera"
    [] Eatual = "prepara"       -> "incrementa_tk"
    [] Eatual = "incrementa_tk" ->
         IF ~ pulso THEN IF arredonda THEN "incrementa_cm" ELSE "final"
         ELSE IF fim THEN "final"
         ELSE IF tickEnd THEN "incrementa_cm" ELSE "incrementa_tk"
    [] Eatual = "incrementa_cm" -> IF pulso THEN "incrementa_tk" ELSE "final"
    [] Eatual = "final"         -> "espera"

(* contador_m is cleared asynchronously, as long as the state is prepara.  *)
TickClock ==
  tick' = IF "prepara" \in {Eatual, Eatual'} THEN 0
          ELSE IF Eatual = "incrementa_tk" THEN (IF tickEnd THEN 0 ELSE tick + 1)
          ELSE tick

(* contador is 16 bits wide and is cleared at the edge.                    *)
CountClock ==
  contagem' = CASE Eatual = "prepara"       -> 0
                [] Eatual = "incrementa_cm" -> (contagem + 1) % 65536
                [] OTHER                    -> contagem

CounterClock(reset) ==
  /\ Eatual' = IF reset THEN "espera" ELSE Eprox
  /\ TickClock
  /\ CountClock

(* The history of the pulse: it starts anew when the input rises.          *)
WidthClock ==
  width' = IF pulso THEN width + 1 ELSE IF pulso' THEN 0 ELSE width

-----------------------------------------------------------------------------
(* The counter alone, with a pulse that rises only when the counter is     *)
(* idle: the gap between two echoes is far longer than three clocks.       *)
EchoInit ==
  /\ CounterInit
  /\ pulso = FALSE
  /\ width = 0

Clock ==
  /\ CounterClock(FALSE)
  /\ pulso' \in BOOLEAN
  /\ pulso' /\ ~ pulso => Eatual = "espera"
  /\ pulso' /\ pulso => width + 1 < MaxWidth
  /\ WidthClock

EchoSpec == EchoInit /\ [][Clock]_echoVars

-----------------------------------------------------------------------------
CounterTypeOK ==
  /\ pulso \in BOOLEAN
  /\ Eatual \in State
  /\ tick \in 0 .. R - 1
  /\ contagem \in Nat /\ contagem <= 65535
  /\ width \in Nat

(* What a count of n centimetres tells of a pulse seen at w edges, against *)
(* the R clocks that stand for a centimetre (hcsr04.vhd:243): the pulse is *)
(* at most half a centimetre shorter than the count says.  It may be       *)
(* longer by half a centimetre and the clocks at which the counter does    *)
(* not tick: one spent in incrementa_cm for each centimetre, and one that  *)
(* is left of the two edges before the first tick.  The drift reaches half *)
(* a centimetre only after R / 2 - 1 centimetres (293); the game uses the  *)
(* first 30.                                                               *)
Lost(n) == n + 1
Tells(n, w) ==
  /\ 2 * (n * R - w) <= R
  /\ 2 * (w - n * R) <= R + 2 * Lost(n)

(* A pulse that is not too long for the counter is measured that well,     *)
(* however its end falls relative to the ticks: during a tick, on the last *)
(* one, or during the clock that increments the count.                     *)
MeasuresPulse ==
  Eatual = "final" /\ width <= MaxCount * R => Tells(contagem, width)
=============================================================================
