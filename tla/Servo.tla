-------------------------------- MODULE Servo --------------------------------
(***************************************************************************)
(* The PWM generator of a servo: hardware/custom/controle_servo.vhd.  A    *)
(* step is a rising edge of the clock, after which the inputs may have     *)
(* changed; the asynchronous reset then acts at once, but only while the   *)
(* output is low.  It comes from a faster clock (servo_control.py), so it  *)
(* may also pulse between two edges.                                       *)
(***************************************************************************)
EXTENDS Naturals

CONSTANTS
  CONTAGEM_MAXIMA,      \* clocks of a period (200_000, 20 ms)
  Lowered, Raised       \* clocks of a pulse for posicao 0 and 1

ASSUME ServoAssumption ==
  /\ CONTAGEM_MAXIMA \in Nat /\ Lowered \in Nat /\ Raised \in Nat
  /\ 0 < Lowered /\ Lowered < Raised /\ Raised < CONTAGEM_MAXIMA

VARIABLES
  reset, posicao,       \* inputs
  contagem, largura_pwm, s_controle,
  high,                 \* history: clocks for which the output has been high
  steady                \* history: clocks since an input changed, up to a period

servoVars == <<reset, posicao, contagem, largura_pwm, s_controle, high, steady>>

s_largura(p) == IF p = 0 THEN Lowered ELSE Raised

(* The registers of an FPGA start at the lowest value of their range.      *)
ServoInit ==
  /\ reset \in BOOLEAN /\ posicao = 0
  /\ contagem = 0 /\ s_controle = FALSE
  /\ largura_pwm = IF reset THEN s_largura(posicao) ELSE 0
  /\ high = 0 /\ steady = 0

Inputs(short) ==
  /\ reset' \in BOOLEAN /\ posicao' \in {0, 1}
  /\ steady' = IF UNCHANGED <<reset, posicao>> /\ ~ reset /\ ~ short
               THEN IF steady <= CONTAGEM_MAXIMA THEN steady + 1 ELSE steady
               ELSE 0

held == reset /\ ~ s_controle

End == contagem = CONTAGEM_MAXIMA - 1

(* The registers after the edge, as the clocked branch leaves them ...     *)
NextContagem == IF held THEN 0 ELSE IF End THEN 0 ELSE contagem + 1
NextLargura_once == largura_pwm
NextLargura == IF ~ held /\ End THEN s_largura(posicao) ELSE largura_pwm
NextControle == IF held THEN FALSE ELSE contagem < largura_pwm

(* ... and as the asynchronous branch, with a reset that lasts or not,     *)
(* overrides them.                                                         *)
Override_always(short) == reset' \/ short
Override(short) == (reset' \/ short) /\ ~ NextControle

Registers(short) ==
  /\ s_controle' = NextControle
  /\ contagem' = IF Override(short) THEN 0 ELSE NextContagem
  /\ largura_pwm' = IF Override(short) THEN s_largura(posicao') ELSE NextLargura
  /\ high' = IF NextControle THEN high + 1 ELSE 0

ServoClock == \E short \in BOOLEAN : Inputs(short) /\ Registers(short)

ServoSpec == ServoInit /\ [][ServoClock]_servoVars

-----------------------------------------------------------------------------
(* The servo only ever sees whole pulses, of one of the two widths: a      *)
(* reset or a new position in the middle of a pulse neither cuts nor       *)
(* stretches it.                                                           *)
PulseIsWhole ==
  [][ s_controle /\ ~ s_controle' => high \in {Lowered, Raised} ]_servoVars

(* A position that stands for a period without a reset is obeyed by the    *)
(* next pulse.                                                             *)
ObeysPosition ==
  [][ ~ s_controle /\ s_controle' /\ steady > CONTAGEM_MAXIMA =>
        largura_pwm = s_largura(posicao) ]_servoVars
=============================================================================
