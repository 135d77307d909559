----------------------------- MODULE BoardProofs -----------------------------
(***************************************************************************)
(* The devices on the board: the time base, the servo, the picture, the    *)
(* clock of the SPI flash and what the flash holds, each for every value   *)
(* of its constants, and the board as their composition, to which the I2C  *)
(* bus of I2cProofs belongs.                                               *)
(***************************************************************************)
EXTENDS Board, I2cProofs, SequenceTheorems, TLAPS

-----------------------------------------------------------------------------
(* elapsed is right for every reload value, all periods and any number of  *)
(* events.  The invariant ties the program's arithmetic to the true age of *)
(* an event: they agree modulo the cycle of the counter, and the age stays *)
(* below one cycle because a poll that finds nothing leaves an age of at   *)
(* most Period + 1, after which the next poll comes within MaxGap clocks.  *)

(* The event lies `age` clocks back, around the end of the counter at most *)
(* once.                                                                   *)
KnowsTheAge ==
  /\ value \in 0 .. Reload
  /\ \A e \in Event :
       /\ last[e] \in 0 .. Reload
       /\ age[e] \in 0 .. Reload
       /\ gap[e] \in 0 .. MaxGap
       /\ age[e] = (IF t < last[e] THEN t - last[e] + Reload + 1 ELSE t - last[e])

PolledInTime == \A e \in Event : age[e] <= Period[e] + 1 + gap[e]

Functions ==
  /\ last \in [Event -> Int]
  /\ age \in [Event -> Int]
  /\ gap \in [Event -> Int]

TimerInv == Functions /\ KnowsTheAge /\ PolledInTime

(* What elapsed computes is the age, or one clock less after a wrap.       *)
LEMMA TimeDifference ==
  ASSUME TimerInv, NEW e \in Event
  PROVE  dt(e) \in Nat /\ dt(e) <= age[e] /\ age[e] <= dt(e) + 1
BY TimerAssumption DEF TimerInv, KnowsTheAge, dt, t

(* The invariant holds when the program sets the timer up.                 *)
LEMMA InitTimer == time_init => TimerInv
BY TimerAssumption DEF time_init, TimerInv, Functions, KnowsTheAge, PolledInTime, t

(* A clock of the timer keeps it, also at the wrap-around.                 *)
LEMMA TickTimer ==
  ASSUME TimerInv, Tick
  PROVE  TimerInv'
<1> USE TimerAssumption DEF TimerInv
<1>1. Functions' BY DEF Functions, Tick
<1>2. PolledInTime' BY DEF Functions, KnowsTheAge, PolledInTime, Tick
<1>3. KnowsTheAge'
  <2>1. value' \in 0 .. Reload BY DEF Tick, KnowsTheAge
  <2>2. ASSUME NEW e \in Event
        PROVE  /\ last'[e] \in 0 .. Reload
               /\ age'[e] \in 0 .. Reload
               /\ gap'[e] \in 0 .. MaxGap
               /\ age'[e] = (IF t' < last'[e] THEN t' - last'[e] + Reload + 1
                                              ELSE t' - last'[e])
    <3>1. /\ last[e] \in 0 .. Reload /\ age[e] \in 0 .. Reload
          /\ gap[e] \in 0 .. MaxGap /\ value \in 0 .. Reload
          /\ age[e] = (IF t < last[e] THEN t - last[e] + Reload + 1 ELSE t - last[e])
      BY DEF KnowsTheAge
    <3>2. /\ last'[e] = last[e] /\ age'[e] = age[e] + 1 /\ gap'[e] = gap[e] + 1
          /\ gap[e] < MaxGap
          /\ value' = IF value = 0 THEN Reload ELSE value - 1
      BY DEF Tick
    <3>3. /\ age[e] <= Period[e] + 1 + gap[e]
          /\ Period[e] \in Nat /\ Period[e] + 1 + MaxGap <= Reload
      BY DEF PolledInTime
    <3> QED BY <3>1, <3>2, <3>3 DEF t
  <2> QED BY <2>1, <2>2 DEF KnowsTheAge
<1> QED BY <1>1, <1>2, <1>3

(* A poll of an event keeps it.                                            *)
LEMMA ElapsedTimer ==
  ASSUME TimerInv, NEW e \in Event, elapsed(e)
  PROVE  TimerInv'
<1> USE TimerAssumption
<1>1. dt(e) \in Nat /\ dt(e) <= age[e] /\ age[e] <= dt(e) + 1 BY TimeDifference
<1>2. Functions'
  <2>1. t \in Int BY DEF TimerInv, KnowsTheAge, t
  <2> QED BY <2>1 DEF TimerInv, Functions, elapsed
<1>3. ASSUME NEW f \in Event
      PROVE  /\ last'[f] \in 0 .. Reload
             /\ age'[f] \in 0 .. Reload
             /\ gap'[f] \in 0 .. MaxGap
             /\ age'[f] = (IF t' < last'[f] THEN t' - last'[f] + Reload + 1
                                            ELSE t' - last'[f])
             /\ age'[f] <= Period[f] + 1 + gap'[f]
  <2>1. /\ last[f] \in 0 .. Reload /\ age[f] \in 0 .. Reload
        /\ gap[f] \in 0 .. MaxGap /\ value \in 0 .. Reload
        /\ age[f] = (IF t < last[f] THEN t - last[f] + Reload + 1 ELSE t - last[f])
        /\ age[f] <= Period[f] + 1 + gap[f]
        /\ Period[f] \in Nat
    BY DEF TimerInv, KnowsTheAge, PolledInTime
  <2>2. value' = value /\ t' = t BY DEF elapsed, t
  <2>3. CASE f # e
    <3>1. last'[f] = last[f] /\ age'[f] = age[f] /\ gap'[f] = gap[f]
      BY <2>3 DEF elapsed, TimerInv, Functions
    <3> QED BY <2>1, <2>2, <3>1 DEF t
  <2>4. CASE f = e
    <3>1. gap'[f] = 0 BY <2>4 DEF elapsed, TimerInv, Functions
    <3>2. CASE dt(e) > Period[e]
      <4>1. last'[f] = t /\ age'[f] = 0
        BY <2>4, <3>2, <1>1 DEF elapsed, TimerInv, Functions
      <4> QED BY <2>1, <2>2, <3>1, <4>1 DEF t
    <3>3. CASE ~ dt(e) > Period[e]
      <4>1. last'[f] = last[f] /\ age'[f] = age[f]
        BY <2>4, <3>3, <1>1 DEF elapsed
      <4> QED BY <1>1, <2>1, <2>2, <2>4, <3>1, <3>3, <4>1 DEF t
    <3> QED BY <3>2, <3>3
  <2> QED BY <2>3, <2>4
<1>4. value' \in 0 .. Reload BY DEF elapsed, TimerInv, KnowsTheAge
<1> QED BY <1>2, <1>3, <1>4 DEF TimerInv, KnowsTheAge, PolledInTime

(* So every step keeps it.                                                 *)
LEMMA NextTimer ==
  ASSUME TimerInv, [TimerNext]_timerVars
  PROVE  TimerInv'
<1>1. CASE Tick BY <1>1, TickTimer
<1>2. CASE \E e \in Event : elapsed(e) BY <1>2, ElapsedTimer
<1>3. CASE UNCHANGED timerVars
  BY <1>3 DEF TimerInv, Functions, KnowsTheAge, PolledInTime, timerVars, t
<1> QED BY <1>1, <1>2, <1>3 DEF TimerNext

(* The inductive invariant of elapsed (time.c).                            *)
THEOREM TimerInvariant == TimerSpec => []TimerInv
<1>1. time_init => TimerInv BY InitTimer
<1>2. TimerInv /\ [TimerNext]_timerVars => TimerInv' BY NextTimer
<1> QED BY <1>1, <1>2, PTL DEF TimerSpec

(* The difference that elapsed computes is the true age of every event, or *)
(* one clock less once the timer has wrapped around (time.c:25 to :27).    *)
THEOREM AgeIsKnown == TimerSpec => []DtIsTheAge
<1>1. ASSUME TimerInv, NEW e \in Event
      PROVE  dt(e) >= 0 /\ age[e] = IF t < last[e] THEN dt(e) + 1 ELSE dt(e)
  <2>1. value \in 0 .. Reload /\ last[e] \in 0 .. Reload /\ Reload \in Nat
    BY <1>1, TimerAssumption DEF TimerInv, KnowsTheAge
  <2>2. age[e] = IF t < last[e] THEN t - last[e] + Reload + 1 ELSE t - last[e]
    BY <1>1 DEF TimerInv, KnowsTheAge
  <2> QED BY <2>1, <2>2 DEF dt, t
<1>2. TimerInv => DtIsTheAge
  BY <1>1 DEF DtIsTheAge
<1> QED BY <1>2, TimerInvariant, PTL

(* No event is reported before its period is over (elapsed, time.c).       *)
THEOREM EventsAreNotEarly == TimerSpec => NeverEarly
<1>1. ASSUME TimerInv, [TimerNext]_timerVars, NEW e \in Event, age[e] # 0, age'[e] = 0
      PROVE  age[e] > Period[e]
  <2>1. age[e] \in Nat /\ Period[e] \in Nat
    BY <1>1, TimerAssumption DEF TimerInv, KnowsTheAge
  <2>2. CASE Tick BY <1>1, <2>1, <2>2 DEF Tick
  <2>3. CASE \E f \in Event : elapsed(f)
    <3>1. PICK f \in Event : elapsed(f) BY <2>3
    <3>2. f = e BY <1>1, <3>1 DEF elapsed, TimerInv, Functions
    <3>3. dt(e) \in Nat /\ dt(e) <= age[e] BY <1>1, TimeDifference
    <3> QED BY <1>1, <2>1, <3>1, <3>2, <3>3 DEF elapsed
  <2>4. CASE UNCHANGED timerVars BY <1>1, <2>4 DEF timerVars
  <2> QED BY <1>1, <2>2, <2>3, <2>4 DEF TimerNext
<1>2. TimerInv /\ [TimerNext]_timerVars
        => [\A e \in Event : age[e] # 0 /\ age'[e] = 0 => age[e] > Period[e]]_timerVars
  BY <1>1
<1> QED BY <1>2, TimerInvariant, PTL DEF TimerSpec, NeverEarly

(* If the periods are the stated ones, a poll that finds nothing comes at  *)
(* most one clock after the stated time (elapsed, time.c).                 *)
THEOREM EventsAreNotLate ==
  ASSUME \A e \in Event : Period[e] = Stated[e]
  PROVE  TimerSpec => []NeverLate
<1>1. TimerInv => NeverLate
  BY TimerAssumption DEF TimerInv, Functions, KnowsTheAge, PolledInTime, NeverLate
<1> QED BY <1>1, TimerInvariant, PTL

-----------------------------------------------------------------------------
(* The servo.  A reset or a new position acts at once only while the       *)
(* output is low; while it is high, the counter has counted what has been  *)
(* sent of the pulse.                                                      *)

ServoTypeOK ==
  /\ reset \in BOOLEAN /\ posicao \in {0, 1} /\ s_controle \in BOOLEAN
  /\ contagem \in 0 .. CONTAGEM_MAXIMA - 1 /\ largura_pwm \in {0, Lowered, Raised}
  /\ high \in Nat /\ steady \in Nat

(* The output is high from the start of a period on, and the counter says  *)
(* for how long.                                                           *)
PulseOK ==
  /\ s_controle => high = contagem /\ contagem \in 1 .. largura_pwm
  /\ ~ s_controle => high = 0 /\ (contagem = 0 \/ contagem >= largura_pwm)

(* A period that has begun since the inputs changed has the width they     *)
(* ask for.                                                                *)
WidthOK == steady > contagem => largura_pwm = s_largura(posicao)

ServoInv == ServoTypeOK /\ PulseOK /\ WidthOK

(* The registers, with the conditions that decide what they become.        *)
LEMMA ServoStep ==
  ASSUME ServoInv, NEW short \in BOOLEAN, Inputs(short), Registers(short)
  PROVE  ServoInv'
<1>1. /\ contagem \in 0 .. CONTAGEM_MAXIMA - 1 /\ largura_pwm \in {0, Lowered, Raised}
      /\ high \in Nat /\ steady \in Nat /\ posicao \in {0, 1}
      /\ CONTAGEM_MAXIMA \in Nat /\ Lowered \in Nat /\ Raised \in Nat
      /\ 0 < Lowered /\ Lowered < Raised /\ Raised < CONTAGEM_MAXIMA
      /\ s_controle \in BOOLEAN
  BY ServoAssumption DEF ServoInv, ServoTypeOK
<1>2. reset' \in BOOLEAN /\ posicao' \in {0, 1}
  BY DEF Inputs
<1>3. s_largura(posicao) \in {Lowered, Raised} /\ s_largura(posicao') \in {Lowered, Raised}
  BY DEF s_largura
<1>4. s_controle' = NextControle
  BY DEF Registers
<1>5. s_controle' \in BOOLEAN /\ (s_controle' <=> ~ held /\ contagem < largura_pwm)
  <2>1. CASE held
    <3>1. s_controle' = FALSE
      BY <1>4, <2>1 DEF NextControle
    <3>2. QED
      BY <2>1, <3>1
  <2>2. CASE ~ held
    <3>1. CASE contagem < largura_pwm
      BY <1>4, <2>2, <3>1 DEF NextControle
    <3>2. CASE ~ (contagem < largura_pwm)
      <4>1. NextControle = (contagem < largura_pwm)
        BY <2>2 DEF NextControle
      <4>2. (contagem < largura_pwm) = FALSE
        BY <1>1, <3>2
      <4>3. s_controle' = FALSE
        BY <1>4, <4>1, <4>2, Zenon
      <4>4. QED
        BY <3>2, <4>3, Zenon
    <3>3. QED
      BY <3>1, <3>2
  <2>3. QED
    BY <2>1, <2>2
<1>6. high' = IF s_controle' THEN high + 1 ELSE 0
  BY <1>4 DEF Registers
<1>7. held => ~ s_controle
  BY DEF held
<1>8. s_controle' => ~ Override(short)
  BY <1>4 DEF Override
<1>9. ~ Override(short) => contagem' = NextContagem /\ largura_pwm' = NextLargura
  BY DEF Registers
<1>10. Override(short) => contagem' = 0 /\ largura_pwm' = s_largura(posicao')
  BY DEF Registers
<1>11. /\ held => NextContagem = 0 /\ NextLargura = largura_pwm
       /\ ~ held /\ contagem = CONTAGEM_MAXIMA - 1 =>
            NextContagem = 0 /\ NextLargura = s_largura(posicao)
       /\ ~ held /\ contagem # CONTAGEM_MAXIMA - 1 =>
            NextContagem = contagem + 1 /\ NextLargura = largura_pwm
  BY DEF NextContagem, NextLargura, End
<1>12. PulseOK
  BY DEF ServoInv
<1>13. contagem' \in 0 .. CONTAGEM_MAXIMA - 1 /\ largura_pwm' \in {0, Lowered, Raised}
  BY <1>1, <1>3, <1>9, <1>10, <1>11
<1>14. PulseOK'
  <2>1. CASE s_controle'
    BY <1>1, <1>5, <1>6, <1>7, <1>8, <1>9, <1>11, <1>12, <2>1 DEF PulseOK
  <2>2. CASE ~ s_controle'
    BY <1>1, <1>5, <1>6, <1>9, <1>10, <1>11, <1>12, <2>2 DEF PulseOK
  <2>3. QED
    BY <1>5, <2>1, <2>2
<1>15. steady' \in Nat /\ WidthOK'
  <2>1. CASE UNCHANGED <<reset, posicao>> /\ ~ reset /\ ~ short
    <3>1. steady' = IF steady <= CONTAGEM_MAXIMA THEN steady + 1 ELSE steady
      BY <2>1 DEF Inputs
    <3>2. ~ held /\ ~ Override(short) /\ posicao' = posicao
      BY <2>1 DEF held, Override
    <3>3. WidthOK
      BY DEF ServoInv
    <3>4. QED
      BY <1>1, <1>9, <1>11, <3>1, <3>2, <3>3 DEF WidthOK
  <2>2. CASE ~ (UNCHANGED <<reset, posicao>> /\ ~ reset /\ ~ short)
    <3>1. steady' = 0
      BY <2>2 DEF Inputs
    <3>2. QED
      BY <1>1, <1>13, <3>1 DEF WidthOK
  <2>3. QED
    BY <2>1, <2>2
<1>16. high' \in Nat
  BY <1>1, <1>6
<1>17. QED
  BY <1>2, <1>5, <1>13, <1>14, <1>15, <1>16 DEF ServoInv, ServoTypeOK

(* The servo's registers are always in step with its output.               *)
THEOREM ServoInvariant == ServoSpec => []ServoInv
<1>1. ASSUME ServoInit PROVE ServoInv
  <2>1. /\ reset \in BOOLEAN /\ posicao = 0 /\ contagem = 0 /\ s_controle = FALSE
        /\ largura_pwm = (IF reset THEN s_largura(posicao) ELSE 0)
        /\ high = 0 /\ steady = 0
    BY <1>1 DEF ServoInit
  <2>2. largura_pwm \in {0, Lowered, Raised}
    BY <2>1 DEF s_largura
  <2>3. s_controle \in BOOLEAN
    BY <2>1, Zenon
  <2>4. /\ contagem \in 0 .. CONTAGEM_MAXIMA - 1 /\ posicao \in {0, 1}
        /\ high \in Nat /\ steady \in Nat
    BY <2>1, ServoAssumption
  <2>5. PulseOK /\ WidthOK
    BY <2>1 DEF PulseOK, WidthOK
  <2>6. QED
    BY <2>1, <2>2, <2>3, <2>4, <2>5 DEF ServoInv, ServoTypeOK
<1>2. ASSUME ServoInv, [ServoClock]_servoVars PROVE ServoInv'
  <2>1. CASE ServoClock
    BY <1>2, <2>1, ServoStep DEF ServoClock
  <2>2. CASE UNCHANGED servoVars
    BY <1>2, <2>2 DEF servoVars, ServoInv, ServoTypeOK, PulseOK, WidthOK
  <2>3. QED
    BY <1>2, <2>1, <2>2
<1>3. QED
  BY <1>1, <1>2, PTL DEF ServoSpec

(* No reset and no change of the position cuts or stretches a pulse        *)
(* (controle_servo.vhd).                                                   *)
THEOREM PulsesAreWhole == ServoSpec => PulseIsWhole
<1>1. ASSUME ServoInv, [ServoClock]_servoVars
      PROVE  [s_controle /\ ~ s_controle' => high \in {Lowered, Raised}]_servoVars
  <2>1. SUFFICES ASSUME ServoClock, s_controle, ~ s_controle'
                 PROVE  high \in {Lowered, Raised}
    BY <1>1
  <2>2. ~ (contagem < largura_pwm)
    BY <1>1, <2>1 DEF ServoClock, Registers, NextControle, held
  <2>3. QED
    BY <1>1, <2>1, <2>2, ServoAssumption DEF ServoInv, ServoTypeOK, PulseOK
<1>2. QED
  BY <1>1, ServoInvariant, PTL DEF ServoSpec, PulseIsWhole

(* A position that has stood for a period is the one that the next pulse   *)
(* shows (controle_servo.vhd).                                             *)
THEOREM PositionsAreObeyed == ServoSpec => ObeysPosition
<1>1. ASSUME ServoInv, [ServoClock]_servoVars
      PROVE  [~ s_controle /\ s_controle' /\ steady > CONTAGEM_MAXIMA =>
                largura_pwm = s_largura(posicao)]_servoVars
  <2>1. SUFFICES ASSUME steady > CONTAGEM_MAXIMA
                 PROVE  largura_pwm = s_largura(posicao)
    OBVIOUS
  <2>2. QED
    BY <1>1, <2>1, ServoAssumption DEF ServoInv, ServoTypeOK, WidthOK
<1>2. QED
  BY <1>1, ServoInvariant, PTL DEF ServoSpec, ObeysPosition

-----------------------------------------------------------------------------
(* The picture: the counters, the sync signals that follow them, and the   *)
(* monitor that follows the sync signals.                                  *)

(* The first point after the front porch.                                  *)
HPulse == FRAME_WIDTH + H_FP
VPulse == FRAME_HEIGHT + V_FP

VgaTypeOK ==
  /\ hCntr \in 0 .. H_MAX - 1 /\ vCntr \in 0 .. V_MAX - 1
  /\ Hsync \in {0, 1} /\ Vsync \in {0, 1}
  /\ place \in [left : Nat, right : Nat, x : Nat, y : Nat]
  /\ monitor \in [h : Int, v : Int, locked : BOOLEAN]

(* A reset leaves the registers of the sync signals as they were: for one  *)
(* clock they say nothing.                                                 *)
Settled == hCntr >= 1 \/ vCntr >= 1 \/ monitor.locked

SyncOK ==
  Settled =>
    /\ Hsync = 0 <=> hCntr \in HPulse .. HPulse + H_PW - 1
    /\ Vsync = 0 <=> \/ hCntr >= 1 /\ vCntr \in VPulse - 1 .. VPulse + V_PW - 2
                     \/ hCntr = 0 /\ vCntr \in VPulse .. VPulse + V_PW - 1

(* The monitor knows the column once a line has been drawn, and the line   *)
(* once it has seen Vsync fall.                                            *)
ColumnOK ==
  hCntr >= HPulse \/ vCntr >= 1 \/ monitor.locked =>
    monitor.h = IF hCntr >= HPulse THEN hCntr - HPulse ELSE hCntr - HPulse + H_MAX
RowOK ==
  monitor.locked =>
    monitor.v = (IF vCntr > VPulse - 1 \/ (vCntr = VPulse - 1 /\ hCntr >= 1)
                 THEN vCntr - (VPulse - 1) ELSE vCntr - (VPulse - 1) + V_MAX)
                + (IF hCntr >= HPulse THEN 1 ELSE 0)

VgaInv == VgaTypeOK /\ SyncOK /\ ColumnOK /\ RowOK

(* The widths of a line and a frame, from the assumption.                  *)
LEMMA VgaNumbers ==
  /\ FRAME_WIDTH \in Nat /\ FRAME_HEIGHT \in Nat /\ HPulse \in Nat /\ VPulse \in Nat
  /\ H_PW \in Nat /\ V_PW \in Nat /\ H_MAX \in Nat /\ V_MAX \in Nat
  /\ FRAME_WIDTH >= 1 /\ FRAME_HEIGHT >= 1 /\ H_PW >= 1 /\ V_PW >= 1
  /\ HPulse >= FRAME_WIDTH + 1 /\ VPulse >= FRAME_HEIGHT + 1
  /\ HPulse + H_PW <= H_MAX /\ VPulse + V_PW <= V_MAX
  /\ H_FP + FRAME_WIDTH = HPulse /\ V_FP + FRAME_HEIGHT = VPulse
BY VgaAssumption DEF HPulse, VPulse

(* An edge without a reset.                                                *)
LEMMA VgaEdge ==
  ASSUME VgaInv, PixelClock
  PROVE  VgaInv'
<1> DEFINE h == monitor.h  v == monitor.v  l == monitor.locked
<1>1. /\ hCntr \in 0 .. H_MAX - 1 /\ vCntr \in 0 .. V_MAX - 1
      /\ Hsync \in {0, 1} /\ Vsync \in {0, 1}
      /\ h \in Int /\ v \in Int /\ l \in BOOLEAN
  BY DEF VgaInv, VgaTypeOK
<1>2. /\ hCntr' = IF hCntr = H_MAX - 1 THEN 0 ELSE hCntr + 1
      /\ vCntr' = IF hCntr = H_MAX - 1 THEN IF vCntr = V_MAX - 1 THEN 0 ELSE vCntr + 1
                  ELSE vCntr
      /\ Hsync' = IF hCntr \in HPulse - 1 .. HPulse + H_PW - 2 THEN 0 ELSE 1
      /\ Vsync' = IF vCntr \in VPulse - 1 .. VPulse + V_PW - 2 THEN 0 ELSE 1
  <2>1. H_FP \in Nat /\ V_FP \in Nat
    BY VgaAssumption
  <2>2. /\ H_FP + FRAME_WIDTH - 1 = HPulse - 1 /\ H_FP + FRAME_WIDTH + H_PW - 2 = HPulse + H_PW - 2
        /\ V_FP + FRAME_HEIGHT - 1 = VPulse - 1
        /\ V_FP + FRAME_HEIGHT + V_PW - 2 = VPulse + V_PW - 2
    BY <2>1, VgaNumbers
  <2>3. /\ hCntr' = IF hCntr = H_MAX - 1 THEN 0 ELSE hCntr + 1
        /\ vCntr' = IF hCntr = H_MAX - 1 THEN IF vCntr = V_MAX - 1 THEN 0 ELSE vCntr + 1
                    ELSE vCntr
    BY DEF PixelClock, pxlClk, hCntrEnd, vCntrEnd
  <2>4. QED
    BY <2>2, <2>3 DEF PixelClock, pxlClk
<1>3. PICK m : m = [h |-> IF HsyncFalls THEN 0 ELSE IF h < H_MAX THEN h + 1 ELSE H_MAX,
                    v |-> IF VsyncFalls THEN 0
                          ELSE IF HsyncFalls /\ v < V_MAX THEN v + 1 ELSE v,
                    locked |-> VsyncFalls \/ l]
  OBVIOUS
<1>4. monitor' = m
  BY <1>3 DEF PixelClock, Locks
<1>5. /\ HsyncFalls <=> Hsync = 1 /\ hCntr \in HPulse - 1 .. HPulse + H_PW - 2
      /\ VsyncFalls <=> Vsync = 1 /\ vCntr \in VPulse - 1 .. VPulse + V_PW - 2
  BY <1>2 DEF HsyncFalls, VsyncFalls
<1>6. /\ m.h = IF HsyncFalls THEN 0 ELSE IF h < H_MAX THEN h + 1 ELSE H_MAX
      /\ m.v = IF VsyncFalls THEN 0 ELSE IF HsyncFalls /\ v < V_MAX THEN v + 1 ELSE v
      /\ m.locked <=> VsyncFalls \/ l
      /\ m.locked \in BOOLEAN
  BY <1>3
<1>7. h' = m.h /\ v' = m.v /\ (l' <=> m.locked)
  BY <1>4
<1>8. place' = place
  BY DEF PixelClock
<1>9. VgaTypeOK'
  <2>1. hCntr' \in 0 .. H_MAX - 1 /\ vCntr' \in 0 .. V_MAX - 1
    BY <1>1, <1>2, VgaNumbers
  <2>2. Hsync' \in {0, 1} /\ Vsync' \in {0, 1}
    BY <1>2
  <2>3. m.h \in Int /\ m.v \in Int
    BY <1>1, <1>6, VgaNumbers
  <2>4. m \in [h : Int, v : Int, locked : BOOLEAN]
    BY <1>3, <1>6, <2>3
  <2>5. QED
    BY <1>4, <1>8, <2>1, <2>2, <2>4 DEF VgaInv, VgaTypeOK
<1>10. SyncOK'
  BY <1>1, <1>2, <1>7, VgaNumbers DEF SyncOK
<1>11. /\ Settled => (Hsync = 0 <=> hCntr \in HPulse .. HPulse + H_PW - 1)
       /\ Settled => (Vsync = 0 <=> \/ hCntr >= 1 /\ vCntr \in VPulse - 1 .. VPulse + V_PW - 2
                                    \/ hCntr = 0 /\ vCntr \in VPulse .. VPulse + V_PW - 1)
       /\ Settled <=> hCntr >= 1 \/ vCntr >= 1 \/ l
  BY DEF VgaInv, SyncOK, Settled
<1>12. HsyncFalls <=> hCntr = HPulse - 1
  <2>1. CASE Settled
    BY <1>1, <1>5, <1>11, <2>1, VgaNumbers
  <2>2. CASE ~ Settled
    BY <1>1, <1>5, <1>11, <2>2, VgaNumbers
  <2>3. QED
    BY <2>1, <2>2
<1>13. VsyncFalls <=> hCntr = 0 /\ vCntr = VPulse - 1
  <2>1. CASE Settled
    BY <1>1, <1>5, <1>11, <2>1, VgaNumbers
  <2>2. CASE ~ Settled
    BY <1>1, <1>5, <1>11, <2>2, VgaNumbers
  <2>3. QED
    BY <2>1, <2>2
<1>14. ColumnOK'
  <2>1. hCntr >= HPulse \/ vCntr >= 1 \/ l =>
          h = IF hCntr >= HPulse THEN hCntr - HPulse ELSE hCntr - HPulse + H_MAX
    BY DEF VgaInv, ColumnOK
  <2>2. hCntr' >= HPulse \/ vCntr' >= 1 \/ l' =>
          m.h = IF hCntr' >= HPulse THEN hCntr' - HPulse
                ELSE hCntr' - HPulse + H_MAX
    BY <1>1, <1>2, <1>6, <1>7, <1>12, <1>13, <2>1, VgaNumbers
  <2>3. QED
    BY <1>7, <2>2 DEF ColumnOK
<1>15. RowOK'
  <2>1. l => v = (IF vCntr > VPulse - 1 \/ (vCntr = VPulse - 1 /\ hCntr >= 1)
                  THEN vCntr - (VPulse - 1) ELSE vCntr - (VPulse - 1) + V_MAX)
                 + (IF hCntr >= HPulse THEN 1 ELSE 0)
    BY DEF VgaInv, RowOK
  <2>2. l' => m.v = (IF vCntr' > VPulse - 1 \/ (vCntr' = VPulse - 1 /\ hCntr' >= 1)
                     THEN vCntr' - (VPulse - 1) ELSE vCntr' - (VPulse - 1) + V_MAX)
                    + (IF hCntr' >= HPulse THEN 1 ELSE 0)
    BY <1>1, <1>2, <1>6, <1>7, <1>12, <1>13, <2>1, VgaNumbers
  <2>3. QED
    BY <1>7, <2>2 DEF RowOK
<1>16. QED
  BY <1>9, <1>10, <1>14, <1>15 DEF VgaInv

(* A reset starts a frame.                                                 *)
LEMMA VgaResetStep ==
  ASSUME VgaInv, VgaReset
  PROVE  VgaInv'
<1>1. hCntr' = 0 /\ vCntr' = 0 /\ Hsync' \in {0, 1} /\ Vsync' \in {0, 1} /\ place' = place
  BY DEF VgaReset, pxlClk
<1>2. PICK m : m = [h |-> IF HsyncFalls THEN 0
                          ELSE IF monitor.h < H_MAX THEN monitor.h + 1 ELSE H_MAX,
                    v |-> IF VsyncFalls THEN 0
                          ELSE IF HsyncFalls /\ monitor.v < V_MAX THEN monitor.v + 1 ELSE monitor.v,
                    locked |-> FALSE]
  OBVIOUS
<1>3. monitor' = m
  BY <1>2 DEF VgaReset, Locks
<1>4. monitor.h \in Int /\ monitor.v \in Int
  BY DEF VgaInv, VgaTypeOK
<1>5. m.h \in Int /\ m.v \in Int /\ m.locked = FALSE
  BY <1>2, <1>4, VgaNumbers
<1>6. m \in [h : Int, v : Int, locked : BOOLEAN]
  BY <1>2, <1>5
<1>7. VgaTypeOK'
  BY <1>1, <1>3, <1>6, VgaNumbers DEF VgaInv, VgaTypeOK
<1>8. SyncOK' /\ ColumnOK' /\ RowOK'
  BY <1>1, <1>3, <1>5, VgaNumbers DEF SyncOK, Settled, ColumnOK, RowOK
<1>9. QED
  BY <1>7, <1>8 DEF VgaInv

(* Every step of the picture keeps its invariant.                          *)
LEMMA VgaStep ==
  ASSUME VgaInv, [VgaNext]_vgaVars
  PROVE  VgaInv'
<1>1. CASE WriteRegister
  <2>1. place' \in [left : Nat, right : Nat, x : Nat, y : Nat]
    BY <1>1, VgaAssumption DEF WriteRegister, VgaInv, VgaTypeOK
  <2>2. UNCHANGED <<hCntr, vCntr, Hsync, Vsync, monitor>>
    BY <1>1 DEF WriteRegister
  <2>3. QED
    BY <2>1, <2>2 DEF VgaInv, VgaTypeOK, SyncOK, Settled, ColumnOK, RowOK
<1>2. CASE UNCHANGED vgaVars
  BY <1>2 DEF vgaVars, VgaInv, VgaTypeOK, SyncOK, Settled, ColumnOK, RowOK
<1>3. QED
  BY <1>1, <1>2, VgaEdge, VgaResetStep DEF VgaNext

(* The counters, the sync signals and the monitor agree (vga_driver.v).    *)
THEOREM VgaInvariant == VgaSpec => []VgaInv
<1>1. VgaInit => VgaInv
  BY VgaNumbers DEF VgaInit, VgaInv, VgaTypeOK, SyncOK, Settled, ColumnOK, RowOK
<1>2. VgaInv /\ [VgaNext]_vgaVars => VgaInv'
  BY VgaStep
<1>3. QED
  BY <1>1, <1>2, PTL DEF VgaSpec

(* The comparisons of pong_drawer.v are those of the doubled coordinates,  *)
(* because the sides of the ball and of the paddles are even.              *)
LEMMA NearIsIn ==
  ASSUME NEW a \in Nat, NEW at \in Nat, NEW side \in Nat, side % 2 = 0
  PROVE  Near(a, side, at) <=> 2 * a \in 2 * at - side + 1 .. 2 * at + side - 1
<1>1. PICK half \in Nat : half = side \div 2
  OBVIOUS
<1>2. side = 2 * half
  BY <1>1
<1>3. QED
  BY <1>1, <1>2 DEF Near

(* What the windows of the drawer light is what the registers say.         *)
LEMMA DrawnIsLit ==
  ASSUME VgaInv
  PROVE  draw_left_cursor \/ draw_right_cursor \/ draw_ball <=> Lit(hCntr, vCntr)
<1> DEFINE middle == 2 * CURSOR_OFFSET + CURSOR_WIDTH
           Paddle(px, py) ==
             /\ 2 * hCntr \in px - CURSOR_WIDTH + 1 .. px + CURSOR_WIDTH - 1
             /\ 2 * vCntr \in 2 * py - CURSOR_HEIGHT + 1 .. 2 * py + CURSOR_HEIGHT - 1
<1>1. /\ hCntr \in Nat /\ vCntr \in Nat
      /\ place.left \in Nat /\ place.right \in Nat /\ place.x \in Nat /\ place.y \in Nat
  BY VgaNumbers DEF VgaInv, VgaTypeOK
<1>2. CURSOR_WIDTH \in Nat /\ CURSOR_OFFSET \in Nat
  BY VgaAssumption
<1>3. /\ CURSOR_HEIGHT \in Nat /\ CURSOR_HEIGHT % 2 = 0
      /\ BALL_SIDE \in Nat /\ BALL_SIDE % 2 = 0
  BY VgaAssumption
<1>4. draw_left_cursor <=> Paddle(middle, place.left)
  <2>1. Near(vCntr, CURSOR_HEIGHT, place.left)
          <=> 2 * vCntr \in 2 * place.left - CURSOR_HEIGHT + 1 .. 2 * place.left + CURSOR_HEIGHT - 1
    BY <1>1, <1>3, NearIsIn
  <2>2. QED
    BY <1>1, <1>2, <2>1 DEF draw_left_cursor
<1>5. draw_right_cursor <=> Paddle(2 * FRAME_WIDTH - middle, place.right)
  <2>1. Near(vCntr, CURSOR_HEIGHT, place.right)
          <=> 2 * vCntr \in 2 * place.right - CURSOR_HEIGHT + 1 .. 2 * place.right + CURSOR_HEIGHT - 1
    BY <1>1, <1>3, NearIsIn
  <2>2. QED
    BY <1>1, <1>2, <2>1, VgaNumbers DEF draw_right_cursor
<1>6. draw_ball <=> /\ 2 * hCntr \in 2 * place.x - BALL_SIDE + 1 .. 2 * place.x + BALL_SIDE - 1
                    /\ 2 * vCntr \in 2 * place.y - BALL_SIDE + 1 .. 2 * place.y + BALL_SIDE - 1
  BY <1>1, <1>3, NearIsIn DEF draw_ball
<1>7. Lit(hCntr, vCntr) <=>
        \/ /\ 2 * hCntr \in 2 * place.x - BALL_SIDE + 1 .. 2 * place.x + BALL_SIDE - 1
           /\ 2 * vCntr \in 2 * place.y - BALL_SIDE + 1 .. 2 * place.y + BALL_SIDE - 1
        \/ Paddle(middle, place.left) \/ Paddle(2 * FRAME_WIDTH - middle, place.right)
  BY DEF Lit
<1>8. QED
  BY <1>4, <1>5, <1>6, <1>7

(* A monitor that has seen one whole sync pulse shows what the registers   *)
(* say, at every one of its points (pong_drawer.v and vga_driver.v).       *)
THEOREM FramesAreRight == VgaSpec => []FrameIsRight
<1>1. ASSUME VgaInv, monitor.locked PROVE FrameIsRight
  <2>1. /\ hCntr \in 0 .. H_MAX - 1 /\ vCntr \in 0 .. V_MAX - 1
        /\ Hsync \in {0, 1} /\ Vsync \in {0, 1}
    BY <1>1 DEF VgaInv, VgaTypeOK
  <2>2. monitor.h = IF hCntr >= HPulse THEN hCntr - HPulse ELSE hCntr - HPulse + H_MAX
    BY <1>1 DEF VgaInv, ColumnOK
  <2>3. monitor.v = (IF vCntr > VPulse - 1 \/ (vCntr = VPulse - 1 /\ hCntr >= 1)
                     THEN vCntr - (VPulse - 1) ELSE vCntr - (VPulse - 1) + V_MAX)
                    + (IF hCntr >= HPulse THEN 1 ELSE 0)
    BY <1>1 DEF VgaInv, RowOK
  <2>4. /\ Hsync = 0 <=> hCntr \in HPulse .. HPulse + H_PW - 1
        /\ Vsync = 0 <=> \/ hCntr >= 1 /\ vCntr \in VPulse - 1 .. VPulse + V_PW - 2
                         \/ hCntr = 0 /\ vCntr \in VPulse .. VPulse + V_PW - 1
    BY <1>1 DEF VgaInv, SyncOK, Settled
  <2>5. column = monitor.h - (H_MAX - HPulse) /\ row = monitor.v - (V_MAX - VPulse + 1)
    BY <2>1, <2>2, <2>3, VgaNumbers, VgaAssumption DEF column, row, HPulse, VPulse
  <2>6. column \in 0 .. FRAME_WIDTH - 1 /\ row \in 0 .. FRAME_HEIGHT - 1 <=> active
    BY <2>1, <2>2, <2>3, <2>5, VgaNumbers DEF active
  <2>7. active => column = hCntr /\ row = vCntr
    BY <2>1, <2>2, <2>3, <2>5, VgaNumbers DEF active
  <2>8. rgb = IF column \in 0 .. FRAME_WIDTH - 1 /\ row \in 0 .. FRAME_HEIGHT - 1
              THEN IF Lit(column, row) THEN "color" ELSE "off_color" ELSE "blank"
    BY <1>1, <2>6, <2>7, DrawnIsLit DEF rgb
  <2>9. (Hsync = 0) = (monitor.h < H_PW)
    BY <2>1, <2>2, <2>4, VgaNumbers
  <2>10. Vsync = 0 => monitor.v \in 0 .. V_PW
    BY <2>1, <2>3, <2>4, VgaNumbers
  <2>11. Vsync = 1 => monitor.v \in V_PW .. V_MAX
    BY <2>1, <2>3, <2>4, VgaNumbers
  <2>12. QED
    BY <2>8, <2>9, <2>10, <2>11 DEF FrameIsRight
<1>2. VgaInv => FrameIsRight
  BY <1>1 DEF FrameIsRight
<1>3. QED
  BY <1>2, VgaInvariant, PTL

-----------------------------------------------------------------------------
(* The clock of the SPI flash.  While it is searched for no operation is   *)
(* under way, so that the block stays what it was at the first reading.    *)

ReadsErased(contents) == \A a \in SectorOf(0) : contents[a] = Bits

ClockTypeOK ==
  /\ DOMAIN chip = {"contents", "wel", "wip", "selected"}
  /\ clock \in [divisor : Nat, lowest : Divisors, phase : {"start", "search", "done"},
                crc : {"none", "erased", "stuck", "garbage", "block"},
                test : {"none", "erased", "stuck", "garbage", "block"}, idle : BOOLEAN]

SearchOK ==
  /\ clock.phase # "done" => op = "none" /\ work = << >>
  /\ clock.phase = "start" => clock.divisor = Slowest
  /\ clock.phase = "search" /\ clock.idle =>
       /\ ~ ReadsErased(chip.contents)
       /\ clock.crc = "block" /\ clock.divisor + 1 >= clock.lowest
       /\ clock.test = IF clock.divisor < clock.lowest THEN "garbage" ELSE "block"

ClockInv == ClockTypeOK /\ SearchOK /\ FastestThatReads

(* The slowest clock is one of the divisors.                               *)
LEMMA SlowestWorks == Slowest \in Nat /\ \A d \in Divisors : d \in Nat /\ d <= Slowest
<1>1. PICK d \in Divisors : Divisors = 0 .. d
  BY SpiFlashAssumption
<1>2. d \in Nat /\ \A e \in Divisors : e <= d
  BY <1>1, SpiFlashAssumption
<1>3. Slowest \in Divisors /\ \A e \in Divisors : e <= Slowest
  BY <1>2 DEF Slowest
<1>4. QED
  BY <1>3, SpiFlashAssumption

(* The state at the begin of a search for the clock.                       *)
LEMMA NewSearch ==
  ASSUME NEW lowest \in Divisors, NEW c, c = SearchFrom(lowest)
  PROVE  /\ c \in [divisor : Nat, lowest : Divisors, phase : {"start", "search", "done"},
                   crc : {"none", "erased", "stuck", "garbage", "block"},
                   test : {"none", "erased", "stuck", "garbage", "block"}, idle : BOOLEAN]
         /\ c.phase = "start" /\ c.divisor = Slowest
BY SlowestWorks DEF SearchFrom

(* Deselecting the chip may change what it holds, not which parts it has.  *)
LEMMA DeselectedChip == DOMAIN Deselected = DOMAIN chip
<1> DEFINE s == chip.selected
           idle == [chip EXCEPT !.selected = << >>]
           Changed(contents) == [idle EXCEPT !.contents = contents, !.wel = FALSE, !.wip = TRUE]
<1>1. DOMAIN idle = DOMAIN chip
  OBVIOUS
<1>2. ASSUME NEW contents PROVE DOMAIN Changed(contents) = DOMAIN chip
  OBVIOUS
<1>3. DOMAIN [idle EXCEPT !.wel = TRUE] = DOMAIN chip
  OBVIOUS
<1>4. CASE s = << >> \/ chip.wip
  <2>1. Deselected = idle
    BY <1>4 DEF Deselected
  <2>2. QED
    BY <1>1, <2>1
<1>5. CASE ~ (s = << >> \/ chip.wip) /\ s = <<"WREN">>
  <2>1. Deselected = [idle EXCEPT !.wel = TRUE]
    BY <1>5 DEF Deselected
  <2>2. QED
    BY <1>3, <2>1
<1> DEFINE Idle == ~ (s = << >> \/ chip.wip) /\ s # <<"WREN">>
<1>6. CASE Idle /\ chip.wel /\ s = <<"CE">>
  <2>1. Deselected = Changed(Erased(chip.contents, FlashAddress))
    BY <1>6 DEF Deselected
  <2>2. QED
    BY <1>2, <2>1
<1> DEFINE IsErase == Len(s) = 2 /\ s[1] = "SE"
           IsProgram == Len(s) > 2 /\ s[1] = "PP"
<1>7. CASE Idle /\ ~ (chip.wel /\ s = <<"CE">>) /\ chip.wel /\ IsErase
  <2>1. Deselected = Changed(Erased(chip.contents, SectorOf(s[2])))
    BY <1>7 DEF Deselected
  <2>2. QED
    BY <1>2, <2>1
<1>8. CASE Idle /\ ~ (chip.wel /\ s = <<"CE">>) /\ ~ (chip.wel /\ IsErase) /\ chip.wel /\ IsProgram
  <2>1. Deselected = Changed(Programmed(chip.contents, s[2], SubSeq(s, 3, Len(s))))
    BY <1>8 DEF Deselected
  <2>2. QED
    BY <1>2, <2>1
<1>9. CASE /\ Idle /\ ~ (chip.wel /\ s = <<"CE">>)
           /\ ~ (chip.wel /\ IsErase) /\ ~ (chip.wel /\ IsProgram)
  <2>1. Deselected = idle
    BY <1>9 DEF Deselected
  <2>2. QED
    BY <1>1, <2>1
<1>10. QED
  BY <1>4, <1>5, <1>6, <1>7, <1>8, <1>9

(* A probe of the search keeps the invariant of the clock.                 *)
LEMMA FrequencyStep ==
  ASSUME ClockInv, spiflash_freq_init
  PROVE  ClockInv'
<1>1. /\ clock.divisor \in Nat /\ clock.lowest \in Divisors /\ clock.lowest \in Nat
      /\ clock.lowest <= Slowest /\ clock.idle \in BOOLEAN
  BY SlowestWorks DEF ClockInv, ClockTypeOK
<1>2. chip' = chip /\ op' = op /\ work' = work /\ op = "none"
  BY DEF spiflash_freq_init
<1>3. ClockTypeOK /\ SearchOK
  BY DEF ClockInv
<1>4. ASSUME NEW d \in Nat, NEW crc \in crc32(d)
      PROVE  /\ crc \in {"erased", "stuck", "garbage", "block"}
             /\ ~ chip.wip /\ d < clock.lowest => crc = "garbage"
             /\ ~ chip.wip /\ ~ (d < clock.lowest) =>
                  crc = IF ReadsErased(chip.contents) THEN "erased" ELSE "block"
  BY <1>4 DEF crc32, ReadsErased
<1>5. CASE clock.phase = "start"
  <2>1. PICK crc \in crc32(clock.divisor) :
          clock' = [clock EXCEPT !.crc = crc, !.test = crc, !.idle = ~ chip.wip,
                                 !.phase = IF crc = "erased" THEN "done" ELSE "search"]
    BY <1>5 DEF spiflash_freq_init
  <2>2. clock.divisor = Slowest /\ work = << >>
    BY <1>3, <1>5 DEF SearchOK
  <2>3. /\ crc \in {"erased", "stuck", "garbage", "block"}
        /\ ~ chip.wip => crc = IF ReadsErased(chip.contents) THEN "erased" ELSE "block"
    BY <1>1, <1>4, <2>2
  <2>4. /\ ClockTypeOK'
        /\ clock'.divisor = Slowest /\ clock'.lowest = clock.lowest
        /\ clock'.crc = crc /\ clock'.test = crc /\ clock'.idle = ~ chip.wip
        /\ clock'.phase = IF crc = "erased" THEN "done" ELSE "search"
    BY <1>2, <1>3, <2>1, <2>2, <2>3 DEF ClockTypeOK
  <2>5. clock'.idle => ~ chip.wip
    BY <2>4, Zenon
  <2>6. QED
    BY <1>1, <1>2, <2>2, <2>3, <2>4, <2>5, SlowestWorks DEF ClockInv, SearchOK, FastestThatReads
<1>6. CASE clock.phase = "search" /\ clock.crc = clock.test /\ clock.divisor > 0
  <2>1. PICK crc \in crc32(clock.divisor - 1) :
          clock' = [clock EXCEPT !.divisor = @ - 1, !.test = crc, !.idle = @ /\ ~ chip.wip]
    <3>1. clock.divisor # 0 /\ clock.phase # "start" /\ clock.crc = clock.test
      BY <1>1, <1>6
    <3>2. QED
      BY <3>1, Zenon DEF spiflash_freq_init
  <2>2. PICK d \in Nat : d = clock.divisor - 1
    BY <1>1, <1>6
  <2>3. /\ crc \in {"erased", "stuck", "garbage", "block"}
        /\ ~ chip.wip /\ d < clock.lowest => crc = "garbage"
        /\ ~ chip.wip /\ ~ (d < clock.lowest) =>
             crc = IF ReadsErased(chip.contents) THEN "erased" ELSE "block"
    BY <1>4, <2>1, <2>2
  <2>4. /\ ClockTypeOK'
        /\ clock'.divisor = d /\ clock'.lowest = clock.lowest
        /\ clock'.crc = clock.crc /\ clock'.test = crc
        /\ clock'.idle <=> clock.idle /\ ~ chip.wip
        /\ clock'.phase = "search"
    BY <1>2, <1>3, <1>6, <2>1, <2>2, <2>3 DEF ClockTypeOK
  <2>5. work = << >>
    BY <1>3, <1>6 DEF SearchOK
  <2>6. clock.idle => /\ ~ ReadsErased(chip.contents) /\ clock.crc = "block"
                      /\ clock.divisor >= clock.lowest
    BY <1>1, <1>3, <1>6 DEF SearchOK
  <2>7. QED
    BY <1>1, <1>2, <2>2, <2>3, <2>4, <2>5, <2>6 DEF ClockInv, SearchOK, FastestThatReads
<1>7. CASE clock.phase = "search" /\ clock.crc = clock.test /\ clock.divisor = 0
  <2>1. clock' = [clock EXCEPT !.phase = "done"]
    BY <1>7 DEF spiflash_freq_init
  <2>2. /\ ClockTypeOK' /\ clock'.phase = "done"
        /\ clock'.divisor = 0 /\ clock'.lowest = clock.lowest /\ clock'.idle = clock.idle
    BY <1>2, <1>3, <1>7, <2>1 DEF ClockTypeOK
  <2>3. clock.idle => clock.lowest = 0
    BY <1>1, <1>3, <1>7 DEF SearchOK
  <2>4. QED
    BY <2>2, <2>3 DEF ClockInv, SearchOK, FastestThatReads
<1>8. CASE clock.phase = "search" /\ clock.crc # clock.test
  <2>1. clock' = [clock EXCEPT !.phase = "done", !.divisor = @ + 1]
    BY <1>8 DEF spiflash_freq_init, Restored
  <2>2. /\ ClockTypeOK' /\ clock'.phase = "done"
        /\ clock'.divisor = clock.divisor + 1 /\ clock'.lowest = clock.lowest
        /\ clock'.idle = clock.idle
    <3>1. PICK k \in Nat : k = clock.divisor + 1
      BY <1>1
    <3>2. clock' = [clock EXCEPT !.phase = "done", !.divisor = k]
      BY <2>1, <3>1
    <3>3. /\ clock'.phase = "done" /\ clock'.divisor = k
          /\ clock'.lowest = clock.lowest /\ clock'.idle = clock.idle
      BY <1>3, <3>2 DEF ClockTypeOK
    <3>4. ClockTypeOK'
      BY <1>2, <1>3, <3>1, <3>2 DEF ClockTypeOK
    <3>5. QED
      BY <3>1, <3>3, <3>4
  <2>3. clock.idle => clock.divisor + 1 = clock.lowest
    BY <1>1, <1>3, <1>8 DEF SearchOK
  <2>4. QED
    BY <2>2, <2>3 DEF ClockInv, SearchOK, FastestThatReads
<1>9. QED
  BY <1>5, <1>6, <1>7, <1>8 DEF spiflash_freq_init

(* An operation of the flash, at work only once the clock has been found.  *)
LEMMA OperationStep ==
  ASSUME ClockInv, UNCHANGED clock, DOMAIN chip' = DOMAIN chip, clock.phase = "done"
  PROVE  ClockInv'
BY DEF ClockInv, ClockTypeOK, SearchOK, FastestThatReads

(* Every step of the flash keeps the invariant of the clock.               *)
LEMMA FlashStep ==
  ASSUME ClockInv, [FlashNext]_flashVars
  PROVE  ClockInv'
<1>1. ASSUME NEW o, NEW bytes, NEW rest, NEW contents, CallFlash(o, bytes, rest, contents)
      PROVE  ClockInv'
  BY <1>1, OperationStep DEF CallFlash
<1>2. CASE flash_write_handler \/ flash_erase_handler \/ EraseSector
  BY <1>1, <1>2 DEF flash_write_handler, flash_erase_handler, EraseSector
<1>3. work # << >> => clock.phase = "done"
  BY DEF ClockInv, ClockTypeOK, SearchOK
<1>4. CASE wait_for_device_ready \/ flash_write_byte \/ Deselect
  <2>1. UNCHANGED clock /\ work # << >>
    BY <1>4 DEF wait_for_device_ready, flash_write_byte, Deselect
  <2>2. DOMAIN chip' = DOMAIN chip
    <3>1. \/ chip' = chip \/ chip' = Deselected
          \/ chip' = [chip EXCEPT !.selected = Append(chip.selected, Head(work)[2])]
      BY <1>4 DEF wait_for_device_ready, flash_write_byte, Deselect
    <3>2. QED
      BY <3>1, DeselectedChip
  <2>3. QED
    BY <1>3, <2>1, <2>2, OperationStep
<1>5. CASE FlashReturns \/ write_to_flash
  <2>1. UNCHANGED <<chip, clock>> /\ clock.phase = "done"
    BY <1>5 DEF FlashReturns, write_to_flash, ClockInv, ClockTypeOK, SearchOK
  <2>2. QED
    BY <2>1, OperationStep
<1>6. CASE ChipReady
  <2>1. chip' = [chip EXCEPT !.wip = FALSE] /\ UNCHANGED <<op, work, clock>>
    BY <1>6 DEF ChipReady
  <2>2. DOMAIN chip' = DOMAIN chip /\ chip'.contents = chip.contents
    BY <2>1 DEF ClockInv, ClockTypeOK
  <2>3. QED
    BY <2>1, <2>2 DEF ClockInv, ClockTypeOK, SearchOK, FastestThatReads
<1>7. CASE FlashReset
  <2>1. /\ chip' = Deselected /\ op' = "none" /\ work' = << >>
        /\ clock' = SearchFrom(clock.lowest)
    BY <1>7 DEF FlashReset
  <2>2. clock.lowest \in Divisors
    BY DEF ClockInv, ClockTypeOK
  <2>3. PICK c : c = SearchFrom(clock.lowest)
    OBVIOUS
  <2>4. QED
    BY <2>1, <2>2, <2>3, NewSearch, DeselectedChip
       DEF ClockInv, ClockTypeOK, SearchOK, FastestThatReads
<1>8. CASE UNCHANGED flashVars
  BY <1>8 DEF flashVars, ClockInv, ClockTypeOK, SearchOK, FastestThatReads
<1>9. QED
  BY <1>2, <1>4, <1>5, <1>6, <1>7, <1>8, FrequencyStep DEF FlashNext

(* spiflash_freq_init ends with the fastest clock that the block can be    *)
(* read with, however the reads, operations and resets follow each other   *)
(* (liblitespi/spiflash.c).                                                *)
THEOREM ClockIsFastest == FlashSpec => []FastestThatReads
<1>1. ASSUME FlashInit PROVE ClockInv
  <2>1. PICK lowest \in Divisors : clock = SearchFrom(lowest)
    BY <1>1 DEF FlashInit
  <2>2. DOMAIN chip = {"contents", "wel", "wip", "selected"} /\ op = "none" /\ work = << >>
    BY <1>1 DEF FlashInit
  <2>3. QED
    BY <2>1, <2>2, NewSearch DEF ClockInv, ClockTypeOK, SearchOK, FastestThatReads
<1>2. ClockInv /\ [FlashNext]_flashVars => ClockInv'
  BY FlashStep
<1>3. ClockInv => FastestThatReads
  BY DEF ClockInv
<1>4. QED
  BY <1>1, <1>2, <1>3, PTL DEF FlashSpec

-----------------------------------------------------------------------------
(* What the flash holds.  An operation is cut into commands of a page at   *)
(* most, so that what a command does and what is left add up to what was   *)
(* promised; and each comes when the chip is ready and enabled.            *)

LEMMA FlashSizes ==
  /\ SPIFLASH_PAGE_SIZE \in Nat \ {0} /\ SPIFLASH_SECTOR_SIZE \in Nat \ {0} /\ Sectors \in Nat \ {0}
  /\ FlashAddress \subseteq Nat
<1>1. /\ SPIFLASH_PAGE_SIZE \in Nat \ {0} /\ SPIFLASH_SECTOR_SIZE \in Nat \ {0} /\ Sectors \in Nat \ {0}
  BY SpiFlashAssumption
<1>2. QED
  BY <1>1 DEF FlashAddress

(* Up to the end of the page no byte wraps around.                         *)
LEMMA InPage ==
  ASSUME NEW addr \in Nat, NEW k \in Nat, k < ToPageEnd(addr)
  PROVE  /\ ToPageEnd(addr) \in Nat \ {0}
         /\ SPIFLASH_PAGE_SIZE * (addr \div SPIFLASH_PAGE_SIZE) + ((addr + k) % SPIFLASH_PAGE_SIZE) = addr + k
<1>1. PICK d \in Nat \ {0} : d = SPIFLASH_PAGE_SIZE
  BY FlashSizes
<1>2. PICK q \in Int, r \in 0 .. d - 1 : addr = d * q + r /\ q = addr \div d /\ r = addr % d
  OBVIOUS
<1>3. PICK x \in Int : x = d * q
  OBVIOUS
<1>4. ToPageEnd(addr) = d - r
  BY <1>1, <1>2 DEF ToPageEnd
<1>5. r + k \in 0 .. d - 1 /\ addr + k = x + (r + k)
  <2>1. addr = x + r
    BY <1>2, <1>3
  <2>2. k < d - r
    BY <1>4
  <2>3. r \in 0 .. d - 1
    BY <1>2
  <2>4. QED
    BY <2>1, <2>2, <2>3
<1>6. PICK i \in 0 .. d - 1, n \in Nat : i = r + k /\ n = addr + k
  BY <1>5
<1>7. n = d * q + i
  BY <1>3, <1>5, <1>6
<1>8. n % d = i
  BY <1>7, Quotient
<1>9. x + i = n
  BY <1>5, <1>6
<1>10. SPIFLASH_PAGE_SIZE * (addr \div SPIFLASH_PAGE_SIZE) = x /\ (addr + k) % SPIFLASH_PAGE_SIZE = i
  BY <1>1, <1>2, <1>3, <1>6, <1>8
<1>11. ToPageEnd(addr) \in Nat \ {0}
  <2>1. r \in 0 .. d - 1
    BY <1>2
  <2>2. QED
    BY <2>1, <1>4
<1>12. QED
  BY <1>6, <1>9, <1>10, <1>11

(* So a page is programmed as it was to be.                                *)
LEMMA PageProgrammed ==
  ASSUME NEW contents, NEW addr \in Nat, NEW c \in Seq(SUBSET Bits),
         Len(c) <= ToPageEnd(addr)
  PROVE  Programmed(contents, addr, c) = Written(contents, addr, c)
<1> DEFINE page == SPIFLASH_PAGE_SIZE * (addr \div SPIFLASH_PAGE_SIZE)
           Cell(k) == page + ((addr + k - 1) % SPIFLASH_PAGE_SIZE)
           Hits(a) == {k \in DOMAIN c : Cell(k) = a}
<1>1. DOMAIN c = 1 .. Len(c) /\ Len(c) \in Nat
  OBVIOUS
<1>2. ASSUME NEW k \in DOMAIN c PROVE Cell(k) = addr + k - 1
  <2>1. PICK i \in Nat : i = k - 1
    BY <1>1
  <2>2. ToPageEnd(addr) \in Nat \/ ToPageEnd(addr) \in Int
    BY FlashSizes DEF ToPageEnd
  <2>3. i < ToPageEnd(addr)
    BY <1>1, <2>1, <2>2
  <2>4. page + ((addr + i) % SPIFLASH_PAGE_SIZE) = addr + i
    BY <2>3, InPage
  <2>5. addr + k - 1 = addr + i
    BY <1>1, <2>1
  <2>6. QED
    BY <2>4, <2>5
<1> HIDE DEF page
<1>3. ASSUME NEW a \in FlashAddress
      PROVE  /\ a \in addr .. addr + Len(c) - 1 => Hits(a) = {a - addr + 1}
             /\ a \notin addr .. addr + Len(c) - 1 => Hits(a) = {}
  <2>1. a \in Nat
    BY FlashSizes
  <2>2. \A k \in DOMAIN c : Cell(k) = a <=> k = a - addr + 1
    BY <1>1, <1>2, <2>1
  <2>3. a - addr + 1 \in DOMAIN c <=> a \in addr .. addr + Len(c) - 1
    BY <1>1, <2>1
  <2> HIDE DEF Cell
  <2>4. QED
    BY <2>2, <2>3
<1>4. ASSUME NEW a \in FlashAddress
      PROVE  (IF Hits(a) = {} THEN contents[a]
              ELSE contents[a] \cap c[CHOOSE k \in Hits(a) : \A j \in Hits(a) : j <= k])
             = (IF a \in addr .. addr + Len(c) - 1 THEN contents[a] \cap c[a - addr + 1] ELSE contents[a])
  <2> HIDE DEF Hits
  <2>1. CASE a \in addr .. addr + Len(c) - 1
    <3>1. PICK m \in Int : m = a - addr + 1
      BY FlashSizes
    <3>2. Hits(a) = {m}
      BY <1>3, <2>1, <3>1
    <3>3. (CHOOSE k \in {m} : \A j \in {m} : j <= k) = m
      OBVIOUS
    <3>4. QED
      BY <2>1, <3>1, <3>2, <3>3
  <2>2. CASE a \notin addr .. addr + Len(c) - 1
    BY <1>3, <2>2
  <2>3. QED
    BY <2>1, <2>2
<1>5. Programmed(contents, addr, c) =
        [a \in FlashAddress |-> IF Hits(a) = {} THEN contents[a]
                                ELSE contents[a] \cap c[CHOOSE k \in Hits(a) : \A j \in Hits(a) : j <= k]]
  BY Zenon DEF Programmed, page
<1> HIDE DEF Hits
<1>6. QED
  BY <1>4, <1>5, Zenon DEF Written

(* Writing a part and then the rest is writing all.                        *)
LEMMA WrittenInParts ==
  ASSUME NEW contents, NEW addr \in Nat, NEW c \in Seq(SUBSET Bits), NEW n \in 1 .. Len(c)
  PROVE  /\ SubSeq(c, 1, n) \in Seq(SUBSET Bits) /\ SubSeq(c, n + 1, Len(c)) \in Seq(SUBSET Bits)
         /\ Len(SubSeq(c, 1, n)) = n /\ Len(SubSeq(c, n + 1, Len(c))) = Len(c) - n
         /\ Written(Written(contents, addr, SubSeq(c, 1, n)), addr + n, SubSeq(c, n + 1, Len(c)))
            = Written(contents, addr, c)
<1> DEFINE b == SubSeq(c, 1, n)
           e == SubSeq(c, n + 1, Len(c))
<1>1. /\ b \in Seq(SUBSET Bits) /\ e \in Seq(SUBSET Bits) /\ Len(b) = n /\ Len(e) = Len(c) - n
      /\ \A i \in 1 .. n : b[i] = c[i]
      /\ \A i \in 1 .. Len(c) - n : e[i] = c[n + i]
  OBVIOUS
<1> HIDE DEF b, e
<1>2. ASSUME NEW a \in FlashAddress
      PROVE  Written(Written(contents, addr, b), addr + n, e)[a] = Written(contents, addr, c)[a]
  <2>1. a \in Nat /\ Len(c) \in Nat
    BY FlashSizes
  <2>2. Written(contents, addr, b)[a] =
          IF a \in addr .. addr + n - 1 THEN contents[a] \cap c[a - addr + 1] ELSE contents[a]
    <3>1. Written(contents, addr, b)[a] =
            IF a \in addr .. addr + n - 1 THEN contents[a] \cap b[a - addr + 1] ELSE contents[a]
      BY <1>1 DEF Written
    <3>2. a \in addr .. addr + n - 1 => b[a - addr + 1] = c[a - addr + 1]
      BY <1>1, <2>1
    <3>3. QED
      BY <3>1, <3>2
  <2>3. Written(Written(contents, addr, b), addr + n, e)[a] =
          IF a \in addr + n .. addr + n + Len(e) - 1
          THEN Written(contents, addr, b)[a] \cap e[a - (addr + n) + 1] ELSE Written(contents, addr, b)[a]
    BY DEF Written
  <2>4. Written(contents, addr, c)[a] =
          IF a \in addr .. addr + Len(c) - 1 THEN contents[a] \cap c[a - addr + 1] ELSE contents[a]
    BY DEF Written
  <2>5. CASE a \in addr + n .. addr + Len(c) - 1
    <3>1. PICK i \in Int : i = a - (addr + n) + 1
      BY <2>1
    <3>2. i \in 1 .. Len(c) - n /\ n + i = a - addr + 1
      BY <2>1, <2>5, <3>1
    <3>3. e[i] = c[a - addr + 1]
      BY <1>1, <3>2
    <3>4. addr + n + Len(e) - 1 = addr + Len(c) - 1 /\ a \notin addr .. addr + n - 1 /\ a \in addr .. addr + Len(c) - 1
      BY <1>1, <2>1, <2>5
    <3>5. QED
      BY <2>2, <2>3, <2>4, <2>5, <3>1, <3>3, <3>4
  <2>6. CASE a \notin addr + n .. addr + Len(c) - 1
    <3>1. addr + n + Len(e) - 1 = addr + Len(c) - 1
      BY <1>1, <2>1
    <3>2. a \in addr .. addr + n - 1 <=> a \in addr .. addr + Len(c) - 1
      BY <2>1, <2>6
    <3>3. QED
      BY <2>2, <2>3, <2>4, <2>6, <3>1, <3>2
  <2>7. QED
    BY <2>5, <2>6
<1>3. Written(Written(contents, addr, b), addr + n, e) = Written(contents, addr, c)
  <2>1. /\ Written(Written(contents, addr, b), addr + n, e)
             = [a \in FlashAddress |-> Written(Written(contents, addr, b), addr + n, e)[a]]
        /\ Written(contents, addr, c) = [a \in FlashAddress |-> Written(contents, addr, c)[a]]
    BY DEF Written
  <2>2. QED
    BY <1>2, <2>1, Zenon
<1>4. QED
  BY <1>1, <1>3 DEF b, e

(* The commands that change the flash, and what they do.                   *)
Item == {"WREN", "CE", "SE", "PP"} \cup Nat \cup SUBSET Bits
Commands ==
  {cmd \in Seq(Item) : \/ cmd = <<"CE">>
                       \/ Len(cmd) = 2 /\ cmd[1] = "SE"
                       \/ Len(cmd) > 2 /\ cmd[1] = "PP"}
Effect(contents, cmd) ==
  IF cmd = <<"CE">> THEN Erased(contents, FlashAddress)
  ELSE IF Len(cmd) = 2 THEN Erased(contents, SectorOf(cmd[2]))
  ELSE Programmed(contents, cmd[2], SubSeq(cmd, 3, Len(cmd)))
Contents == [FlashAddress -> SUBSET Bits]
WorkItem == {<<"wait">>, <<"cs_n">>} \cup {<<"byte", x>> : x \in Item}

(* What an operation still has to do of the command it is at.              *)
Ending       == cs_n \o wait_for_it
StillToSend(cmd) == Send(cmd) \o Ending
Enabling(cmd) == <<<<"byte", "WREN">>>> \o (<<<<"cs_n">>>> \o StillToSend(cmd))

(* What is left to be written, on top of what will be there by then.       *)
AndTheRest(contents) == Written(contents, left.addr, left.c)

ChipTypeOK ==
  /\ DOMAIN chip = {"contents", "wel", "wip", "selected"}
  /\ chip.contents \in Contents /\ chip.wel \in BOOLEAN /\ chip.wip \in BOOLEAN

FlashTypeOK ==
  /\ ChipTypeOK
  /\ left.addr \in Nat /\ left.c \in Seq(SUBSET Bits)
  /\ left.c # << >> => left.addr + Len(left.c) - 1 \in FlashAddress
  /\ op = "none" => work = << >> /\ left.c = << >> /\ chip.selected = << >>

(* Where it is in its work, and that the chip has followed.                *)
BetweenCommands ==
  /\ work = << >> /\ chip.selected = << >> /\ promised = AndTheRest(chip.contents)
  /\ left.c = << >> => ~ chip.wip
Entering(cmd) ==
  /\ chip.selected = << >> /\ promised = AndTheRest(Effect(chip.contents, cmd))
  /\ \/ work = <<<<"wait">>>> \o Enabling(cmd)
     \/ work = Enabling(cmd) /\ ~ chip.wip
EnableSent(cmd) ==
  /\ chip.selected = <<"WREN">> /\ promised = AndTheRest(Effect(chip.contents, cmd))
  /\ work = <<<<"cs_n">>>> \o StillToSend(cmd) /\ ~ chip.wip
HalfSent(cmd) ==
  /\ promised = AndTheRest(Effect(chip.contents, cmd)) /\ chip.wel /\ ~ chip.wip
  /\ \E rest \in Seq(Item) :
       chip.selected \in Seq(Item) /\ chip.selected \o rest = cmd /\ work = StillToSend(rest)
Executed ==
  chip.selected = << >> /\ promised = AndTheRest(chip.contents) /\ work = <<<<"wait">>>>

Progress ==
  \/ BetweenCommands \/ Executed
  \/ \E cmd \in Commands : Entering(cmd) \/ EnableSent(cmd) \/ HalfSent(cmd)

FlashInv == FlashTypeOK /\ (op # "none" => Progress)

(* The work of a command, piece by piece.                                  *)
LEMMA Peel ==
  ASSUME NEW x \in WorkItem, NEW s \in Seq(WorkItem)
  PROVE  /\ <<x>> \o s \in Seq(WorkItem) /\ <<x>> \o s # << >>
         /\ Head(<<x>> \o s) = x /\ Tail(<<x>> \o s) = s
OBVIOUS

(* Work is put together in any order.                                      *)
Reorders(x, y, z) == (x \o y) \o z = x \o (y \o z)

LEMMA WorkIsJoined == \A x, y, z \in Seq(WorkItem) : x \o y \in Seq(WorkItem) /\ Reorders(x, y, z)
<1>1. \A x, y \in Seq(WorkItem) : x \o y \in Seq(WorkItem)
  BY ConcatProperties
<1>2. \A x, y, z \in Seq(WorkItem) : Reorders(x, y, z)
  BY ConcatAssociative DEF Reorders
<1>3. QED
  BY <1>1, <1>2

(* The bytes of a command as work, taken from the front.                   *)
LEMMA SentItems ==
  ASSUME NEW cmd \in Seq(Item)
  PROVE  /\ Send(cmd) \in Seq(WorkItem) /\ StillToSend(cmd) \in Seq(WorkItem) /\ Enabling(cmd) \in Seq(WorkItem)
         /\ cmd = << >> => StillToSend(cmd) = <<<<"cs_n">>>> \o <<<<"wait">>>>
         /\ cmd # << >> => /\ StillToSend(cmd) = <<<<"byte", Head(cmd)>>>> \o StillToSend(Tail(cmd))
                           /\ Head(cmd) \in Item /\ Tail(cmd) \in Seq(Item)
<1>1. /\ <<"wait">> \in WorkItem /\ <<"cs_n">> \in WorkItem /\ <<"byte", "WREN">> \in WorkItem
      /\ \A x \in Item : <<"byte", x>> \in WorkItem
  <2>1. "WREN" \in Item
    BY DEF Item
  <2>2. QED
    BY <2>1 DEF WorkItem
<1>2. Ending = <<<<"cs_n">>>> \o <<<<"wait">>>> /\ Ending \in Seq(WorkItem)
  BY <1>1, Peel DEF Ending, cs_n, wait_for_it
<1>3. ASSUME NEW c \in Seq(Item)
      PROVE  /\ Send(c) \in Seq(WorkItem) /\ StillToSend(c) \in Seq(WorkItem) /\ Len(Send(c)) = Len(c)
             /\ \A k \in 1 .. Len(c) : Send(c)[k] = <<"byte", c[k]>>
  <2>1. DOMAIN c = 1 .. Len(c) /\ Len(c) \in Nat /\ \A k \in 1 .. Len(c) : c[k] \in Item
    OBVIOUS
  <2>2. Send(c) = [k \in 1 .. Len(c) |-> <<"byte", c[k]>>] /\ \A k \in 1 .. Len(c) : <<"byte", c[k]>> \in WorkItem
    BY <1>1, <2>1 DEF Send
  <2>3. Send(c) \in Seq(WorkItem) /\ Len(Send(c)) = Len(c)
    BY <2>1, <2>2
  <2>4. \A k \in 1 .. Len(c) : Send(c)[k] = <<"byte", c[k]>>
    BY <2>2
  <2>5. QED
    BY <1>2, <2>3, <2>4 DEF StillToSend
<1>4. Enabling(cmd) \in Seq(WorkItem)
  BY <1>1, <1>3, Peel DEF Enabling
<1>5. ASSUME cmd = << >> PROVE StillToSend(cmd) = <<<<"cs_n">>>> \o <<<<"wait">>>>
  <2>1. Send(cmd) = << >>
    BY <1>5 DEF Send
  <2>2. << >> \o Ending = Ending
    BY <1>2
  <2>3. QED
    BY <1>2, <2>1, <2>2 DEF StillToSend
<1>6. ASSUME cmd # << >>
      PROVE  /\ StillToSend(cmd) = <<<<"byte", Head(cmd)>>>> \o StillToSend(Tail(cmd))
             /\ Head(cmd) \in Item /\ Tail(cmd) \in Seq(Item)
  <2>1. /\ Head(cmd) \in Item /\ Tail(cmd) \in Seq(Item) /\ Len(Tail(cmd)) = Len(cmd) - 1 /\ Len(cmd) \in Nat
        /\ Len(cmd) > 0 /\ Head(cmd) = cmd[1] /\ \A k \in 1 .. Len(cmd) - 1 : Tail(cmd)[k] = cmd[k + 1]
        /\ DOMAIN cmd = 1 .. Len(cmd) /\ DOMAIN Tail(cmd) = 1 .. Len(cmd) - 1
    BY <1>6
  <2>2. PICK x \in WorkItem : x = <<"byte", Head(cmd)>>
    BY <1>1, <2>1
  <2>3. PICK u \in Seq(WorkItem) : u = Send(Tail(cmd)) /\ Len(u) = Len(cmd) - 1
                                 /\ \A k \in 1 .. Len(cmd) - 1 : u[k] = <<"byte", Tail(cmd)[k]>>
    <3>1. /\ Send(Tail(cmd)) \in Seq(WorkItem) /\ Len(Send(Tail(cmd))) = Len(Tail(cmd))
          /\ \A k \in 1 .. Len(Tail(cmd)) : Send(Tail(cmd))[k] = <<"byte", Tail(cmd)[k]>>
      BY <1>3, <2>1
    <3>2. QED
      BY <3>1, <2>1
  <2>4. PICK n \in Nat : n = Len(cmd)
    BY <2>1
  <2>5. /\ Send(cmd) \in Seq(WorkItem) /\ Len(Send(cmd)) = n
        /\ \A k \in 1 .. n : Send(cmd)[k] = <<"byte", cmd[k]>>
    BY <1>3, <2>4
  <2>6. PICK h \in Seq(WorkItem) : h = <<x>> /\ Len(h) = 1 /\ h[1] = x
    <3>1. <<x>> \in Seq(WorkItem) /\ Len(<<x>>) = 1 /\ <<x>>[1] = x
      OBVIOUS
    <3>2. QED
      BY <3>1
  <2>7. Send(cmd) = h \o u
    <3>1. Len(h) + Len(u) = n
      BY <2>3, <2>4, <2>6
    <3>2. /\ h \o u \in Seq(WorkItem) /\ Len(h \o u) = n
          /\ \A k \in 1 .. n : (h \o u)[k] = IF k <= Len(h) THEN h[k] ELSE u[k - Len(h)]
      BY <3>1, ConcatProperties
    <3>3. ASSUME NEW k \in 1 .. n PROVE (h \o u)[k] = Send(cmd)[k]
      <4>1. CASE k = 1
        <5>1. (h \o u)[k] = x
          BY <4>1, <3>2, <2>6
        <5>2. QED
          BY <5>1, <4>1, <2>1, <2>2, <2>5
      <4>2. CASE k # 1
        <5>1. PICK i \in 1 .. n - 1 : i = k - 1 /\ i + 1 = k
          BY <4>2
        <5>2. (h \o u)[k] = u[i]
          BY <5>1, <3>2, <2>6
        <5>3. u[i] = <<"byte", Tail(cmd)[i]>> /\ Tail(cmd)[i] = cmd[i + 1]
          BY <5>1, <2>1, <2>3, <2>4
        <5>4. QED
          BY <5>1, <5>2, <5>3, <2>5
      <4>3. QED
        BY <4>1, <4>2
    <3>4. QED
      <4>1. PICK p \in Seq(WorkItem), q \in Seq(WorkItem) : p = Send(cmd) /\ q = h \o u
        BY <2>5, <3>2
      <4>2. Len(p) = Len(q) /\ \A k \in 1 .. Len(p) : p[k] = q[k]
        BY <4>1, <2>5, <3>2, <3>3
      <4>3. p = q
        BY <4>2, SeqEqual
      <4>4. QED
        BY <4>1, <4>3
  <2>8. (h \o u) \o Ending = h \o (u \o Ending)
    <3>1. Reorders(h, u, Ending)
      BY <1>2, WorkIsJoined, Zenon
    <3>2. QED
      BY <3>1, Zenon DEF Reorders
  <2>9. QED
    BY <2>1, <2>2, <2>3, <2>6, <2>7, <2>8, Zenon DEF StillToSend
<1>7. QED
  BY <1>3, <1>4, <1>5, <1>6

(* Six pieces, from the left as from the right.                            *)
LEMMA FiveParts ==
  ASSUME NEW a \in Seq(WorkItem), NEW b \in Seq(WorkItem), NEW c \in Seq(WorkItem),
         NEW d \in Seq(WorkItem), NEW e \in Seq(WorkItem), NEW f \in Seq(WorkItem)
  PROVE  ((((a \o b) \o c) \o d) \o e) \o f = a \o (b \o (c \o (d \o (e \o f))))
<1>1. PICK ab \in Seq(WorkItem) : ab = a \o b
  BY WorkIsJoined, Zenon
<1>2. PICK abc \in Seq(WorkItem) : abc = ab \o c
  BY WorkIsJoined, Zenon
<1>3. PICK abcd \in Seq(WorkItem) : abcd = abc \o d
  BY WorkIsJoined, Zenon
<1>4. PICK ef \in Seq(WorkItem) : ef = e \o f
  BY WorkIsJoined, Zenon
<1>5. PICK def \in Seq(WorkItem) : def = d \o ef
  BY WorkIsJoined, Zenon
<1>6. PICK cdef \in Seq(WorkItem) : cdef = c \o def
  BY WorkIsJoined, Zenon
<1>7. (abcd \o e) \o f = abcd \o ef
  <2>1. Reorders(abcd, e, f)
    BY WorkIsJoined
  <2>2. QED
    BY <2>1, <1>4 DEF Reorders
<1>8. abcd \o ef = abc \o def
  <2>1. Reorders(abc, d, ef)
    BY WorkIsJoined
  <2>2. QED
    BY <2>1, <1>3, <1>5 DEF Reorders
<1>9. abc \o def = ab \o cdef
  <2>1. Reorders(ab, c, def)
    BY WorkIsJoined
  <2>2. QED
    BY <2>1, <1>2, <1>6 DEF Reorders
<1>10. ab \o cdef = a \o (b \o cdef)
  <2>1. Reorders(a, b, cdef)
    BY WorkIsJoined
  <2>2. QED
    BY <2>1, <1>1 DEF Reorders
<1>11. QED
  BY <1>1, <1>2, <1>3, <1>4, <1>5, <1>6, <1>7, <1>8, <1>9, <1>10, Zenon

(* What Enabled sends is the wait, the write enable and the command.       *)
LEMMA EnabledWork ==
  ASSUME NEW cmd \in Seq(Item)
  PROVE  Enabled(cmd) = <<<<"wait">>>> \o Enabling(cmd)
<1>1. PICK w \in Seq(WorkItem), e \in Seq(WorkItem), c \in Seq(WorkItem), m \in Seq(WorkItem) :
        w = <<<<"wait">>>> /\ e = <<<<"byte", "WREN">>>> /\ c = <<<<"cs_n">>>> /\ m = Send(cmd)
  <2>1. <<"wait">> \in WorkItem /\ <<"cs_n">> \in WorkItem /\ <<"byte", "WREN">> \in WorkItem
    BY DEF WorkItem, Item
  <2>2. <<<<"wait">>>> \in Seq(WorkItem) /\ <<<<"cs_n">>>> \in Seq(WorkItem) /\ <<<<"byte", "WREN">>>> \in Seq(WorkItem)
    BY <2>1
  <2>3. QED
    BY <2>2, SentItems
<1>2. Send(<<"WREN">>) = e
  BY <1>1 DEF Send
<1>3. Enabled(cmd) = w \o e \o c \o m \o c \o w
  BY <1>1, <1>2, Zenon DEF Enabled, wait_for_it, cs_n
<1>4. Enabling(cmd) = e \o (c \o (m \o (c \o w)))
  BY <1>1, Zenon DEF Enabling, StillToSend, Ending, cs_n, wait_for_it
<1>5. ((((w \o e) \o c) \o m) \o c) \o w = w \o (e \o (c \o (m \o (c \o w))))
  BY <1>1, FiveParts
<1>6. QED
  BY <1>1, <1>3, <1>4, <1>5, Zenon

(* Programming and erasing leave sets of bits.                             *)
LEMMA ContentsStay ==
  ASSUME NEW contents \in Contents, NEW addresses, NEW addr, NEW c
  PROVE  /\ Erased(contents, addresses) \in Contents
         /\ Programmed(contents, addr, c) \in Contents
<1>1. \A a \in FlashAddress : \A s : contents[a] \subseteq Bits /\ contents[a] \cap s \subseteq Bits
  BY DEF Contents
<1>2. Erased(contents, addresses) \in Contents
  BY <1>1 DEF Erased, Contents
<1> DEFINE page == SPIFLASH_PAGE_SIZE * (addr \div SPIFLASH_PAGE_SIZE)
           Hits(a) == {k \in DOMAIN c : page + ((addr + k - 1) % SPIFLASH_PAGE_SIZE) = a}
           Byte(a) == c[CHOOSE k \in Hits(a) : \A j \in Hits(a) : j <= k]
<1>3. Programmed(contents, addr, c) =
        [a \in FlashAddress |-> IF Hits(a) = {} THEN contents[a] ELSE contents[a] \cap Byte(a)]
  BY Zenon DEF Programmed
<1> HIDE DEF Hits, Byte
<1>4. [a \in FlashAddress |-> IF Hits(a) = {} THEN contents[a] ELSE contents[a] \cap Byte(a)] \in Contents
  BY <1>1 DEF Contents
<1>5. QED
  BY <1>2, <1>3, <1>4

(* Writing nothing changes nothing.                                        *)
LEMMA NothingWritten ==
  ASSUME NEW contents \in Contents, NEW addr \in Nat
  PROVE  Written(contents, addr, << >>) = contents
<1>1. \A a \in FlashAddress : a \notin addr .. addr + Len(<< >>) - 1
  BY FlashSizes
<1>2. Written(contents, addr, << >>) = [a \in FlashAddress |-> contents[a]]
  BY <1>1 DEF Written
<1>3. QED
  BY <1>2 DEF Contents

(* A sequence is its first element before the others.                      *)
LEMMA FirstAndRest ==
  ASSUME NEW s \in Seq(Item), s # << >>
  PROVE  s = <<Head(s)>> \o Tail(s) /\ Head(s) \in Item /\ Tail(s) \in Seq(Item)
<1>1. PICK n \in Nat \ {0} : n = Len(s)
  OBVIOUS
<1>2. PICK x \in Item, r \in Seq(Item) : /\ x = Head(s) /\ x = s[1] /\ r = Tail(s) /\ Len(r) = n - 1
                                         /\ \A k \in 1 .. n - 1 : r[k] = s[k + 1]
  <2>1. Head(s) \in Item /\ Tail(s) \in Seq(Item) /\ Len(Tail(s)) = n - 1
    BY <1>1
  <2>2. Head(s) = s[1] /\ \A k \in 1 .. n - 1 : Tail(s)[k] = s[k + 1]
    BY <1>1
  <2>3. QED
    BY <2>1, <2>2
<1>3. PICK h \in Seq(Item) : h = <<x>> /\ Len(h) = 1 /\ h[1] = x
  <2>1. <<x>> \in Seq(Item) /\ Len(<<x>>) = 1 /\ <<x>>[1] = x
    OBVIOUS
  <2>2. QED
    BY <2>1
<1>4. PICK p \in Seq(Item) : /\ p = h \o r /\ Len(p) = n
                            /\ \A k \in 1 .. n : p[k] = IF k <= 1 THEN h[k] ELSE r[k - 1]
  <2>1. h \o r \in Seq(Item) /\ Len(h \o r) = Len(h) + Len(r)
    BY ConcatProperties
  <2>2. Len(h) + Len(r) = n
    BY <1>2, <1>3
  <2>3. \A k \in 1 .. Len(h) + Len(r) : (h \o r)[k] = IF k <= Len(h) THEN h[k] ELSE r[k - Len(h)]
    BY ConcatProperties
  <2>4. QED
    BY <1>3, <2>1, <2>2, <2>3
<1>5. ASSUME NEW k \in 1 .. n PROVE p[k] = s[k]
  <2>1. CASE k = 1
    BY <1>2, <1>3, <1>4, <2>1
  <2>2. CASE k # 1
    <3>1. PICK i \in 1 .. n - 1 : i = k - 1 /\ i + 1 = k
      BY <2>2
    <3>2. p[k] = r[i]
      BY <1>4, <2>2, <3>1
    <3>3. QED
      BY <1>2, <3>1, <3>2
  <2>3. QED
    BY <2>1, <2>2
<1>6. p = s
  BY <1>1, <1>4, <1>5, SeqEqual
<1>7. QED
  BY <1>2, <1>3, <1>4, <1>6

(* What the chip does when it is deselected: nothing if nothing was sent,  *)
(* and what it was sent if it is ready and enabled.                        *)
LEMMA DeselectedObeys ==
  ASSUME ChipTypeOK
  PROVE  /\ Deselected.contents \in Contents /\ Deselected.wel \in BOOLEAN
         /\ Deselected.wip \in BOOLEAN /\ Deselected.selected = << >>
         /\ chip.selected = << >> =>
              /\ Deselected.contents = chip.contents
              /\ Deselected.wel = chip.wel /\ Deselected.wip = chip.wip
         /\ chip.selected = <<"WREN">> /\ ~ chip.wip =>
              Deselected.contents = chip.contents /\ Deselected.wel = TRUE /\ Deselected.wip = FALSE
         /\ chip.selected \in Commands /\ ~ chip.wip /\ chip.wel =>
              Deselected.contents = Effect(chip.contents, chip.selected)
<1> DEFINE s == chip.selected
           idle == [chip EXCEPT !.selected = << >>]
           Changed(contents) == [idle EXCEPT !.contents = contents, !.wel = FALSE, !.wip = TRUE]
<1>1. /\ DOMAIN idle = DOMAIN chip /\ idle.selected = << >> /\ idle.contents = chip.contents
      /\ idle.wel = chip.wel /\ idle.wip = chip.wip
  BY DEF ChipTypeOK
<1>2. ASSUME NEW contents
      PROVE  /\ Changed(contents).contents = contents /\ Changed(contents).wel = FALSE
             /\ Changed(contents).wip = TRUE /\ Changed(contents).selected = << >>
  BY DEF ChipTypeOK
<1>3. /\ [idle EXCEPT !.wel = TRUE].contents = chip.contents /\ [idle EXCEPT !.wel = TRUE].wel = TRUE
      /\ [idle EXCEPT !.wel = TRUE].wip = chip.wip /\ [idle EXCEPT !.wel = TRUE].selected = << >>
  BY DEF ChipTypeOK
<1>4. /\ << >> \notin Commands /\ <<"WREN">> \notin Commands /\ <<"WREN">> # << >> /\ <<"CE">> # <<"WREN">>
      /\ \A cmd \in Commands : cmd = <<"CE">> \/ (Len(cmd) = 2 /\ cmd[1] = "SE") \/ (Len(cmd) > 2 /\ cmd[1] = "PP")
      /\ \A cmd : Len(cmd) = 2 \/ Len(cmd) > 2 => cmd # <<"CE">>
      /\ \A cmd \in Commands : Len(cmd) > 2 => Len(cmd) # 2
  <2>1. Len(<<"CE">>) = 1 /\ Len(<<"WREN">>) = 1 /\ Len(<< >>) = 0 /\ <<"WREN">> # <<"CE">> /\ <<"WREN">> # << >>
    OBVIOUS
  <2>2. \A cmd \in Commands : cmd \in Seq(Item) /\ Len(cmd) \in Nat
    BY DEF Commands
  <2>3. \A cmd \in Commands : cmd = <<"CE">> \/ (Len(cmd) = 2 /\ cmd[1] = "SE") \/ (Len(cmd) > 2 /\ cmd[1] = "PP")
    BY DEF Commands
  <2>4. \A cmd : Len(cmd) = 2 \/ Len(cmd) > 2 => cmd # <<"CE">>
    BY <2>1
  <2>5. << >> \notin Commands /\ <<"WREN">> \notin Commands
    <3>1. ~ (Len(<< >>) > 2) /\ ~ (Len(<<"WREN">>) > 2)
      BY <2>1
    <3>2. << >> # <<"CE">>
      BY <2>1
    <3>3. QED
      BY <2>1, <2>3, <3>1, <3>2
  <2>6. \A cmd \in Commands : Len(cmd) > 2 => Len(cmd) # 2
    <3>1. \A k \in Nat : k > 2 => k # 2
      OBVIOUS
    <3>2. QED
      BY <2>2, <3>1
  <2>7. QED
    BY <2>1, <2>3, <2>4, <2>5, <2>6
<1>5. CASE s = << >> \/ chip.wip
  <2>1. Deselected = idle
    BY <1>5 DEF Deselected
  <2>2. QED
    BY <1>1, <1>4, <1>5, <2>1 DEF ChipTypeOK
<1>6. CASE ~ (s = << >> \/ chip.wip) /\ s = <<"WREN">>
  <2>1. Deselected = [idle EXCEPT !.wel = TRUE]
    BY <1>6 DEF Deselected
  <2> HIDE DEF idle
  <2>2. QED
    BY <1>3, <1>4, <1>6, <2>1 DEF ChipTypeOK
<1> DEFINE Idle == ~ (s = << >> \/ chip.wip) /\ s # <<"WREN">>
<1>7. CASE Idle /\ chip.wel /\ s = <<"CE">>
  <2>1. Deselected = Changed(Erased(chip.contents, FlashAddress))
    BY <1>7 DEF Deselected
  <2>2. Erased(chip.contents, FlashAddress) \in Contents
    BY ContentsStay DEF ChipTypeOK
  <2>3. Effect(chip.contents, s) = Erased(chip.contents, FlashAddress)
    BY <1>7 DEF Effect
  <2> HIDE DEF Changed
  <2>4. QED
    BY <1>2, <1>7, <2>1, <2>2, <2>3
<1> DEFINE IsErase == Len(s) = 2 /\ s[1] = "SE"
           IsProgram == Len(s) > 2 /\ s[1] = "PP"
<1>8. CASE Idle /\ ~ (chip.wel /\ s = <<"CE">>) /\ chip.wel /\ IsErase
  <2>1. Deselected = Changed(Erased(chip.contents, SectorOf(s[2])))
    BY <1>8 DEF Deselected
  <2>2. Erased(chip.contents, SectorOf(s[2])) \in Contents
    BY ContentsStay DEF ChipTypeOK
  <2>3. Effect(chip.contents, s) = Erased(chip.contents, SectorOf(s[2]))
    BY <1>8 DEF Effect
  <2> HIDE DEF Changed
  <2>4. QED
    BY <1>2, <1>8, <2>1, <2>2, <2>3
<1>9. CASE Idle /\ ~ (chip.wel /\ s = <<"CE">>) /\ ~ (chip.wel /\ IsErase) /\ chip.wel /\ IsProgram
  <2>1. Deselected = Changed(Programmed(chip.contents, s[2], SubSeq(s, 3, Len(s))))
    BY <1>9 DEF Deselected
  <2>2. Programmed(chip.contents, s[2], SubSeq(s, 3, Len(s))) \in Contents
    BY ContentsStay DEF ChipTypeOK
  <2>3. s \in Commands => Effect(chip.contents, s) = Programmed(chip.contents, s[2], SubSeq(s, 3, Len(s)))
    <3>1. s \in Commands => s # <<"CE">> /\ Len(s) # 2
      BY <1>4, <1>9
    <3>2. QED
      BY <3>1, Zenon DEF Effect
  <2> HIDE DEF Changed
  <2>4. QED
    BY <1>2, <1>9, <2>1, <2>2, <2>3
<1>10. CASE /\ Idle /\ ~ (chip.wel /\ s = <<"CE">>)
            /\ ~ (chip.wel /\ IsErase) /\ ~ (chip.wel /\ IsProgram)
  <2>1. Deselected = idle
    BY <1>10 DEF Deselected
  <2>2. ~ (s \in Commands /\ chip.wel)
    BY <1>4, <1>10
  <2> HIDE DEF idle
  <2>3. QED
    BY <1>1, <1>10, <2>1, <2>2 DEF ChipTypeOK
<1>11. QED
  BY <1>5, <1>6, <1>7, <1>8, <1>9, <1>10

(* The commands of the three operations, and what each does.               *)
LEMMA OperationCommands ==
  /\ <<"CE">> \in Commands
  /\ \A contents : Effect(contents, <<"CE">>) = Erased(contents, FlashAddress)
  /\ \A addr \in FlashAddress :
       \E cmd \in Commands :
         /\ erase_flash_sector(addr) = Enabled(cmd)
         /\ \A contents : Effect(contents, cmd) = Erased(contents, SectorOf(addr))
  /\ \A addr \in Nat, c \in Seq(SUBSET Bits) \ {<< >>} :
       \E cmd \in Commands :
         /\ write_to_flash_page(addr, c) = Enabled(cmd)
         /\ \A contents : Effect(contents, cmd) = Programmed(contents, addr, c)
<1>1. <<"CE">> \in Commands
  BY DEF Commands, Item
<1>2. \A contents : Effect(contents, <<"CE">>) = Erased(contents, FlashAddress)
  BY DEF Effect
<1>3. ASSUME NEW addr \in FlashAddress
      PROVE  \E cmd \in Commands :
               /\ erase_flash_sector(addr) = Enabled(cmd)
               /\ \A contents : Effect(contents, cmd) = Erased(contents, SectorOf(addr))
  <2>1. PICK d \in Nat \ {0} : d = SPIFLASH_SECTOR_SIZE
    BY FlashSizes
  <2>2. PICK n \in Nat : n = addr
    BY FlashSizes
  <2>3. PICK q \in Nat, r \in 0 .. d - 1 : n = d * q + r /\ q = n \div d
    <3>1. n \div d \in Nat /\ n % d \in 0 .. d - 1 /\ n = d * (n \div d) + (n % d)
      OBVIOUS
    <3>2. QED
      BY <3>1
  <2>4. PICK x \in Nat : x = d * q
    OBVIOUS
  <2>5. x \div d = q
    BY <2>4, Quotient
  <2>6. PICK cmd : cmd = <<"SE", SPIFLASH_SECTOR_SIZE * (addr \div SPIFLASH_SECTOR_SIZE)>>
    OBVIOUS
  <2>7. cmd = <<"SE", x>>
    BY <2>1, <2>2, <2>3, <2>4, <2>6
  <2>8. cmd \in Seq(Item) /\ Len(cmd) = 2 /\ cmd[1] = "SE" /\ cmd[2] = x
    BY <2>7 DEF Item
  <2>9. cmd \in Commands
    BY <2>8 DEF Commands
  <2>10. x \div SPIFLASH_SECTOR_SIZE = addr \div SPIFLASH_SECTOR_SIZE
    BY <2>1, <2>2, <2>3, <2>5
  <2>11. SectorOf(x) = SectorOf(addr)
    BY <2>10, Zenon DEF SectorOf
  <2>12. cmd # <<"CE">>
    BY <2>7
  <2>13. \A contents : Effect(contents, cmd) = Erased(contents, SectorOf(addr))
    BY <2>8, <2>11, <2>12 DEF Effect
  <2>14. erase_flash_sector(addr) = Enabled(cmd)
    BY <2>6, Zenon DEF erase_flash_sector
  <2>15. QED
    BY <2>9, <2>13, <2>14
<1>4. ASSUME NEW addr \in Nat, NEW c \in Seq(SUBSET Bits) \ {<< >>}
      PROVE  \E cmd \in Commands :
               /\ write_to_flash_page(addr, c) = Enabled(cmd)
               /\ \A contents : Effect(contents, cmd) = Programmed(contents, addr, c)
  <2>1. PICK h \in Seq(Item) : h = <<"PP", addr>> /\ Len(h) = 2 /\ h[1] = "PP" /\ h[2] = addr
    <3>1. "PP" \in Item /\ addr \in Item
      BY DEF Item
    <3>2. <<"PP", addr>> \in Seq(Item)
      BY <3>1
    <3>3. Len(<<"PP", addr>>) = 2 /\ <<"PP", addr>>[1] = "PP" /\ <<"PP", addr>>[2] = addr
      OBVIOUS
    <3>4. QED
      BY <3>2, <3>3, Zenon
  <2>2. c \in Seq(Item) /\ Len(c) \in Nat \ {0} /\ c # << >>
    BY DEF Item
  <2>3. PICK n \in Nat \ {0} : n = Len(c)
    BY <2>2
  <2>4. PICK cmd \in Seq(Item) : /\ cmd = h \o c /\ Len(cmd) = n + 2 /\ cmd[1] = h[1] /\ cmd[2] = h[2]
                                 /\ \A k \in 1 .. n : cmd[k + 2] = c[k]
    <3>1. /\ h \o c \in Seq(Item) /\ Len(h \o c) = n + 2
          /\ \A k \in 1 .. n + 2 : (h \o c)[k] = IF k <= 2 THEN h[k] ELSE c[k - 2]
      BY <2>1, <2>2, <2>3, ConcatProperties
    <3>2. /\ (h \o c)[1] = h[1] /\ (h \o c)[2] = h[2]
          /\ \A k \in 1 .. n : (h \o c)[k + 2] = c[k]
      <4>1. (h \o c)[1] = h[1] /\ (h \o c)[2] = h[2]
        <5>1. PICK i \in 1 .. n + 2, j \in 1 .. n + 2 : i = 1 /\ j = 2 /\ i <= 2 /\ j <= 2
          OBVIOUS
        <5>2. (h \o c)[i] = h[i] /\ (h \o c)[j] = h[j]
          BY <3>1, <5>1
        <5>3. QED
          BY <5>1, <5>2
      <4>2. ASSUME NEW k \in 1 .. n PROVE (h \o c)[k + 2] = c[k]
        <5>1. PICK i \in 1 .. n + 2 : i = k + 2 /\ i - 2 = k /\ ~ (i <= 2)
          OBVIOUS
        <5>2. QED
          BY <3>1, <5>1
      <4>3. QED
        BY <4>1, <4>2
    <3>3. QED
      BY <3>1, <3>2
  <2>5. cmd \in Commands
    <3>1. Len(cmd) > 2 /\ cmd[1] = "PP"
      BY <2>1, <2>4
    <3>2. QED
      BY <3>1 DEF Commands
  <2>6. SubSeq(cmd, 3, Len(cmd)) = c
    <3>1. PICK p \in Seq(Item) : /\ p = SubSeq(cmd, 3, n + 2) /\ Len(p) = n
                                 /\ \A k \in 1 .. n : p[k] = cmd[k + 2]
      <4>1. /\ SubSeq(cmd, 3, n + 2) \in Seq(Item) /\ Len(SubSeq(cmd, 3, n + 2)) = n
            /\ \A k \in 1 .. n : SubSeq(cmd, 3, n + 2)[k] = cmd[k + 2]
        BY <2>4
      <4>2. QED
        BY <4>1
    <3>2. \A k \in 1 .. n : p[k] = c[k]
      BY <2>4, <3>1
    <3>3. PICK e \in Seq(Item) : e = c /\ Len(e) = n /\ \A k \in 1 .. n : e[k] = c[k]
      BY <2>2, <2>3
    <3>4. p = e
      BY <3>1, <3>2, <3>3, SeqEqual
    <3>5. QED
      BY <2>4, <3>1, <3>3, <3>4
  <2>7. Len(cmd) # 2 /\ cmd # <<"CE">>
    BY <2>4
  <2>8. \A contents : Effect(contents, cmd) = Programmed(contents, addr, c)
    BY <2>1, <2>4, <2>6, <2>7, Zenon DEF Effect
  <2>9. write_to_flash_page(addr, c) = Enabled(cmd)
    BY <2>1, <2>4, Zenon DEF write_to_flash_page
  <2>10. QED
    BY <2>5, <2>8, <2>9
<1>5. QED
  BY <1>1, <1>2, <1>3, <1>4

(* What is next to be done, in each place.                                 *)
LEMMA NextWork ==
  ASSUME NEW cmd \in Commands
  PROVE  /\ <<<<"wait">>>> \o Enabling(cmd) # << >>
         /\ Head(<<<<"wait">>>> \o Enabling(cmd)) = <<"wait">>
         /\ Tail(<<<<"wait">>>> \o Enabling(cmd)) = Enabling(cmd)
         /\ Enabling(cmd) # << >> /\ Head(Enabling(cmd)) = <<"byte", "WREN">>
         /\ Tail(Enabling(cmd)) = <<<<"cs_n">>>> \o StillToSend(cmd)
         /\ <<<<"cs_n">>>> \o StillToSend(cmd) # << >>
         /\ Head(<<<<"cs_n">>>> \o StillToSend(cmd)) = <<"cs_n">>
         /\ Tail(<<<<"cs_n">>>> \o StillToSend(cmd)) = StillToSend(cmd)
<1>1. cmd \in Seq(Item)
  BY DEF Commands
<1>2. <<"wait">> \in WorkItem /\ <<"cs_n">> \in WorkItem /\ <<"byte", "WREN">> \in WorkItem
  BY DEF WorkItem, Item
<1>3. PICK e \in Seq(WorkItem), s \in Seq(WorkItem), r \in Seq(WorkItem) :
        e = Enabling(cmd) /\ s = StillToSend(cmd) /\ r = <<<<"cs_n">>>> \o s
  BY <1>1, <1>2, SentItems, Peel
<1>4. e = <<<<"byte", "WREN">>>> \o r
  BY <1>3, Zenon DEF Enabling
<1>5. PICK w \in WorkItem, n \in WorkItem, b \in WorkItem : w = <<"wait">> /\ n = <<"cs_n">> /\ b = <<"byte", "WREN">>
  BY <1>2
<1>6. <<w>> \o e # << >> /\ Head(<<w>> \o e) = w /\ Tail(<<w>> \o e) = e
  BY Peel
<1>7. <<b>> \o r # << >> /\ Head(<<b>> \o r) = b /\ Tail(<<b>> \o r) = r
  BY Peel
<1>8. <<n>> \o s # << >> /\ Head(<<n>> \o s) = n /\ Tail(<<n>> \o s) = s
  BY Peel
<1>9. QED
  BY <1>3, <1>4, <1>5, <1>6, <1>7, <1>8, Zenon

LEMMA NextByte ==
  ASSUME NEW rest \in Seq(Item)
  PROVE  /\ StillToSend(rest) # << >>
         /\ rest = << >> => Head(StillToSend(rest)) = <<"cs_n">> /\ Tail(StillToSend(rest)) = <<<<"wait">>>>
         /\ rest # << >> => /\ Head(StillToSend(rest)) = <<"byte", Head(rest)>>
                            /\ Tail(StillToSend(rest)) = StillToSend(Tail(rest))
                            /\ Tail(rest) \in Seq(Item)
<1>1. <<"wait">> \in WorkItem /\ <<"cs_n">> \in WorkItem
  BY DEF WorkItem
<1>2. CASE rest = << >>
  <2>1. PICK n \in WorkItem, e \in Seq(WorkItem) : n = <<"cs_n">> /\ e = <<<<"wait">>>>
    <3>1. <<<<"wait">>>> \in Seq(WorkItem)
      BY <1>1
    <3>2. QED
      BY <1>1, <3>1
  <2>2. StillToSend(rest) = <<n>> \o e
    BY <1>2, <2>1, SentItems
  <2>3. <<n>> \o e # << >> /\ Head(<<n>> \o e) = n /\ Tail(<<n>> \o e) = e
    BY Peel
  <2>4. QED
    BY <1>2, <2>1, <2>2, <2>3, Zenon
<1>3. CASE rest # << >>
  <2>1. /\ StillToSend(rest) = <<<<"byte", Head(rest)>>>> \o StillToSend(Tail(rest))
        /\ Head(rest) \in Item /\ Tail(rest) \in Seq(Item)
    BY <1>3, SentItems
  <2>2. PICK b \in WorkItem, s \in Seq(WorkItem) : b = <<"byte", Head(rest)>> /\ s = StillToSend(Tail(rest))
    BY <2>1, SentItems DEF WorkItem
  <2>3. <<b>> \o s # << >> /\ Head(<<b>> \o s) = b /\ Tail(<<b>> \o s) = s
    BY Peel
  <2>4. QED
    BY <1>3, <2>1, <2>2, <2>3, Zenon
<1>4. QED
  BY <1>2, <1>3

(* Where the operation is, by what is next to be done.                     *)
LEMMA WhereItIs ==
  ASSUME FlashTypeOK, Progress
  PROVE  /\ work = << >> => BetweenCommands
         /\ work # << >> /\ Head(work)[1] = "wait" =>
              \/ Executed
              \/ \E cmd \in Commands : Entering(cmd) /\ work = <<<<"wait">>>> \o Enabling(cmd)
         /\ work # << >> /\ Head(work)[1] = "byte" =>
              \/ \E cmd \in Commands : Entering(cmd) /\ work = Enabling(cmd) /\ ~ chip.wip
              \/ \E cmd \in Commands, rest \in Seq(Item) :
                   /\ HalfSent(cmd) /\ chip.selected \in Seq(Item) /\ chip.selected \o rest = cmd
                   /\ work = StillToSend(rest) /\ rest # << >>
         /\ work # << >> /\ Head(work)[1] = "cs_n" =>
              \/ \E cmd \in Commands : EnableSent(cmd)
              \/ \E cmd \in Commands, rest \in Seq(Item) :
                   /\ HalfSent(cmd) /\ chip.selected \in Seq(Item) /\ chip.selected \o rest = cmd
                   /\ work = StillToSend(rest) /\ rest = << >>
<1>1. /\ \A x : <<"wait">>[1] = "wait" /\ <<"cs_n">>[1] = "cs_n" /\ <<"byte", x>>[1] = "byte"
      /\ "wait" # "byte" /\ "byte" # "cs_n" /\ "wait" # "cs_n"
  OBVIOUS
<1>2. CASE BetweenCommands
  BY <1>2 DEF BetweenCommands
<1>3. CASE Executed
  <2>1. work = <<<<"wait">>>> /\ work # << >> /\ Head(work) = <<"wait">>
    BY <1>3 DEF Executed
  <2>2. QED
    BY <1>1, <1>3, <2>1
<1>4. ASSUME NEW cmd \in Commands, Entering(cmd), work = <<<<"wait">>>> \o Enabling(cmd)
      PROVE  work # << >> /\ Head(work) = <<"wait">>
  BY <1>4, NextWork
<1>5. ASSUME NEW cmd \in Commands, Entering(cmd), work = Enabling(cmd), ~ chip.wip
      PROVE  work # << >> /\ Head(work) = <<"byte", "WREN">>
  BY <1>5, NextWork
<1>6. ASSUME NEW cmd \in Commands, EnableSent(cmd)
      PROVE  work # << >> /\ Head(work) = <<"cs_n">>
  BY <1>6, NextWork DEF EnableSent
<1>7. ASSUME NEW cmd \in Commands, NEW rest \in Seq(Item), HalfSent(cmd), chip.selected \in Seq(Item),
             chip.selected \o rest = cmd, work = StillToSend(rest)
      PROVE  /\ work # << >> /\ rest = << >> => Head(work) = <<"cs_n">>
             /\ rest # << >> => Head(work) = <<"byte", Head(rest)>>
  BY <1>7, NextByte
<1>8. CASE \E cmd \in Commands : Entering(cmd)
  <2>1. PICK cmd \in Commands : Entering(cmd)
    BY <1>8
  <2>2. CASE work = <<<<"wait">>>> \o Enabling(cmd)
    BY <1>1, <1>4, <2>1, <2>2
  <2>3. CASE work = Enabling(cmd) /\ ~ chip.wip
    BY <1>1, <1>5, <2>1, <2>3
  <2>4. QED
    BY <2>1, <2>2, <2>3 DEF Entering
<1>9. CASE \E cmd \in Commands : EnableSent(cmd)
  BY <1>1, <1>6, <1>9
<1>10. CASE \E cmd \in Commands : HalfSent(cmd)
  <2>1. PICK cmd \in Commands : HalfSent(cmd)
    BY <1>10
  <2>2. PICK rest \in Seq(Item) :
          chip.selected \in Seq(Item) /\ chip.selected \o rest = cmd /\ work = StillToSend(rest)
    BY <2>1 DEF HalfSent
  <2>3. CASE rest = << >>
    <3>1. work # << >> /\ Head(work) = <<"cs_n">>
      BY <1>7, <2>1, <2>2, <2>3, NextByte
    <3>2. QED
      BY <1>1, <2>1, <2>2, <2>3, <3>1
  <2>4. CASE rest # << >>
    <3>1. work # << >> /\ Head(work) = <<"byte", Head(rest)>>
      BY <1>7, <2>1, <2>2, <2>4, NextByte
    <3>2. QED
      BY <1>1, <2>1, <2>2, <2>4, <3>1
  <2>5. QED
    BY <2>3, <2>4
<1>11. QED
  BY <1>2, <1>3, <1>8, <1>9, <1>10 DEF Progress

(* What an operation promises is what it will have done.                   *)
LEMMA CalledFlash ==
  ASSUME FlashInv, flash_write_handler \/ flash_erase_handler \/ EraseSector
  PROVE  FlashInv'
<1>1. FlashTypeOK /\ ChipTypeOK /\ chip.contents \in Contents
  BY DEF FlashInv, FlashTypeOK, ChipTypeOK
<1>2. ASSUME NEW o, NEW bytes, NEW rest, NEW contents, CallFlash(o, bytes, rest, contents)
      PROVE  /\ chip' = chip /\ op' = o /\ work' = bytes /\ left' = rest /\ promised' = contents
             /\ chip.selected = << >>
  BY <1>1, <1>2 DEF CallFlash, FlashTypeOK
<1>3. ASSUME chip' = chip PROVE ChipTypeOK'
  BY <1>1, <1>3 DEF ChipTypeOK
<1>4. CASE flash_write_handler
  <2>1. PICK addr \in FlashAddress, c \in Texts :
          /\ addr + Len(c) - 1 \in FlashAddress
          /\ CallFlash("write", << >>, [addr |-> addr, c |-> c], Written(chip.contents, addr, c))
    BY <1>4 DEF flash_write_handler
  <2>2. addr \in Nat /\ c \in Seq(SUBSET Bits) /\ c # << >>
    BY FlashSizes, SpiFlashAssumption
  <2>3. /\ chip' = chip /\ op' = "write" /\ work' = << >> /\ left' = [addr |-> addr, c |-> c]
        /\ promised' = Written(chip.contents, addr, c) /\ chip.selected = << >>
    BY <1>2, <2>1
  <2>4. left'.addr = addr /\ left'.c = c
    BY <2>3
  <2>5. FlashTypeOK'
    BY <1>3, <2>1, <2>2, <2>3, <2>4 DEF FlashTypeOK
  <2>6. BetweenCommands'
    BY <2>2, <2>3, <2>4 DEF BetweenCommands, AndTheRest
  <2>7. QED
    BY <2>5, <2>6 DEF FlashInv, Progress
<1>5. ASSUME NEW o, o # "none", NEW cmd \in Commands, CallFlash(o, Enabled(cmd), NothingLeft, Effect(chip.contents, cmd)),
             Effect(chip.contents, cmd) \in Contents
      PROVE  FlashInv'
  <2>1. /\ chip' = chip /\ op' = o /\ work' = Enabled(cmd) /\ left' = NothingLeft
        /\ promised' = Effect(chip.contents, cmd) /\ chip.selected = << >>
    BY <1>2, <1>5
  <2>2. left'.addr = 0 /\ left'.c = << >>
    BY <2>1 DEF NothingLeft
  <2>3. FlashTypeOK'
    BY <1>3, <1>5, <2>1, <2>2 DEF FlashTypeOK
  <2>4. Written(Effect(chip.contents, cmd), 0, << >>) = Effect(chip.contents, cmd)
    BY <1>5, NothingWritten
  <2>5. work' = <<<<"wait">>>> \o Enabling(cmd)
    BY <2>1, EnabledWork DEF Commands
  <2>6. Entering(cmd)'
    BY <2>1, <2>2, <2>4, <2>5 DEF Entering, AndTheRest
  <2>7. QED
    BY <2>3, <2>6 DEF FlashInv, Progress
<1>6. CASE flash_erase_handler
  <2>1. CallFlash("erase", Enabled(<<"CE">>), NothingLeft, Effect(chip.contents, <<"CE">>))
    BY <1>6, OperationCommands DEF flash_erase_handler, erase_flash
  <2>2. Effect(chip.contents, <<"CE">>) \in Contents
    BY <1>1, OperationCommands, ContentsStay
  <2>3. PICK cmd \in Commands : cmd = <<"CE">>
    BY OperationCommands
  <2>4. QED
    BY <1>5, <2>1, <2>2, <2>3
<1>7. CASE EraseSector
  <2>1. PICK addr \in FlashAddress :
          CallFlash("sector", erase_flash_sector(addr), NothingLeft, Erased(chip.contents, SectorOf(addr)))
    BY <1>7 DEF EraseSector
  <2>2. PICK cmd \in Commands : /\ erase_flash_sector(addr) = Enabled(cmd)
                                /\ \A contents : Effect(contents, cmd) = Erased(contents, SectorOf(addr))
    BY OperationCommands
  <2>3. Effect(chip.contents, cmd) \in Contents
    BY <1>1, <2>2, ContentsStay
  <2>4. QED
    BY <1>5, <2>1, <2>2, <2>3
<1>8. QED
  BY <1>4, <1>6, <1>7

(* The next page: what is promised is the page and then the rest.          *)
LEMMA NextPage ==
  ASSUME FlashInv, write_to_flash
  PROVE  FlashInv'
<1>1. /\ FlashTypeOK /\ ChipTypeOK /\ chip.contents \in Contents /\ op # "none" /\ work = << >> /\ left.c # << >>
      /\ chip' = chip /\ op' = op /\ promised' = promised /\ Progress
      /\ left.addr \in Nat /\ left.c \in Seq(SUBSET Bits) /\ left.addr + Len(left.c) - 1 \in FlashAddress
  BY DEF FlashInv, FlashTypeOK, ChipTypeOK, write_to_flash
<1>2. BetweenCommands
  BY <1>1, WhereItIs
<1>3. PICK addr \in Nat, c \in Seq(SUBSET Bits) : addr = left.addr /\ c = left.c /\ c # << >>
  BY <1>1
<1>4. PICK n : n = SpiMin(ToPageEnd(addr), Len(c))
  OBVIOUS
<1>5. n \in 1 .. Len(c) /\ n <= ToPageEnd(addr)
  <2>1. Len(c) \in Nat \ {0}
    BY <1>3
  <2>2. ToPageEnd(addr) \in Nat \ {0}
    <3>1. PICK d \in Nat \ {0} : d = SPIFLASH_PAGE_SIZE
      BY FlashSizes
    <3>2. addr % d \in 0 .. d - 1
      OBVIOUS
    <3>3. QED
      BY <3>1, <3>2 DEF ToPageEnd
  <2>3. QED
    BY <1>4, <2>1, <2>2 DEF SpiMin
<1>6. PICK b \in Seq(SUBSET Bits), e \in Seq(SUBSET Bits) :
        /\ b = SubSeq(c, 1, n) /\ e = SubSeq(c, n + 1, Len(c)) /\ Len(b) = n /\ Len(e) = Len(c) - n
        /\ Written(Written(chip.contents, addr, b), addr + n, e) = Written(chip.contents, addr, c)
  BY <1>5, WrittenInParts
<1>7. b # << >>
  BY <1>5, <1>6
<1>8. work' = write_to_flash_page(addr, b) /\ left' = [addr |-> addr + n, c |-> e]
  BY <1>3, <1>4, <1>6 DEF write_to_flash
<1>9. PICK cmd \in Commands : /\ write_to_flash_page(addr, b) = Enabled(cmd)
                              /\ \A contents : Effect(contents, cmd) = Programmed(contents, addr, b)
  BY <1>7, OperationCommands
<1>10. Effect(chip.contents, cmd) = Written(chip.contents, addr, b)
  BY <1>5, <1>6, <1>9, PageProgrammed
<1>11. promised = Written(chip.contents, addr, c) /\ chip.selected = << >>
  BY <1>2, <1>3 DEF BetweenCommands, AndTheRest
<1>12. left'.addr = addr + n /\ left'.c = e
  BY <1>8
<1>13. work' = <<<<"wait">>>> \o Enabling(cmd)
  BY <1>8, <1>9, EnabledWork DEF Commands
<1>14. Entering(cmd)'
  BY <1>1, <1>6, <1>10, <1>11, <1>12, <1>13 DEF Entering, AndTheRest
<1>15. FlashTypeOK'
  <2>1. addr + n \in Nat /\ addr + n + Len(e) - 1 = addr + Len(c) - 1
    <3>1. PICK l \in Nat, r \in Nat : l = Len(c) /\ r = Len(e)
      OBVIOUS
    <3>2. n \in 1 .. l /\ r = l - n
      BY <1>5, <1>6, <3>1
    <3>3. addr + n \in Nat /\ addr + n + r - 1 = addr + l - 1
      BY <3>2
    <3>4. QED
      BY <3>1, <3>3
  <2>2. ChipTypeOK'
    BY <1>1 DEF ChipTypeOK
  <2>3. QED
    BY <1>1, <1>3, <1>6, <1>12, <2>1, <2>2 DEF FlashTypeOK
<1>16. QED
  BY <1>14, <1>15 DEF FlashInv, Progress

(* Waiting, sending a byte and deselecting take the operation further.     *)
LEMMA WorkStep ==
  ASSUME FlashInv, wait_for_device_ready \/ flash_write_byte \/ Deselect
  PROVE  FlashInv'
<1>1. /\ FlashTypeOK /\ ChipTypeOK /\ chip.contents \in Contents /\ work # << >>
      /\ chip.wel \in BOOLEAN /\ chip.wip \in BOOLEAN /\ op' = op /\ promised' = promised /\ left' = left
  BY DEF FlashInv, FlashTypeOK, ChipTypeOK, wait_for_device_ready, flash_write_byte, Deselect
<1>2. op # "none" /\ Progress
  BY <1>1 DEF FlashInv, FlashTypeOK
<1>3. ASSUME ChipTypeOK', Progress' PROVE FlashInv'
  <2>1. FlashTypeOK'
    BY <1>1, <1>2, <1>3 DEF FlashTypeOK
  <2>2. QED
    BY <1>3, <2>1 DEF FlashInv
<1>4. ASSUME chip' = Deselected
      PROVE  /\ ChipTypeOK' /\ chip'.selected = << >>
             /\ chip.selected = << >> =>
                  chip'.contents = chip.contents /\ chip'.wel = chip.wel /\ chip'.wip = chip.wip
             /\ chip.selected = <<"WREN">> /\ ~ chip.wip =>
                  chip'.contents = chip.contents /\ chip'.wel = TRUE /\ chip'.wip = FALSE
             /\ chip.selected \in Commands /\ ~ chip.wip /\ chip.wel =>
                  chip'.contents = Effect(chip.contents, chip.selected)
  BY <1>1, <1>4, DeselectedObeys, DeselectedChip DEF ChipTypeOK
<1>5. CASE wait_for_device_ready
  <2>1. Head(work)[1] = "wait"
    BY <1>5 DEF wait_for_device_ready
  <2>2. CASE chip.wip
    <3>1. chip' = chip /\ work' = work
      BY <1>5, <2>2 DEF wait_for_device_ready
    <3>2. ChipTypeOK'
      BY <1>1, <3>1 DEF ChipTypeOK
    <3>3. QED
      BY <1>1, <1>2, <1>3, <3>1, <3>2, Zenon
         DEF Progress, BetweenCommands, Entering, EnableSent, HalfSent, Executed, AndTheRest
  <2>3. CASE ~ chip.wip
    <3>1. chip' = Deselected /\ work' = Tail(work)
      BY <1>5, <2>3 DEF wait_for_device_ready
    <3>2. CASE Executed
      <4>1. chip.selected = << >> /\ work = <<<<"wait">>>> /\ promised = AndTheRest(chip.contents)
        BY <3>2 DEF Executed
      <4>2. work' = << >>
        BY <3>1, <4>1
      <4>3. BetweenCommands'
        BY <1>1, <1>4, <2>3, <3>1, <4>1, <4>2 DEF BetweenCommands, AndTheRest
      <4>4. QED
        BY <1>3, <1>4, <3>1, <4>3 DEF Progress
    <3>3. ASSUME NEW cmd \in Commands, Entering(cmd), work = <<<<"wait">>>> \o Enabling(cmd)
          PROVE  FlashInv'
      <4>1. chip.selected = << >> /\ promised = AndTheRest(Effect(chip.contents, cmd))
        BY <3>3 DEF Entering
      <4>2. work' = Enabling(cmd)
        BY <3>1, <3>3, NextWork
      <4>3. Entering(cmd)'
        BY <1>1, <1>4, <2>3, <3>1, <4>1, <4>2 DEF Entering, AndTheRest
      <4>4. QED
        BY <1>3, <1>4, <3>1, <4>3 DEF Progress
    <3>4. QED
      BY <1>1, <1>2, <2>1, <3>2, <3>3, WhereItIs
  <2>4. QED
    BY <2>2, <2>3
<1>6. CASE flash_write_byte
  <2>1. /\ Head(work)[1] = "byte" /\ work' = Tail(work)
        /\ chip' = [chip EXCEPT !.selected = Append(chip.selected, Head(work)[2])]
    BY <1>6 DEF flash_write_byte
  <2>2. /\ ChipTypeOK' /\ chip'.contents = chip.contents /\ chip'.wel = chip.wel /\ chip'.wip = chip.wip
        /\ chip'.selected = Append(chip.selected, Head(work)[2])
    BY <1>1, <2>1 DEF ChipTypeOK
  <2>3. ASSUME NEW cmd \in Commands, Entering(cmd), work = Enabling(cmd), ~ chip.wip
        PROVE  FlashInv'
    <3>1. chip.selected = << >> /\ promised = AndTheRest(Effect(chip.contents, cmd))
      BY <2>3 DEF Entering
    <3>2. work' = <<<<"cs_n">>>> \o StillToSend(cmd) /\ Head(work) = <<"byte", "WREN">>
      BY <2>1, <2>3, NextWork
    <3>3. chip'.selected = <<"WREN">>
      BY <2>2, <3>1, <3>2
    <3>4. EnableSent(cmd)'
      BY <1>1, <2>2, <2>3, <3>1, <3>2, <3>3 DEF EnableSent, AndTheRest
    <3>5. QED
      BY <1>3, <2>2, <3>4 DEF Progress
  <2>4. ASSUME NEW cmd \in Commands, NEW rest \in Seq(Item), HalfSent(cmd), chip.selected \in Seq(Item),
               chip.selected \o rest = cmd, work = StillToSend(rest), rest # << >>
        PROVE  FlashInv'
    <3>1. promised = AndTheRest(Effect(chip.contents, cmd)) /\ chip.wel /\ ~ chip.wip
      BY <2>4 DEF HalfSent
    <3>2. Head(work) = <<"byte", Head(rest)>> /\ work' = StillToSend(Tail(rest)) /\ Tail(rest) \in Seq(Item)
      BY <2>1, <2>4, NextByte
    <3>3. chip'.selected = Append(chip.selected, Head(rest))
      BY <2>2, <3>2
    <3>4. PICK u \in Seq(Item) : u = chip.selected
      BY <2>4
    <3>5. Append(u, Head(rest)) \in Seq(Item) /\ Append(u, Head(rest)) \o Tail(rest) = u \o rest
      <4>1. PICK x \in Item, l \in Seq(Item) : x = Head(rest) /\ l = Tail(rest) /\ rest = <<x>> \o l
        <5>1. rest \in Seq(Item) /\ rest # << >>
          BY <2>4
        <5>2. rest = <<Head(rest)>> \o Tail(rest) /\ Head(rest) \in Item /\ Tail(rest) \in Seq(Item)
          BY <5>1, FirstAndRest
        <5>3. QED
          BY <5>2
      <4>2. Append(u, x) \in Seq(Item) /\ Append(u, x) \o l = u \o (<<x>> \o l)
        OBVIOUS
      <4>3. QED
        BY <4>1, <4>2
    <3>6. chip'.selected \in Seq(Item) /\ chip'.selected \o Tail(rest) = cmd
      BY <2>4, <3>3, <3>4, <3>5
    <3>7. HalfSent(cmd)'
      BY <1>1, <2>2, <3>1, <3>2, <3>6 DEF HalfSent, AndTheRest
    <3>8. QED
      BY <1>3, <2>2, <3>7 DEF Progress
  <2>5. QED
    BY <1>1, <1>2, <2>1, <2>3, <2>4, WhereItIs
<1>7. CASE Deselect
  <2>1. Head(work)[1] = "cs_n" /\ chip' = Deselected /\ work' = Tail(work)
    BY <1>7 DEF Deselect
  <2>2. ASSUME NEW cmd \in Commands, EnableSent(cmd)
        PROVE  FlashInv'
    <3>1. /\ chip.selected = <<"WREN">> /\ promised = AndTheRest(Effect(chip.contents, cmd))
          /\ work = <<<<"cs_n">>>> \o StillToSend(cmd) /\ ~ chip.wip
      BY <2>2 DEF EnableSent
    <3>2. work' = StillToSend(cmd)
      BY <2>1, <3>1, NextWork
    <3>3. chip'.contents = chip.contents /\ chip'.wel = TRUE /\ chip'.wip = FALSE /\ chip'.selected = << >>
      BY <1>4, <2>1, <3>1
    <3>4. cmd \in Seq(Item) /\ << >> \in Seq(Item) /\ << >> \o cmd = cmd
      BY DEF Commands
    <3>5. HalfSent(cmd)'
      BY <1>1, <3>1, <3>2, <3>3, <3>4 DEF HalfSent, AndTheRest
    <3>6. QED
      BY <1>3, <1>4, <2>1, <3>5 DEF Progress
  <2>3. ASSUME NEW cmd \in Commands, NEW rest \in Seq(Item), HalfSent(cmd), chip.selected \in Seq(Item),
               chip.selected \o rest = cmd, work = StillToSend(rest), rest = << >>
        PROVE  FlashInv'
    <3>1. promised = AndTheRest(Effect(chip.contents, cmd)) /\ chip.wel /\ ~ chip.wip
      BY <2>3 DEF HalfSent
    <3>2. chip.selected = cmd
      BY <2>3
    <3>3. work' = <<<<"wait">>>>
      BY <2>1, <2>3, NextByte
    <3>4. chip'.contents = Effect(chip.contents, cmd) /\ chip'.selected = << >>
      BY <1>4, <2>1, <3>1, <3>2
    <3>5. Executed'
      BY <1>1, <3>1, <3>3, <3>4 DEF Executed, AndTheRest
    <3>6. QED
      BY <1>3, <1>4, <2>1, <3>5 DEF Progress
  <2>4. QED
    BY <1>1, <1>2, <2>1, <2>2, <2>3, WhereItIs
<1>8. QED
  BY <1>5, <1>6, <1>7

(* Every step of the flash keeps its invariant, a reset of the processor   *)
(* and the end of what the chip is busy with among them.                   *)
LEMMA FlashInvStep ==
  ASSUME FlashInv, [FlashNext]_flashVars
  PROVE  FlashInv'
<1>1. /\ FlashTypeOK /\ ChipTypeOK /\ chip.contents \in Contents
      /\ chip.wel \in BOOLEAN /\ chip.wip \in BOOLEAN /\ (op # "none" => Progress)
  BY DEF FlashInv, FlashTypeOK, ChipTypeOK
<1>2. CASE spiflash_freq_init \/ UNCHANGED flashVars
  <2>1. UNCHANGED <<chip, op, work, left, promised>>
    BY <1>2 DEF spiflash_freq_init, flashVars
  <2>2. FlashTypeOK'
    BY <1>1, <2>1 DEF FlashTypeOK, ChipTypeOK
  <2>3. Progress' <=> Progress
    BY <2>1, Zenon DEF Progress, BetweenCommands, Entering, EnableSent, HalfSent, Executed, AndTheRest
  <2>4. QED
    BY <1>1, <2>1, <2>2, <2>3 DEF FlashInv
<1>3. CASE FlashReturns
  <2>1. /\ op # "none" /\ work = << >> /\ left.c = << >> /\ op' = "none"
        /\ chip' = chip /\ work' = work /\ left' = left
    BY <1>3 DEF FlashReturns
  <2>2. chip.selected = << >>
    BY <1>1, <2>1, WhereItIs DEF BetweenCommands
  <2>3. FlashTypeOK'
    BY <1>1, <2>1, <2>2 DEF FlashTypeOK, ChipTypeOK
  <2>4. QED
    BY <2>1, <2>3 DEF FlashInv
<1>4. CASE ChipReady
  <2>1. chip' = [chip EXCEPT !.wip = FALSE] /\ UNCHANGED <<op, work, left, promised>>
    BY <1>4 DEF ChipReady
  <2>2. /\ ChipTypeOK' /\ chip'.contents = chip.contents /\ chip'.wel = chip.wel /\ ~ chip'.wip
        /\ chip'.selected = chip.selected
    BY <1>1, <2>1 DEF ChipTypeOK
  <2>3. FlashTypeOK'
    BY <1>1, <2>1, <2>2 DEF FlashTypeOK
  <2>4. Progress => Progress'
    <3>1. BetweenCommands => BetweenCommands'
      BY <2>1, <2>2 DEF BetweenCommands, AndTheRest
    <3>2. Executed => Executed'
      BY <2>1, <2>2 DEF Executed, AndTheRest
    <3>3. ASSUME NEW cmd \in Commands
          PROVE  /\ Entering(cmd) => Entering(cmd)'
                 /\ EnableSent(cmd) => EnableSent(cmd)'
                 /\ HalfSent(cmd) => HalfSent(cmd)'
      <4>1. Entering(cmd) => Entering(cmd)'
        BY <2>1, <2>2 DEF Entering, AndTheRest
      <4>2. EnableSent(cmd) => EnableSent(cmd)'
        BY <2>1, <2>2 DEF EnableSent, AndTheRest
      <4>3. HalfSent(cmd) => HalfSent(cmd)'
        BY <2>1, <2>2, Zenon DEF HalfSent, AndTheRest
      <4>4. QED
        BY <4>1, <4>2, <4>3
    <3>4. QED
      BY <3>1, <3>2, <3>3 DEF Progress
  <2>5. QED
    BY <1>1, <2>1, <2>3, <2>4 DEF FlashInv
<1>5. CASE FlashReset
  <2>1. chip' = Deselected /\ op' = "none" /\ work' = << >> /\ left' = NothingLeft
    BY <1>5 DEF FlashReset
  <2>2. ChipTypeOK' /\ chip'.selected = << >>
    BY <1>1, <2>1, DeselectedObeys, DeselectedChip DEF ChipTypeOK
  <2>3. left'.addr = 0 /\ left'.c = << >>
    BY <2>1 DEF NothingLeft
  <2>4. QED
    BY <2>1, <2>2, <2>3 DEF FlashInv, FlashTypeOK
<1>6. QED
  BY <1>2, <1>3, <1>4, <1>5, CalledFlash, NextPage, WorkStep DEF FlashNext

(* When an operation returns, the flash holds what it promised, whatever   *)
(* pages it crosses and whatever a reset had interrupted (libbase/         *)
(* spiflash.c).                                                            *)
THEOREM FlashHoldsWhatItPromised == FlashSpec => []FlashHoldsIt
<1>1. FlashInit => FlashInv
  <2>1. ASSUME FlashInit PROVE FlashInv
    <3>1. /\ chip = [contents |-> BlankFlash, wel |-> FALSE, wip |-> FALSE, selected |-> << >>]
          /\ op = "none" /\ work = << >> /\ left = NothingLeft
      BY <2>1 DEF FlashInit
    <3>2. BlankFlash \in Contents
      BY DEF BlankFlash, Contents
    <3>3. ChipTypeOK /\ chip.selected = << >>
      BY <3>1, <3>2 DEF ChipTypeOK
    <3>4. left.addr = 0 /\ left.c = << >>
      BY <3>1 DEF NothingLeft
    <3>5. QED
      BY <3>1, <3>3, <3>4 DEF FlashInv, FlashTypeOK
  <2>2. QED
    BY <2>1
<1>2. FlashInv => FlashHoldsIt
  <2>1. ASSUME FlashInv, op # "none", work = << >>, left.c = << >>
        PROVE  chip.contents = promised /\ ~ chip.wip /\ chip.selected = << >>
    <3>1. FlashTypeOK /\ Progress /\ left.addr \in Nat /\ chip.contents \in Contents
      BY <2>1 DEF FlashInv, FlashTypeOK, ChipTypeOK
    <3>2. BetweenCommands
      BY <2>1, <3>1, WhereItIs
    <3>3. promised = chip.contents
      BY <2>1, <3>1, <3>2, NothingWritten DEF BetweenCommands, AndTheRest
    <3>4. QED
      BY <2>1, <3>2, <3>3 DEF BetweenCommands
  <2>2. QED
    BY <2>1 DEF FlashHoldsIt
<1>3. QED
  BY <1>1, <1>2, FlashInvStep, PTL DEF FlashSpec

-----------------------------------------------------------------------------
(* The board.                                                              *)

(* What runs on the board is each of the devices as specified by itself.   *)
THEOREM DevicesRunAlone ==
  BoardSpec => TimerSpec /\ ServoSpec /\ VgaSpec /\ I2cSpec /\ FlashSpec
<1>1. BoardInit => time_init /\ ServoInit /\ VgaInit /\ I2cInit /\ FlashInit
  BY DEF BoardInit
<1>2. [BoardNext]_boardVars => [TimerNext]_timerVars
  BY DEF BoardNext, boardVars
<1>3. [BoardNext]_boardVars => [ServoClock]_servoVars
  BY DEF BoardNext, boardVars
<1>4. [BoardNext]_boardVars => [VgaNext]_vgaVars
  BY DEF BoardNext, boardVars
<1>5. [BoardNext]_boardVars => [FlashNext]_flashVars
  BY DEF BoardNext, boardVars
<1>6. [BoardNext]_boardVars => [I2cNext]_i2cVars
  BY DEF BoardNext, boardVars
<1>7. QED
  BY <1>1, <1>2, <1>3, <1>4, <1>5, <1>6, PTL
     DEF BoardSpec, TimerSpec, ServoSpec, VgaSpec, I2cSpec, FlashSpec

(* On the board the picture is right, the clock of the flash the fastest,  *)
(* the flash holds what it is to hold, a call on the I2C bus that succeeds *)
(* is exact, events are not early, and the servo sees whole pulses that    *)
(* obey.                                                                   *)
THEOREM BoardIsRight ==
  BoardSpec => /\ []FrameIsRight /\ []FastestThatReads /\ []FlashHoldsIt /\ []CallsAreExact
               /\ NeverEarly /\ PulseIsWhole /\ ObeysPosition
BY DevicesRunAlone, FramesAreRight, ClockIsFastest, FlashHoldsWhatItPromised, I2cCallsAreExact,
   EventsAreNotEarly, PulsesAreWhole, PositionsAreObeyed, PTL
=============================================================================
