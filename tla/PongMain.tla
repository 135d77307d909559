------------------------------ MODULE PongMain ------------------------------
(***************************************************************************)
(* The main loop of the game (software/app/main.c): it samples the two     *)
(* distance sensors, commands the paddles, calls update() of Pong and      *)
(* writes the result to the registers of the video drawer, the LEDs, the   *)
(* servos and the console.                                                 *)
(*                                                                         *)
(* The loop is one thread, but the hardware behind the registers is not:   *)
(* the drawer scans them out at any moment, so the four register writes of *)
(* draw() are four steps.  The two calls of elapsed() are independent      *)
(* periods, hence whether an iteration samples, updates, does both or      *)
(* neither is a choice here; the module GameTimer has the arithmetic.      *)
(***************************************************************************)
EXTENDS Pong, Sequences

CONSTANTS
  SENSOR_MAX_THRESHOLD, SENSOR_MIN_THRESHOLD,   \* centimetres
  SENSOR_EXPONENTIAL_DECAY_PERCENTAGE,
  Reading,        \* the values of a `medida` register (16 bits, unsigned)
  Uninitialized   \* what the local rightPaddleY may hold at first (int16_t)

ASSUME SensorAssumption ==
  /\ SENSOR_MIN_THRESHOLD \in Nat /\ SENSOR_MAX_THRESHOLD \in Nat
  /\ SENSOR_MIN_THRESHOLD < SENSOR_MAX_THRESHOLD
  /\ SENSOR_MAX_THRESHOLD < 2 ^ 15
  /\ SENSOR_EXPONENTIAL_DECAY_PERCENTAGE \in 0 .. 100
  /\ Reading \subseteq 0 .. 2 ^ 16 - 1
  /\ Uninitialized \subseteq -(2 ^ 15) .. 2 ^ 15 - 1 /\ Uninitialized # {}

ASSUME MarginAssumption ==      \* a ball behind a paddle is still on the screen
  PADDLE_OFFSET > BALL_WIDTH \div 2

VARIABLES
  target,     \* per side, the local rightPaddleY / leftPaddleY
  step,       \* 0: top of the loop; 1..4: the next write of draw();
              \* 5: showScore; 6: asleep with the LEDs on
  screen,     \* the position registers of the drawer
  leds,       \* the set of LEDs that are on; 0..7 are the right byte
  servo,      \* per side, the position register of its servo
  console     \* the lines printed

mainVars == <<ball, paddleY, score, win, target, step, screen, leds, servo, console>>
ioVars   == <<screen, leds, servo, console>>

X_OFFSET == TABLE_WIDTH \div 2
Y_OFFSET_width == TABLE_WIDTH \div 2
Y_OFFSET == TABLE_HEIGHT \div 2

Header == [line |-> "####"]
Result(sc, w) == [line |-> "json", score |-> sc, win |-> w]

MainInit ==
  /\ start
  /\ \E garbage \in Uninitialized :
       target = [s \in Side |-> IF s = "right" THEN garbage ELSE 0]
  /\ step = 0
  /\ screen = [right |-> 0, left |-> 0, ballX |-> 0, ballY |-> 0]
  /\ leds = {}
  /\ servo = [s \in Side |-> 0]
  /\ console = <<Header>>

-----------------------------------------------------------------------------
(* C division truncates towards zero.                                      *)
CDiv(a, b) == IF a >= 0 THEN a \div b ELSE -((-a) \div b)

(* A measurement strictly between the thresholds is stretched over the     *)
(* height of the table ...                                                 *)
Stretch(medida) ==
  ((medida - SENSOR_MIN_THRESHOLD) * TABLE_HEIGHT)
    \div (SENSOR_MAX_THRESHOLD - SENSOR_MIN_THRESHOLD) - TABLE_HEIGHT \div 2

(* ... and moves the paddle part of the way; any other one (also one that  *)
(* is negative as an int16_t) leaves the paddle where it is.               *)
Smooth(y, medida) ==
  IF SENSOR_MIN_THRESHOLD < medida /\ medida < SENSOR_MAX_THRESHOLD
  THEN CDiv((100 - SENSOR_EXPONENTIAL_DECAY_PERCENTAGE) * Stretch(medida)
              + SENSOR_EXPONENTIAL_DECAY_PERCENTAGE * y, 100)
  ELSE y

(* The game that the loop plays is the one whose paddles may be commanded  *)
(* to every position that the loop can compute.                            *)
ASSUME ReachableAssumption ==
  /\ Uninitialized \cup {0} \subseteq Command
  /\ \A y \in Command, medida \in Reading : Smooth(y, medida) \in Command

SampleSensors(medida) ==
  /\ step = 0 /\ NoWinner
  /\ target' = [s \in Side |-> Smooth(target[s], medida[s])]
  /\ UNCHANGED <<gameVars, step, ioVars>>

UpdateAndReport ==
  /\ update(target)
  /\ console' = IF \E s \in Side : win'[s]
                THEN Append(console, Result(score', win')) ELSE console
  /\ step' = 1
  /\ UNCHANGED <<target, screen, leds, servo>>

Update_unguarded == step = 0 /\ UpdateAndReport

Update == step = 0 /\ NoWinner /\ UpdateAndReport

(* draw(): one register per step.                                          *)
Draw ==
  /\ step \in 1 .. 4
  /\ screen' =
       CASE step = 1 -> [screen EXCEPT !.right = paddleY["right"] + Y_OFFSET]
         [] step = 2 -> [screen EXCEPT !.left  = paddleY["left"] + Y_OFFSET]
         [] step = 3 -> [screen EXCEPT !.ballX = ball.x + X_OFFSET]
         [] step = 4 -> [screen EXCEPT !.ballY = ball.y + Y_OFFSET]
  /\ step' = step + 1
  /\ UNCHANGED <<gameVars, target, leds, servo, console>>

(* oneHotEncode(n + 1) - 1 as a byte lights the n + 1 lowest LEDs, and all *)
(* eight from n = 7 on, where the shifted bit leaves the byte; the byte of *)
(* the left side is reflected, so that its bar grows from the other end.   *)
Bar(n) == {i \in 0 .. 7 : i < n + 1}

showScore ==
  /\ step = 5
  /\ leds' = Bar(score["right"]) \cup {15 - i : i \in Bar(score["left"])}
  /\ step' = 0
  /\ UNCHANGED <<gameVars, target, screen, servo, console>>

(* The branch of a won game, for ever: the winner's LEDs and servo, sleep, *)
(* LEDs off, sleep.                                                        *)
Celebrate ==
  /\ step = 0
  /\ \/ /\ win["right"]
        /\ leds' = 0 .. 7
        /\ servo' = [servo EXCEPT !["right"] = 1]
     \/ /\ win["left"] /\ ~ win["right"]
        /\ leds' = 8 .. 15
        /\ servo' = [servo EXCEPT !["left"] = 1]
  /\ step' = 6
  /\ UNCHANGED <<gameVars, target, screen, console>>


BlinkOff ==
  /\ step = 6
  /\ leds' = {}
  /\ step' = 0
  /\ UNCHANGED <<gameVars, target, screen, servo, console>>

MainNext ==
  \/ \E medida \in [Side -> Reading] : SampleSensors(medida)
  \/ Update
  \/ Draw
  \/ showScore
  \/ Celebrate
  \/ BlinkOff

MainSpec == MainInit /\ [][MainNext]_mainVars

(* The thread runs, and the timer that elapsed() polls never stops, so     *)
(* updates keep coming; nothing is assumed of the sensors.                 *)
MainFairSpec ==
  MainSpec /\ WF_mainVars(Update) /\ WF_mainVars(Draw \/ showScore \/ Celebrate \/ BlinkOff)

-----------------------------------------------------------------------------
(* Whatever the drawer scans out once the first frame has been drawn,      *)
(* between two register writes of draw() too, lies on the screen: old and  *)
(* new coordinates never mix to a sprite that leaves it.                   *)
SpritesOnScreen ==
  screen.ballY # 0 =>
    /\ screen.ballX \in BALL_WIDTH \div 2 .. TABLE_WIDTH - BALL_WIDTH \div 2
    /\ screen.ballY \in BALL_WIDTH \div 2 .. TABLE_HEIGHT - BALL_WIDTH \div 2
    /\ \A s \in Side : screen[s] \in
         PADDLE_LENGTH \div 2 .. TABLE_HEIGHT - PADDLE_LENGTH \div 2

(* The result is reported exactly once, when a side has won and with the   *)
(* winning score; before that only the header has been printed.            *)
ReportedOnce ==
  IF NoWinner THEN console = <<Header>>
  ELSE /\ Len(console) = 2
       /\ console[2] = Result(score, win)
       /\ \E s \in Side : win[s] /\ score[s] = WIN_SCORE

(* The loop implements the game of Pong, its progress included.            *)
PlaysPong == FairSpec
=============================================================================
