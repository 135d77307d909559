----------------------------- MODULE GameProofs -----------------------------
(***************************************************************************)
(* Proofs about the game and what it is played with: its rules, the main   *)
(* loop that plays it, and the distance sensors that move the rackets.     *)
(***************************************************************************)
EXTENDS PongMain, Sonar, TLAPS

-----------------------------------------------------------------------------
(***************************************************************************)
(* Proofs about the rules of the game, for every geometry, winning score   *)
(* and set of commands that the assumptions of Pong admit.                 *)
(*                                                                         *)
(* BallInField is not inductive: whether the ball is stopped at a wall or  *)
(* scored behind a paddle depends on where it was heading when it got      *)
(* there.  Heading records that: at a wall the ball heads outwards, and so *)
(* it does from the plane of contact of a paddle on.                       *)
(***************************************************************************)
Contact == PaddleX - ReachX

Heading ==
  /\ ball.y = WallY => ball.dy = 1
  /\ ball.y = -WallY => ball.dy = -1
  /\ ball.x >= Contact => ball.dx = 1
  /\ ball.x <= -Contact => ball.dx = -1

IInv == TypeOK /\ BallInField /\ Heading /\ PaddlesInside /\ OneWinner

-----------------------------------------------------------------------------
(* The derived distances are natural numbers in the order that the rules   *)
(* need.                                                                   *)
LEMMA Distances ==
  /\ PaddleX \in Nat /\ ReachX \in Nat /\ WallY \in Nat /\ PaddleMax \in Nat
  /\ ReachY \in Nat
  /\ PaddleX > ReachX /\ WallY > 0 /\ PaddleX > 0
<1>1. PaddleX \in Int /\ ReachX \in Nat /\ WallY \in Int /\ PaddleMax \in Int /\ ReachY \in Nat
  BY GeometryAssumption DEF PaddleX, ReachX, ReachY, WallY, PaddleMax
<1>2. PaddleX > ReachX /\ WallY > 0 /\ PaddleMax >= 0
  BY GeometryAssumption
<1>3. QED
  BY <1>1, <1>2

(* The test of pong.c:59 with its product of signs: behind the right       *)
(* paddle, respectively behind the left one.                               *)
LEMMA ScoredAgainst ==
  ASSUME NEW b, b.x \in Int
  PROVE  /\ pointScoredAgainst(b, "right") <=> b.x > PaddleX
         /\ pointScoredAgainst(b, "left") <=> b.x < -PaddleX
<1>1. PaddleX \in Int /\ PaddleX > 0
  BY Distances
<1>2. /\ b.x * PaddleX > 0 <=> b.x > 0
      /\ b.x * (-PaddleX) > 0 <=> b.x < 0
  BY <1>1
<1>3. QED
  BY <1>1, <1>2 DEF pointScoredAgainst, PaddlePos, Abs

Balls == [x : Int, y : Int, dx : {-1, 1}, dy : {-1, 1}]

(* What the four operations do to each field of a ball.                    *)
LEMMA ResetBall ==
  ASSUME NEW b \in Balls
  PROVE  /\ resetBall(b) \in Balls
         /\ resetBall(b).x = 0 /\ resetBall(b).y = 0
         /\ resetBall(b).dx = b.dx /\ resetBall(b).dy = b.dy
BY DEF resetBall, Balls

(* A bounce off a paddle turns the ball in x only.                         *)
LEMMA BounceOffPaddle ==
  ASSUME NEW b \in Balls
  PROVE  /\ bounceOffPaddle(b) \in Balls
         /\ bounceOffPaddle(b).x = b.x /\ bounceOffPaddle(b).y = b.y
         /\ bounceOffPaddle(b).dx = -b.dx /\ bounceOffPaddle(b).dy = b.dy
BY DEF bounceOffPaddle, Balls

(* A bounce off the table turns it in y only.                              *)
LEMMA BounceOffTable ==
  ASSUME NEW b \in Balls
  PROVE  /\ bounceOffTable(b) \in Balls
         /\ bounceOffTable(b).x = b.x /\ bounceOffTable(b).y = b.y
         /\ bounceOffTable(b).dx = b.dx /\ bounceOffTable(b).dy = -b.dy
         /\ b.dy # -b.dy
BY DEF bounceOffTable, Balls

(* A move is by one unit in both directions, and turns nothing.            *)
LEMMA MoveBall ==
  ASSUME NEW b \in Balls
  PROVE  /\ moveBall(b) \in Balls
         /\ moveBall(b).x = b.x + b.dx /\ moveBall(b).y = b.y + b.dy
         /\ moveBall(b).dx = b.dx /\ moveBall(b).dy = b.dy
BY DEF moveBall, Balls

(* The ball is in contact with the paddle of a side.                       *)
Touches(s) ==
  /\ ball.x = (IF s = "right" THEN Contact ELSE -Contact)
  /\ Abs(ball.y - paddleY[s]) < ReachY

(* One update of the ball, with the tests of both sides resolved: a new    *)
(* serve from the centre behind a paddle, else a turn at the plane of      *)
(* contact or not, a turn at the wall exactly there, and one pixel.        *)
LEMMA BallStep ==
  ASSUME IInv, NEW command, updatePosition(command)
  PROVE  /\ ball' \in Balls
         /\ ball'.x = (IF Abs(ball.x) > PaddleX THEN 0 ELSE ball.x) + ball'.dx
         /\ ball'.y = (IF Abs(ball.x) > PaddleX THEN 0 ELSE ball.y) + ball'.dy
         /\ ball'.dx # ball.dx =>
              \E s \in Side : Touches(s)
         /\ ball'.dy # ball.dy <=> (Abs(ball.y) = WallY /\ Abs(ball.x) <= PaddleX)
<1> DEFINE b1 == IF \E s \in Side : pointScoredAgainst(ball, s) THEN resetBall(ball) ELSE ball
           b2 == IF \E s \in Side : collisionWithPaddle(b1, s) THEN bounceOffPaddle(b1) ELSE b1
           b3 == IF collisionWithTable(b2) THEN bounceOffTable(b2) ELSE b2
<1>0. ball' = moveBall(b3)
  BY DEF updatePosition
<1>1. ball \in Balls /\ paddleY \in [Side -> Int]
  BY DEF IInv, TypeOK, Balls
<1>1a. ball.x \in Int /\ ball.y \in Int
  BY <1>1 DEF Balls
<1>2. (\E s \in Side : pointScoredAgainst(ball, s)) <=> Abs(ball.x) > PaddleX
  BY <1>1a, ScoredAgainst, Distances DEF Side, Abs
<1>3. /\ b1 \in Balls
      /\ b1.x = (IF Abs(ball.x) > PaddleX THEN 0 ELSE ball.x)
      /\ b1.y = (IF Abs(ball.x) > PaddleX THEN 0 ELSE ball.y)
      /\ b1.dx = ball.dx /\ b1.dy = ball.dy
  BY <1>1, <1>2, ResetBall
<1>4. ASSUME NEW s \in Side, collisionWithPaddle(b1, s)
      PROVE  Touches(s)
  <2>1. b1.x - PaddlePos(s) = ReachX \/ b1.x - PaddlePos(s) = -ReachX
    <3>1. b1.x \in Int /\ PaddlePos(s) \in Int
      BY <1>3, Distances DEF Balls, PaddlePos
    <3>2. QED
      BY <3>1, <1>4, Distances DEF collisionWithPaddle, Abs
  <2>2. Abs(ball.x) <= PaddleX + 1
    BY DEF IInv, BallInField
  <2>3. CASE Abs(ball.x) > PaddleX
    BY <2>1, <2>3, <1>3, Distances DEF PaddlePos, Side, Abs
  <2>4. CASE Abs(ball.x) <= PaddleX
    <3>1. b1.x = ball.x /\ b1.y = ball.y
      BY <2>4, <1>1a, <1>3, Distances DEF Abs
    <3>2. ball.x = (IF s = "right" THEN Contact ELSE -Contact)
      BY <2>1, <2>4, <3>1, <1>1a, Distances DEF PaddlePos, Side, Abs, Contact
    <3>3. Abs(ball.y - paddleY[s]) < ReachY
      BY <3>1, <1>4 DEF collisionWithPaddle
    <3>4. QED
      BY <3>2, <3>3 DEF Touches
  <2>5. QED
    BY <2>3, <2>4, <1>1a, Distances DEF Abs
<1>5. /\ b2 \in Balls /\ b2.x = b1.x /\ b2.y = b1.y /\ b2.dy = b1.dy
      /\ b2.dx # b1.dx => \E s \in Side : Touches(s)
  BY <1>3, <1>4, BounceOffPaddle
<1>6. /\ b3 \in Balls /\ b3.x = b2.x /\ b3.y = b2.y /\ b3.dx = b2.dx
      /\ b3.dy # b2.dy <=> Abs(b2.y) = WallY
  BY <1>5, BounceOffTable DEF collisionWithTable
<1>7. /\ ball' \in Balls /\ ball'.x = b3.x + b3.dx /\ ball'.y = b3.y + b3.dy
      /\ ball'.dx = b3.dx /\ ball'.dy = b3.dy
  BY <1>0, <1>6, MoveBall
<1> HIDE DEF b1, b2, b3
<1>8. Abs(b2.y) = WallY <=> (Abs(ball.y) = WallY /\ Abs(ball.x) <= PaddleX)
  BY <1>1a, <1>3, <1>5, Distances DEF Abs
<1>9. QED
  BY <1>3, <1>5, <1>6, <1>7, <1>8

(* What updateScore does to the points and the winner of a running game:   *)
(* at most one side gets one point.                                        *)
LEMMA ScoreStep ==
  ASSUME IInv, NoWinner, updateScore
  PROVE  /\ score' \in [Side -> 0 .. 255] /\ win' \in [Side -> BOOLEAN]
         /\ \A s \in Side : win'[s] <=> score'[s] = WIN_SCORE
         /\ score'["left"]  = (IF ball.x > PaddleX THEN score["left"] + 1 ELSE score["left"])
         /\ score'["right"] = (IF ball.x < -PaddleX THEN score["right"] + 1 ELSE score["right"])
<1>1. ball.x \in Int /\ score \in [Side -> 0 .. 255] /\ win \in [Side -> BOOLEAN]
  BY DEF IInv, TypeOK
<1>2. \A s \in Side : score[s] <= WIN_SCORE - 1 /\ ~ win[s]
  BY <1>1, WinScoreAssumption DEF IInv, OneWinner, NoWinner
<1>3. /\ Point("left") <=> ball.x > PaddleX
      /\ Point("right") <=> ball.x < -PaddleX
  BY <1>1, ScoredAgainst DEF Point, Other
<1>4. PaddleX \in Int /\ PaddleX > 0
  BY Distances
<1>5. score' = [s \in Side |->
         IF Point(s) /\ ~ (s = "right" /\ Point("left"))
         THEN (score[s] + 1) % 256 ELSE score[s]]
  BY DEF updateScore
<1>6. \A s \in Side : (score[s] + 1) % 256 = score[s] + 1
  BY <1>1, <1>2, WinScoreAssumption
<1>7. /\ score'["left"]  = (IF ball.x > PaddleX THEN score["left"] + 1 ELSE score["left"])
      /\ score'["right"] = (IF ball.x < -PaddleX THEN score["right"] + 1 ELSE score["right"])
  BY <1>1, <1>3, <1>4, <1>5, <1>6 DEF Side
<1>8. score' \in [Side -> 0 .. 255]
  <2>1. \A s \in Side : score'[s] \in 0 .. 255
    BY <1>1, <1>2, <1>7, WinScoreAssumption DEF Side
  <2>2. QED
    BY <2>1, <1>5
<1>9. /\ win' \in [Side -> BOOLEAN]
      /\ \A s \in Side : win'[s] <=> score'[s] = WIN_SCORE
  BY <1>1, <1>2 DEF updateScore
<1>10. QED
  BY <1>7, <1>8, <1>9

(* A commanded position is clamped to where the paddle fits.               *)
LEMMA Clamped ==
  ASSUME NEW y \in Int
  PROVE  getPaddleInside(y) \in Int /\ Abs(getPaddleInside(y)) <= PaddleMax
BY Distances DEF getPaddleInside, Abs

-----------------------------------------------------------------------------
(* The invariant holds when a game starts.                                 *)
LEMMA InitInvariant == start => IInv
<1> SUFFICES ASSUME start PROVE IInv
  OBVIOUS
<1>1. TypeOK
  BY DEF start, TypeOK
<1>2. ball.x = 0 /\ ball.y = 0
  BY DEF start
<1>3. BallInField /\ Heading
  BY <1>2, Distances DEF BallInField, Heading, Contact, Abs
<1>4. PaddlesInside
  BY Distances DEF start, PaddlesInside, Abs
<1>5. OneWinner
  BY WinScoreAssumption DEF start, OneWinner, Side
<1>6. QED
  BY <1>1, <1>3, <1>4, <1>5 DEF IInv

(* One call of update() keeps the invariant, whatever the two paddles are  *)
(* commanded to: the positions come from a caller that is not trusted.     *)
LEMMA UpdateInvariant ==
  ASSUME IInv, NoWinner, NEW command \in [Side -> Int], update(command)
  PROVE  IInv'
<1>1. updateScore /\ updatePosition(command)
  BY DEF update
<1>2. /\ ball' \in Balls
      /\ ball'.x = (IF Abs(ball.x) > PaddleX THEN 0 ELSE ball.x) + ball'.dx
      /\ ball'.y = (IF Abs(ball.x) > PaddleX THEN 0 ELSE ball.y) + ball'.dy
      /\ ball'.dx # ball.dx => \E s \in Side : Touches(s)
      /\ ball'.dy # ball.dy <=> (Abs(ball.y) = WallY /\ Abs(ball.x) <= PaddleX)
  BY <1>1, BallStep
<1>2a. ball'.dx # ball.dx => ball.x \in {Contact, -Contact}
  BY <1>2 DEF Touches
<1>3. paddleY' = [s \in Side |-> getPaddleInside(command[s])]
  BY <1>1 DEF updatePosition
<1>4. \A s \in Side : command[s] \in Int
  OBVIOUS
<1>5. paddleY' \in [Side -> Int] /\ PaddlesInside'
  BY <1>3, <1>4, Clamped DEF PaddlesInside
<1>6. /\ score' \in [Side -> 0 .. 255] /\ win' \in [Side -> BOOLEAN]
      /\ \A s \in Side : win'[s] <=> score'[s] = WIN_SCORE
      /\ score'["left"]  = (IF ball.x > PaddleX THEN score["left"] + 1 ELSE score["left"])
      /\ score'["right"] = (IF ball.x < -PaddleX THEN score["right"] + 1 ELSE score["right"])
  BY <1>1, ScoreStep
<1>7. TypeOK'
  BY <1>2, <1>5, <1>6 DEF TypeOK, Balls
<1>8. /\ ball.x \in Int /\ ball.y \in Int /\ ball.dx \in {-1, 1} /\ ball.dy \in {-1, 1}
      /\ ball'.dx \in {-1, 1} /\ ball'.dy \in {-1, 1}
      /\ Abs(ball.y) <= WallY /\ Abs(ball.x) <= PaddleX + 1
  BY <1>2 DEF IInv, TypeOK, BallInField, Balls
<1>9. (BallInField /\ Heading)'
  <2>1. CASE Abs(ball.x) > PaddleX
    <3>1. ball'.x = ball'.dx /\ ball'.y = ball'.dy
      BY <1>2, <1>8, <2>1
    <3>2. QED
      BY <3>1, <1>8, Distances DEF BallInField, Heading, Contact, Abs
  <2>2. CASE Abs(ball.x) <= PaddleX
    <3>1. ball'.x = ball.x + ball'.dx /\ ball'.y = ball.y + ball'.dy
      BY <1>2, <1>8, <2>2, Distances DEF Abs
    <3>2. /\ Abs(ball'.y) <= WallY
          /\ ball'.y = WallY => ball'.dy = 1
          /\ ball'.y = -WallY => ball'.dy = -1
      BY <3>1, <1>2, <1>8, <2>2, Distances DEF IInv, Heading, Abs
    <3>3. /\ Abs(ball'.x) <= PaddleX + 1
          /\ ball'.x >= Contact => ball'.dx = 1
          /\ ball'.x <= -Contact => ball'.dx = -1
      BY <3>1, <1>2, <1>2a, <1>8, <2>2, Distances DEF IInv, Heading, Abs, Contact
    <3>4. QED
      BY <3>2, <3>3 DEF BallInField, Heading
  <2>3. QED
    BY <2>1, <2>2, <1>8, Distances DEF Abs
<1>10. OneWinner'
  <2>1. \A s \in Side : score[s] \in 0 .. WIN_SCORE - 1
    BY WinScoreAssumption DEF IInv, TypeOK, OneWinner, NoWinner
  <2>2. PaddleX > 0 /\ PaddleX \in Int
    BY Distances
  <2>3. QED
    BY <1>6, <1>8, <2>1, <2>2, WinScoreAssumption DEF OneWinner, Side
<1>11. QED
  BY <1>5, <1>7, <1>9, <1>10 DEF IInv

(* Every update keeps it.                                                  *)
LEMMA NextInvariant ==
  ASSUME IInv, [Next]_gameVars
  PROVE  IInv'
<1>1. CASE UNCHANGED gameVars
  BY <1>1 DEF IInv, TypeOK, BallInField, Heading, PaddlesInside, OneWinner, gameVars
<1>2. ASSUME NoWinner, NEW command \in [Side -> Command], update(command)
      PROVE  IInv'
  <2>1. command \in [Side -> Int]
    BY CommandAssumption
  <2>2. QED
    BY <1>2, <2>1, UpdateInvariant
<1>3. QED
  BY <1>1, <1>2 DEF Next

(* The inductive invariant holds in every state of every game.             *)
THEOREM Invariant == Spec => []IInv
BY InitInvariant, NextInvariant, PTL DEF Spec

(* The fields of the struct keep their types, the scores stay bytes.       *)
THEOREM TypeCorrect == Spec => []TypeOK
<1>1. IInv => TypeOK
  BY DEF IInv
<1>2. QED
  BY Invariant, <1>1, PTL

(* The ball never escapes from the field, whatever the geometry.           *)
THEOREM BallStaysInField == Spec => []BallInField
<1>1. IInv => BallInField
  BY DEF IInv
<1>2. QED
  BY Invariant, <1>1, PTL

(* The paddles stay on the table, whatever positions are commanded.        *)
THEOREM PaddlesStayInside == Spec => []PaddlesInside
<1>1. IInv => PaddlesInside
  BY DEF IInv
<1>2. QED
  BY Invariant, <1>1, PTL

(* No score passes WIN_SCORE, and at most one side ever wins.              *)
THEOREM AtMostOneWinner == Spec => []OneWinner
<1>1. IInv => OneWinner
  BY DEF IInv
<1>2. QED
  BY Invariant, <1>1, PTL

(* The ball turns back only from a paddle that it touches on its way out,  *)
(* and up or down only at a wall.                                          *)
THEOREM TurnsAtContact == Spec => TurnsOnlyAtContact
<1> DEFINE Turned == /\ ball'.dx # ball.dx =>
                          \E s \in Side :
                            /\ ball.dx * PaddlePos(s) > 0
                            /\ ball.x * PaddlePos(s) > 0 /\ Abs(ball.x) = PaddleX - ReachX
                            /\ Abs(ball.y - paddleY[s]) < ReachY
                     /\ ball'.dy # ball.dy => Abs(ball.y) = WallY
<1>1. ASSUME IInv, [Next]_gameVars
      PROVE  [Turned]_gameVars
  <2>1. CASE UNCHANGED gameVars
    BY <2>1
  <2>2. ASSUME NEW command \in [Side -> Command], update(command)
        PROVE  Turned
    <3>1. /\ ball'.dx # ball.dx => \E s \in Side : Touches(s)
          /\ ball'.dy # ball.dy => Abs(ball.y) = WallY
      BY <1>1, <2>2, BallStep DEF update
    <3>2. ASSUME NEW s \in Side, Touches(s)
          PROVE  /\ ball.dx * PaddlePos(s) > 0
                 /\ ball.x * PaddlePos(s) > 0 /\ Abs(ball.x) = PaddleX - ReachX
                 /\ Abs(ball.y - paddleY[s]) < ReachY
      <4>1. Contact \in Int /\ Contact > 0 /\ PaddleX \in Int /\ PaddleX > 0
        BY Distances DEF Contact
      <4>2. CASE s = "right"
        <5>1. ball.x = Contact /\ ball.dx = 1 /\ PaddlePos(s) = PaddleX
          BY <1>1, <3>2, <4>1, <4>2 DEF Touches, IInv, Heading, PaddlePos
        <5>2. Contact * PaddleX > 0 /\ 1 * PaddleX > 0
          BY <4>1
        <5>3. QED
          BY <5>1, <5>2, <3>2, <4>1 DEF Touches, Abs, Contact
      <4>3. CASE s = "left"
        <5>1. ball.x = -Contact /\ ball.dx = -1 /\ PaddlePos(s) = -PaddleX
          BY <1>1, <3>2, <4>1, <4>3 DEF Touches, IInv, Heading, PaddlePos
        <5>2. (-Contact) * (-PaddleX) > 0 /\ (-1) * (-PaddleX) > 0
          BY <4>1
        <5>3. QED
          BY <5>1, <5>2, <3>2, <4>1 DEF Touches, Abs, Contact
      <4>4. QED
        BY <4>2, <4>3 DEF Side
    <3>3. QED
      BY <3>1, <3>2
  <2>3. QED
    BY <1>1, <2>1, <2>2 DEF Next
<1>2. QED
  BY <1>1, Invariant, PTL DEF Spec, TurnsOnlyAtContact

-----------------------------------------------------------------------------
(***************************************************************************)
(* Proofs about the main loop, for every geometry, every pair of sensor    *)
(* thresholds and every reading that the assumptions of PongMain admit.    *)
(*                                                                         *)
(* Neither property of the loop is inductive.  The registers are right     *)
(* only once a first frame has been drawn, and the first frame is drawn    *)
(* one register at a time: Drawn says how far it has come at each step.    *)
(* And Append adds one line to whatever the console holds, so the report   *)
(* needs the step at which a game may be won: once, from a game without a  *)
(* winner.                                                                 *)
(***************************************************************************)
TargetOK ==
  /\ target \in [Side -> Command]
  /\ step \in 0 .. 6
  /\ screen \in [right : Int, left : Int, ballX : Int, ballY : Int]

PaddleOnScreen(y) == y \in PADDLE_LENGTH \div 2 .. TABLE_HEIGHT - PADDLE_LENGTH \div 2

(* The registers that hold a position of the game, at each step.           *)
Drawn ==
  /\ (screen.ballY # 0 \/ step \in 2 .. 5) => PaddleOnScreen(screen.right)
  /\ (screen.ballY # 0 \/ step \in 3 .. 5) => PaddleOnScreen(screen.left)
  /\ (screen.ballY # 0 \/ step \in 4 .. 5) =>
       screen.ballX \in BALL_WIDTH \div 2 .. TABLE_WIDTH - BALL_WIDTH \div 2
  /\ screen.ballY # 0 =>
       screen.ballY \in BALL_WIDTH \div 2 .. TABLE_HEIGHT - BALL_WIDTH \div 2

MainIInv == IInv /\ TargetOK /\ Drawn /\ ReportedOnce

-----------------------------------------------------------------------------
(* A position of the game that lies in the field is, with its offset, on   *)
(* the screen: a paddle that is on the table ...                           *)
LEMMA PaddleIsDrawnInside ==
  ASSUME NEW y \in Int, Abs(y) <= PaddleMax
  PROVE  PaddleOnScreen(y + Y_OFFSET)
BY GeometryAssumption DEF PaddleOnScreen, Y_OFFSET, PaddleMax, Abs

(* ... and the ball, also one pixel behind a paddle.                       *)
LEMMA BallIsDrawnInside ==
  ASSUME IInv
  PROVE  /\ ball.x + X_OFFSET \in BALL_WIDTH \div 2 .. TABLE_WIDTH - BALL_WIDTH \div 2
         /\ ball.y + Y_OFFSET \in BALL_WIDTH \div 2 .. TABLE_HEIGHT - BALL_WIDTH \div 2
<1>1. /\ ball.x \in Int /\ ball.y \in Int
      /\ Abs(ball.x) <= PaddleX + 1 /\ Abs(ball.y) <= WallY
  BY DEF IInv, TypeOK, BallInField
<1>2. QED
  BY <1>1, GeometryAssumption, MarginAssumption
     DEF X_OFFSET, Y_OFFSET, PaddleX, WallY, Abs

(* The invariant of the loop holds at its start, whatever rightPaddleY is. *)
LEMMA MainInit_Invariant == MainInit => MainIInv
<1> SUFFICES ASSUME MainInit PROVE MainIInv
  OBVIOUS
<1>1. IInv
  BY InitInvariant DEF MainInit
<1>2. TargetOK
  <2>1. target \in [Side -> Command]
    BY ReachableAssumption DEF MainInit
  <2>2. QED
    BY <2>1 DEF MainInit, TargetOK
<1>3. Drawn
  BY DEF MainInit, Drawn
<1>4. ReportedOnce
  BY DEF MainInit, start, ReportedOnce, NoWinner, Side
<1>5. QED
  BY <1>1, <1>2, <1>3, <1>4 DEF MainIInv

(* The steps that leave the game alone, the writes of draw() among them.   *)
LEMMA QuietStep ==
  ASSUME MainIInv, UNCHANGED <<gameVars, console>>, TargetOK', Drawn'
  PROVE  MainIInv'
BY DEF MainIInv, IInv, TypeOK, BallInField, Heading, PaddlesInside, OneWinner,
       ReportedOnce, NoWinner, gameVars

(* A sample of the sensors keeps it.                                       *)
LEMMA SampleKeeps ==
  ASSUME MainIInv, NEW m \in [Side -> Reading], SampleSensors(m)
  PROVE  MainIInv'
<1>1. UNCHANGED <<gameVars, step, ioVars>> /\ TargetOK /\ Drawn
  BY DEF SampleSensors, MainIInv
<1>2. target' \in [Side -> Command]
  BY <1>1, ReachableAssumption DEF SampleSensors, TargetOK
<1>3. TargetOK'
  BY <1>1, <1>2 DEF TargetOK, ioVars
<1>4. Drawn'
  BY <1>1 DEF Drawn, ioVars
<1>5. QED
  BY <1>1, <1>3, <1>4, QuietStep DEF ioVars

(* The result is printed by the update that ends the game, with the score  *)
(* and the winner which that update computed.                              *)
LEMMA UpdateKeeps ==
  ASSUME MainIInv, Update
  PROVE  MainIInv'
<1>1. /\ NoWinner /\ update(target) /\ step' = 1 /\ UNCHANGED <<target, screen>>
      /\ console = <<Header>>
      /\ console' = IF \E s \in Side : win'[s]
                    THEN Append(console, Result(score', win')) ELSE console
  BY DEF Update, UpdateAndReport, MainIInv, ReportedOnce
<1>2. target \in [Side -> Int]
  BY CommandAssumption DEF MainIInv, TargetOK
<1>3. IInv'
  BY <1>1, <1>2, UpdateInvariant DEF MainIInv
<1>4. TargetOK'
  BY <1>1 DEF MainIInv, TargetOK
<1>5. Drawn'
  BY <1>1 DEF MainIInv, Drawn
<1>6. ReportedOnce'
  <2>1. CASE \E s \in Side : win'[s]
    <3>1. console' = Append(<<Header>>, Result(score', win'))
      BY <1>1, <2>1
    <3>2. Len(console') = 2 /\ console'[2] = Result(score', win')
      BY <3>1
    <3>3. \E s \in Side : win'[s] /\ score'[s] = WIN_SCORE
      BY <1>3, <2>1 DEF IInv, OneWinner
    <3>4. QED
      BY <3>2, <3>3 DEF ReportedOnce, NoWinner
  <2>2. CASE ~ \E s \in Side : win'[s]
    BY <1>1, <2>2 DEF ReportedOnce, NoWinner
  <2>3. QED
    BY <2>1, <2>2
<1>7. QED
  BY <1>3, <1>4, <1>5, <1>6 DEF MainIInv

(* So does a write of a register by draw.                                  *)
LEMMA DrawKeeps ==
  ASSUME MainIInv, Draw
  PROVE  MainIInv'
<1>1. /\ step \in 1 .. 4 /\ step' = step + 1
      /\ UNCHANGED <<gameVars, target, leds, servo, console>>
      /\ TargetOK /\ Drawn /\ IInv
  BY DEF Draw, MainIInv
<1>2. PaddleOnScreen(paddleY["right"] + Y_OFFSET) /\ PaddleOnScreen(paddleY["left"] + Y_OFFSET)
  <2>1. \A s \in Side : paddleY[s] \in Int /\ Abs(paddleY[s]) <= PaddleMax
    BY <1>1 DEF IInv, TypeOK, PaddlesInside
  <2>2. QED
    BY <2>1, PaddleIsDrawnInside DEF Side
<1>3. /\ ball.x + X_OFFSET \in BALL_WIDTH \div 2 .. TABLE_WIDTH - BALL_WIDTH \div 2
      /\ ball.y + Y_OFFSET \in BALL_WIDTH \div 2 .. TABLE_HEIGHT - BALL_WIDTH \div 2
  BY <1>1, BallIsDrawnInside
<1>4. CASE step = 1 /\ screen' = [screen EXCEPT !.right = paddleY["right"] + Y_OFFSET]
  <2>1. TargetOK'
    BY <1>1, <1>2, <1>4 DEF TargetOK, PaddleOnScreen
  <2>2. Drawn'
    BY <1>1, <1>2, <1>4 DEF Drawn, TargetOK
  <2>3. QED
    BY <2>1, <2>2, <1>1, QuietStep
<1>5. CASE step = 2 /\ screen' = [screen EXCEPT !.left = paddleY["left"] + Y_OFFSET]
  <2>1. TargetOK'
    BY <1>1, <1>2, <1>5 DEF TargetOK, PaddleOnScreen
  <2>2. Drawn'
    BY <1>1, <1>2, <1>5 DEF Drawn, TargetOK
  <2>3. QED
    BY <2>1, <2>2, <1>1, QuietStep
<1>6. CASE step = 3 /\ screen' = [screen EXCEPT !.ballX = ball.x + X_OFFSET]
  <2>1. TargetOK'
    BY <1>1, <1>3, <1>6 DEF TargetOK
  <2>2. Drawn'
    BY <1>1, <1>3, <1>6 DEF Drawn, TargetOK
  <2>3. QED
    BY <2>1, <2>2, <1>1, QuietStep
<1>7. CASE step = 4 /\ screen' = [screen EXCEPT !.ballY = ball.y + Y_OFFSET]
  <2>1. TargetOK'
    BY <1>1, <1>3, <1>7 DEF TargetOK
  <2>2. Drawn'
    BY <1>1, <1>3, <1>7 DEF Drawn, TargetOK
  <2>3. QED
    BY <2>1, <2>2, <1>1, QuietStep
<1>8. QED
  BY <1>1, <1>4, <1>5, <1>6, <1>7 DEF Draw

(* So do the points, the report and the lamps.                             *)
LEMMA LampsKeep ==
  ASSUME MainIInv, showScore \/ Celebrate \/ BlinkOff
  PROVE  MainIInv'
<1>1. UNCHANGED <<gameVars, target, screen, console>> /\ step' \in {0, 6}
  BY DEF showScore, Celebrate, BlinkOff
<1>2. TargetOK'
  BY <1>1 DEF MainIInv, TargetOK
<1>3. Drawn'
  BY <1>1 DEF MainIInv, Drawn
<1>4. QED
  BY <1>1, <1>2, <1>3, QuietStep

(* Every step of the loop keeps it.                                        *)
LEMMA MainNext_Invariant ==
  ASSUME MainIInv, [MainNext]_mainVars
  PROVE  MainIInv'
<1>1. CASE UNCHANGED mainVars
  <2>1. TargetOK' /\ Drawn' /\ UNCHANGED <<gameVars, console>>
    BY <1>1 DEF mainVars, gameVars, MainIInv, TargetOK, Drawn
  <2>2. QED
    BY <2>1, QuietStep
<1>2. CASE \E m \in [Side -> Reading] : SampleSensors(m)
  BY <1>2, SampleKeeps
<1>3. CASE Update
  BY <1>3, UpdateKeeps
<1>4. CASE Draw
  BY <1>4, DrawKeeps
<1>5. CASE showScore \/ Celebrate \/ BlinkOff
  BY <1>5, LampsKeep
<1>6. QED
  BY <1>1, <1>2, <1>3, <1>4, <1>5 DEF MainNext

(* The inductive invariant of the loop, whatever the sensors report and    *)
(* whatever the uninitialized local rightPaddleY held.                     *)
THEOREM MainInvariant == MainSpec => []MainIInv
BY MainInit_Invariant, MainNext_Invariant, PTL DEF MainSpec

(* Whatever moment the drawer scans the registers at, also between two     *)
(* writes of draw(), every sprite lies on the screen from the first        *)
(* complete frame on.                                                      *)
THEOREM SpritesStayOnScreen == MainSpec => []SpritesOnScreen
<1>1. MainIInv => SpritesOnScreen
  BY DEF MainIInv, Drawn, SpritesOnScreen, PaddleOnScreen, Side
<1>2. QED
  BY MainInvariant, <1>1, PTL

(* The result of a game is printed once, with the winning score.           *)
THEOREM ResultIsReportedOnce == MainSpec => []ReportedOnce
<1>1. MainIInv => ReportedOnce
  BY DEF MainIInv
<1>2. QED
  BY MainInvariant, <1>1, PTL

(* Every step of the main loop is an update of the game or leaves the game *)
(* alone: the loop implements the safety part of PlaysPong, the rules that *)
(* the theorems of PongProofs are about.                                   *)
THEOREM LoopPlaysByTheRules == MainSpec => Spec
<1>1. MainInit => start
  BY DEF MainInit
<1>2. ASSUME MainIInv, [MainNext]_mainVars
      PROVE  [Next]_gameVars
  <2>1. CASE Update
    <3>1. NoWinner /\ update(target) /\ target \in [Side -> Command]
      BY <1>2, <2>1 DEF Update, UpdateAndReport, MainIInv, TargetOK
    <3>2. QED
      BY <3>1 DEF Next
  <2>2. CASE ~ Update
    BY <1>2, <2>2 DEF MainNext, SampleSensors, Draw, showScore, Celebrate, BlinkOff,
                      mainVars, gameVars
  <2>3. QED
    BY <2>1, <2>2
<1>3. QED
  BY <1>1, <1>2, MainInvariant, PTL DEF MainSpec, Spec

-----------------------------------------------------------------------------
(***************************************************************************)
(* The centimetre counter rounds correctly for every R, MaxCount and pulse *)
(* length: proofs about EchoCounter.                                       *)
(*                                                                         *)
(* The inductive invariant accounts, in every state of the control unit,   *)
(* for each edge at which the pulse has been seen high: two edges pass     *)
(* before the counting, R + 1 make a centimetre, `tick` are under way.     *)
(***************************************************************************)
Within == width <= MaxCount * (R + 1)

Accounted ==
  LET base == 2 + contagem * (R + 1) IN
  CASE Eatual = "espera"        -> pulso => width = 0
    [] Eatual = "prepara"       -> width = 1
    [] Eatual = "incrementa_tk" -> \/ width = base + tick
                                   \/ width = 1 /\ contagem = 0 /\ tick = 0 /\ ~ pulso
    [] Eatual = "incrementa_cm" -> /\ width >= base + R \div 2 /\ width <= base + R
                                   /\ pulso => width = base + R /\ tick = 0
    [] Eatual = "final"         -> ~ pulso /\ Tells(contagem, width)

EchoInv == CounterTypeOK /\ (Within => Accounted)

-----------------------------------------------------------------------------
(* One more centimetre is R + 1 more clocks.                               *)
LEMMA OneMore ==
  ASSUME NEW n \in Nat
  PROVE  /\ n * (R + 1) \in Nat
         /\ (n + 1) * (R + 1) = n * (R + 1) + R + 1
BY CounterAssumption

(* A count whose clocks fit below the maximum is below the maximum.        *)
LEMMA BelowMaximum ==
  ASSUME NEW n \in Nat, n * (R + 1) < MaxCount * (R + 1)
  PROVE  n < MaxCount
<1>1. R + 1 \in Nat /\ R + 1 > 0 /\ MaxCount \in Nat
  BY CounterAssumption
<1>2. SUFFICES ASSUME n >= MaxCount PROVE FALSE
  BY <1>1
<1>3. (n - MaxCount) * (R + 1) >= 0
  BY <1>1, <1>2
<1>4. (n - MaxCount) * (R + 1) = n * (R + 1) - MaxCount * (R + 1)
  BY <1>1
<1>5. n * (R + 1) \in Int /\ MaxCount * (R + 1) \in Int
  BY <1>1
<1>6. QED
  BY <1>3, <1>4, <1>5

(* The remainder that the comparison with R / 2 rounds, in both directions.*)
LEMMA Rounding ==
  ASSUME NEW n \in Nat, NEW w \in Nat
  PROVE  /\ w >= 2 + n * (R + 1) /\ w < 2 + n * (R + 1) + R \div 2 => Tells(n, w)
         /\ w >= 2 + n * (R + 1) + R \div 2 /\ w <= 2 + n * (R + 1) + R => Tells(n + 1, w)
<1>1. R \in Nat /\ R >= 2
  BY CounterAssumption
<1>2. PICK c \in Nat : c = n * R
  BY <1>1
<1>3. PICK d \in Nat : d = (n + 1) * R
  BY <1>1
<1>4. n * (R + 1) = c + n /\ d = c + R
  BY <1>1, <1>2, <1>3
<1>5. /\ Tells(n, w) <=> 2 * (c - w) <= R /\ 2 * (w - c) <= R + 2 * (n + 1)
      /\ Tells(n + 1, w) <=> 2 * (d - w) <= R /\ 2 * (w - d) <= R + 2 * ((n + 1) + 1)
  BY <1>2, <1>3, Zenon DEF Tells, Lost
<1>6. /\ w >= 2 + c + n /\ w < 2 + c + n + R \div 2 =>
            2 * (c - w) <= R /\ 2 * (w - c) <= R + 2 * (n + 1)
      /\ w >= 2 + c + n + R \div 2 /\ w <= 2 + c + n + R =>
            2 * (d - w) <= R /\ 2 * (w - d) <= R + 2 * ((n + 1) + 1)
  BY <1>1, <1>4
<1>7. QED
  BY <1>4, <1>5, <1>6

(* The invariant holds after the reset.                                    *)
LEMMA EchoStart == EchoInit => EchoInv
<1> SUFFICES ASSUME EchoInit PROVE EchoInv
  OBVIOUS
<1>1. CounterTypeOK
  <2>1. pulso \in BOOLEAN /\ Eatual \in State
    BY DEF EchoInit, CounterInit, State
  <2>2. tick \in 0 .. R - 1 /\ contagem \in Nat /\ contagem <= 65535 /\ width \in Nat
    BY CounterAssumption DEF EchoInit, CounterInit
  <2>3. QED
    BY <2>1, <2>2 DEF CounterTypeOK
<1>2. Accounted
  BY DEF EchoInit, CounterInit, Accounted
<1>3. QED
  BY <1>1, <1>2 DEF EchoInv

(* A clock keeps the types.                                                *)
LEMMA EchoTypes ==
  ASSUME CounterTypeOK, Clock
  PROVE  CounterTypeOK'
<1>1. R \in Nat /\ R >= 2
  BY CounterAssumption
<1>2. CounterClock(FALSE) /\ pulso' \in BOOLEAN /\ WidthClock
  BY DEF Clock
<1>3. Eatual' \in State
  BY <1>2 DEF CounterTypeOK, CounterClock, Eprox, State
<1>4. tick' \in 0 .. R - 1
  BY <1>1, <1>2 DEF CounterTypeOK, CounterClock, TickClock, tickEnd
<1>5. contagem' \in Nat /\ contagem' <= 65535
  BY <1>2 DEF CounterTypeOK, CounterClock, CountClock
<1>6. width' \in Nat
  BY <1>2 DEF CounterTypeOK, WidthClock
<1>7. QED
  BY <1>2, <1>3, <1>4, <1>5, <1>6 DEF CounterTypeOK

(* One clock keeps the account, state by state.                            *)
LEMMA EchoNext ==
  ASSUME EchoInv, [Clock]_echoVars
  PROVE  EchoInv'
<1>1. CASE UNCHANGED echoVars
  <2>1. /\ pulso' = pulso /\ Eatual' = Eatual /\ tick' = tick
        /\ contagem' = contagem /\ width' = width
    BY <1>1 DEF echoVars
  <2>2. CounterTypeOK'
    BY <2>1 DEF EchoInv, CounterTypeOK
  <2>3. Tells(contagem', width') <=> Tells(contagem, width)
    BY <2>1, Zenon
  <2>4. Within' => Accounted'
    BY <2>1, <2>3 DEF EchoInv, Within, Accounted
  <2>5. QED
    BY <2>2, <2>4 DEF EchoInv
<1>2. CASE Clock
  <2>1. /\ pulso \in BOOLEAN /\ Eatual \in State /\ tick \in 0 .. R - 1
        /\ contagem \in Nat /\ contagem <= 65535 /\ width \in Nat
    BY DEF EchoInv, CounterTypeOK
  <2>2. CounterTypeOK'
    BY <1>2, EchoTypes DEF EchoInv
  <2>3. /\ R \in Nat /\ R >= 2 /\ MaxCount \in Nat /\ MaxCount <= 65535
    BY CounterAssumption
  <2>4. /\ Eatual' = Eprox
        /\ TickClock /\ CountClock /\ WidthClock
        /\ pulso' /\ ~ pulso => Eatual = "espera"
        /\ pulso' \in BOOLEAN
    BY <1>2 DEF Clock, CounterClock
  <2>5. /\ contagem * (R + 1) \in Nat /\ MaxCount * (R + 1) \in Nat
        /\ (contagem + 1) * (R + 1) = contagem * (R + 1) + R + 1
    BY <2>1, <2>3, OneMore
  <2> DEFINE base == 2 + contagem * (R + 1)
             top  == MaxCount * (R + 1)
  <2>6. SUFFICES ASSUME Within' PROVE Accounted'
    BY <2>2 DEF EchoInv
  <2>7. base \in Nat /\ top \in Nat
    BY <2>5
  <2>8. width' <= top
    BY <2>6 DEF Within
  <2>9. ASSUME width <= top PROVE Accounted
    BY <2>9 DEF EchoInv, Within
  <2>10. ASSUME base <= top PROVE contagem < MaxCount
    BY <2>1, <2>5, <2>10, BelowMaximum
  <2> HIDE DEF top
  <2>11. CASE Eatual = "espera"
    <3>1. CASE pulso
      <4>1. Eatual' = "prepara" /\ width' = width + 1
        BY <2>4, <2>11, <3>1 DEF Eprox, WidthClock
      <4>2. width <= top
        BY <4>1, <2>1, <2>7, <2>8
      <4>3. width = 0
        BY <4>2, <2>9, <2>11, <3>1 DEF Accounted
      <4>4. QED
        BY <4>1, <4>3 DEF Accounted
    <3>2. CASE ~ pulso
      <4>1. Eatual' = "espera" /\ (pulso' => width' = 0)
        BY <2>4, <2>11, <3>2 DEF Eprox, WidthClock
      <4>2. QED
        BY <4>1 DEF Accounted
    <3>3. QED
      BY <3>1, <3>2
  <2>12. Eatual # "espera" =>
           /\ width' = IF pulso THEN width + 1 ELSE width
           /\ ~ pulso => ~ pulso'
           /\ width <= top
    BY <2>1, <2>4, <2>7, <2>8 DEF WidthClock
  <2>13. CASE Eatual = "prepara"
    <3>1. width = 1
      BY <2>9, <2>12, <2>13 DEF Accounted
    <3>2. Eatual' = "incrementa_tk" /\ tick' = 0 /\ contagem' = 0
      BY <2>4, <2>13 DEF Eprox, TickClock, CountClock
    <3>3. contagem' * (R + 1) = 0
      BY <3>2, <2>3
    <3>4. QED
      BY <3>1, <3>2, <3>3, <2>12, <2>13 DEF Accounted
  <2>14. CASE Eatual = "incrementa_tk"
    <3>1. \/ width = base + tick
          \/ width = 1 /\ contagem = 0 /\ tick = 0 /\ ~ pulso
      BY <2>9, <2>12, <2>14 DEF Accounted
    <3>2. contagem' = contagem
      BY <2>4, <2>14 DEF CountClock
    <3>3. CASE ~ pulso /\ arredonda
      <4>1. Eatual' = "incrementa_cm" /\ ~ pulso' /\ width' = width
        BY <2>4, <2>12, <2>14, <3>3 DEF Eprox
      <4>2. tick >= R \div 2 /\ tick <= R - 1 /\ R \div 2 >= 1
        BY <2>1, <2>3, <3>3 DEF arredonda
      <4>3. width = base + tick
        BY <3>1, <4>2, <2>1, <2>3
      <4>4. width' >= base + R \div 2 /\ width' <= base + R
        BY <4>1, <4>2, <4>3, <2>1, <2>3, <2>7
      <4>5. QED
        BY <3>2, <4>1, <4>4 DEF Accounted
    <3>4. CASE ~ pulso /\ ~ arredonda
      <4>1. Eatual' = "final" /\ ~ pulso' /\ width' = width
        BY <2>4, <2>12, <2>14, <3>4 DEF Eprox
      <4>2. Tells(contagem, width)
        <5>1. CASE width = base + tick
          <6>1. width >= base /\ width < base + R \div 2
            BY <5>1, <2>1, <2>3, <2>7, <3>4 DEF arredonda
          <6>2. QED
            BY <6>1, <2>1, Rounding
        <5>2. CASE width = 1 /\ contagem = 0
          <6>1. 0 * R = 0
            BY <2>3
          <6>2. 2 * (0 - 1) <= R /\ 2 * (1 - 0) <= R + 2 * (0 + 1)
            BY <2>3
          <6>3. QED
            BY <5>2, <6>1, <6>2 DEF Tells, Lost
        <5>3. QED
          BY <3>1, <5>1, <5>2
      <4>3. Tells(contagem', width')
        BY <3>2, <4>1, <4>2
      <4>4. QED
        BY <4>1, <4>3 DEF Accounted
    <3>5. CASE pulso
      <4>1. width = base + tick /\ width' = base + tick + 1
        BY <3>1, <3>5, <2>12, <2>14
      <4>2. contagem < MaxCount
        BY <4>1, <2>1, <2>7, <2>8, <2>10
      <4>3. ~ fim
        BY <4>2, <2>1, <2>3 DEF fim
      <4>4. CASE tickEnd
        <5>1. Eatual' = "incrementa_cm" /\ tick' = 0
          BY <2>4, <2>14, <3>5, <4>3, <4>4 DEF Eprox, TickClock
        <5>2. width' = base + R /\ R \div 2 <= R
          BY <4>1, <4>4, <2>3, <2>7 DEF tickEnd
        <5>3. QED
          BY <3>2, <5>1, <5>2, <2>3, <2>7 DEF Accounted
      <4>5. CASE ~ tickEnd
        <5>1. Eatual' = "incrementa_tk" /\ tick' = tick + 1
          BY <2>4, <2>14, <3>5, <4>3, <4>5 DEF Eprox, TickClock
        <5>2. width' = base + tick'
          BY <4>1, <5>1, <2>1, <2>7
        <5>3. QED
          BY <3>2, <5>1, <5>2 DEF Accounted
      <4>6. QED
        BY <4>4, <4>5
    <3>6. QED
      BY <3>3, <3>4, <3>5, <2>1
  <2>15. CASE Eatual = "incrementa_cm"
    <3>1. /\ width >= base + R \div 2 /\ width <= base + R
          /\ pulso => width = base + R /\ tick = 0
      BY <2>9, <2>12, <2>15 DEF Accounted
    <3>2. contagem < MaxCount
      BY <3>1, <2>1, <2>3, <2>7, <2>10, <2>12, <2>15
    <3>3. contagem' = contagem + 1 /\ tick' = tick
      BY <2>1, <2>3, <2>4, <2>15, <3>2 DEF CountClock, TickClock, Eprox
    <3>4. CASE pulso
      <4>1. Eatual' = "incrementa_tk" /\ width' = base + R + 1 /\ tick' = 0
        BY <2>4, <2>12, <2>15, <3>1, <3>3, <3>4 DEF Eprox
      <4>2. 2 + contagem' * (R + 1) = base + R + 1
        BY <3>3, <2>5, <2>3, <2>1
      <4>3. width' = 2 + contagem' * (R + 1) + tick'
        BY <4>1, <4>2, <2>3, <2>7
      <4>4. QED
        BY <4>1, <4>3 DEF Accounted
    <3>5. CASE ~ pulso
      <4>1. Eatual' = "final" /\ ~ pulso' /\ width' = width
        BY <2>4, <2>12, <2>15, <3>5 DEF Eprox
      <4>2. Tells(contagem + 1, width)
        BY <3>1, <2>1, Rounding
      <4>3. Tells(contagem', width')
        BY <3>3, <4>1, <4>2
      <4>4. QED
        BY <4>1, <4>3 DEF Accounted
    <3>6. QED
      BY <3>4, <3>5
  <2>16. CASE Eatual = "final"
    <3>1. ~ pulso
      BY <2>9, <2>12, <2>16 DEF Accounted
    <3>2. Eatual' = "espera" /\ ~ pulso'
      BY <3>1, <2>4, <2>12, <2>16 DEF Eprox
    <3>3. QED
      BY <3>2 DEF Accounted
  <2>17. QED
    BY <2>1, <2>11, <2>13, <2>14, <2>15, <2>16 DEF State
<1>3. QED
  BY <1>1, <1>2

(* The invariant of the counter.                                           *)
THEOREM EchoInvariant == EchoSpec => []EchoInv
BY EchoStart, EchoNext, PTL DEF EchoSpec

(* Every pulse that is not too long is measured to half a centimetre and   *)
(* the clocks that the counter loses, for every number R of clocks per     *)
(* centimetre.                                                             *)
THEOREM PulsesAreMeasured == EchoSpec => []MeasuresPulse
<1>1. ASSUME EchoInv, Eatual = "final", width <= MaxCount * R
      PROVE  Tells(contagem, width)
  <2>1. MaxCount * (R + 1) = MaxCount * R + MaxCount /\ MaxCount * R \in Nat /\ MaxCount \in Nat
    BY CounterAssumption
  <2>2. width <= MaxCount * (R + 1)
    BY <1>1, <2>1 DEF EchoInv, CounterTypeOK
  <2>3. QED
    BY <1>1, <2>2 DEF EchoInv, Within, Accounted
<1>1a. EchoInv => MeasuresPulse
  BY <1>1 DEF MeasuresPulse
<1>2. QED
  BY EchoInvariant, <1>1a, PTL

-----------------------------------------------------------------------------
(***************************************************************************)
(* What the processor reads of a distance sensor is the rounded length of  *)
(* a complete echo, for every period, trigger and clock rate that the      *)
(* assumptions of Sonar admit.                                             *)
(*                                                                         *)
(* The control unit latches the count blindly, two clocks after the start  *)
(* of a period, and resets the counter at that start.  That this never     *)
(* cuts a measurement off rests on the time table: Schedule says in which  *)
(* part of a period each machine may be in each of its states.  A reset    *)
(* takes the control unit out of the table, never another machine, and it  *)
(* comes back only at the next start of a period.                          *)
(***************************************************************************)
Schedule ==
  /\ iq \in 0 .. PULSE_PERIOD_IN_CLOCKS - 1
  /\ delayed \in BOOLEAN
  /\ delayed => iq = 0
  /\ interface \in {"inicial", "preparacao", "envia_trigger", "armazenamento", "final"}
  /\ interface = "preparacao" => delayed
  /\ interface = "envia_trigger" => iq = 0 /\ ~ delayed
  /\ interface = "armazenamento" => iq = 1
  /\ interface = "final" => iq = 2

Trigger ==
  /\ pulse \in {"parado", "contagem", "final"}
  /\ cont \in Nat
  /\ pulse = "contagem" => cont <= LARGURA - 1 /\ iq = cont + 1

(* The echo lies between the end of the trigger and the deadline, and the  *)
(* counter is done with it three clocks later.                             *)
EchoTime ==
  /\ sensor \in {"idle", "answering", "echoing"}
  /\ pulso <=> sensor = "echoing"
  /\ sensor # "idle" => iq > LARGURA
  /\ sensor = "answering" => Eatual = "espera" /\ iq <= EchoDeadline
  /\ pulso => iq < EchoDeadline /\ width <= iq
  /\ width <= EchoDeadline
  /\ Eatual # "espera" => iq > LARGURA
  /\ Eatual = "prepara" => iq <= EchoDeadline
  /\ Eatual = "incrementa_tk" => iq <= EchoDeadline + 1
  /\ Eatual = "incrementa_cm" => iq <= EchoDeadline + 2

(* From the end of a measurement until the next echo the counter holds the *)
(* rounded length of the last echo, and from the start of a period on that *)
(* echo is the one that the register should tell.                          *)
Settled ==
  /\ measured \in Int
  /\ Eatual \in {"espera", "final"} /\ ~ pulso /\ width # 0 => Tells(contagem, width)
  /\ ~ pulso /\ width = 0 => contagem = 0
  /\ interface \in {"envia_trigger", "armazenamento"} /\ width # 0 => measured = width

SonarInv == EchoInv /\ Schedule /\ Trigger /\ EchoTime /\ Settled /\ ReadingIsAnEcho

-----------------------------------------------------------------------------
(* The times of a period, from the assumptions.                            *)
LEMMA SonarNumbers ==
  /\ PULSE_PERIOD_IN_CLOCKS \in Nat /\ LARGURA \in Nat /\ EchoDeadline \in Nat
  /\ 1 <= LARGURA /\ LARGURA < EchoDeadline /\ EchoDeadline + 3 < PULSE_PERIOD_IN_CLOCKS
  /\ MaxWidth \in Nat /\ EchoDeadline <= MaxWidth
  /\ EchoDeadline <= MaxCount * (R + 1)
<1>1. MaxCount * (R + 1) = MaxCount * R + MaxCount /\ MaxCount * R \in Nat /\ MaxCount \in Nat
  BY CounterAssumption
<1>2. QED
  BY <1>1, SonarAssumption, RangeAssumption, CounterAssumption

(* The registers of the counter, as the proofs below need them.            *)
LEMMA CounterFacts ==
  ASSUME SonarInv
  PROVE  /\ pulso \in BOOLEAN /\ Eatual \in State /\ width \in Nat /\ contagem \in Nat
         /\ Within /\ Accounted
<1>1. width \in Nat /\ width <= EchoDeadline
  BY DEF SonarInv, EchoInv, CounterTypeOK, EchoTime
<1>2. MaxCount * (R + 1) \in Nat
  BY CounterAssumption
<1>3. Within
  BY <1>1, <1>2, SonarNumbers, RangeAssumption DEF Within
<1>4. QED
  BY <1>1, <1>3 DEF SonarInv, EchoInv, CounterTypeOK

(* The control unit prepares only at the start of a period.                *)
LEMMA Prepares ==
  ASSUME SonarInv, zera
  PROVE  delayed \/ done
BY DEF zera, SonarInv, Schedule, interfaceProx

(* A period restarts when the counter is done and no echo is under way, so *)
(* the asynchronous reset does nothing that the counter would not do by    *)
(* itself.                                                                 *)
LEMMA Restart ==
  ASSUME SonarInv, SonarClock, delayed \/ done
  PROVE  ~ pulso /\ ~ pulso' /\ Eatual \in {"espera", "final"} /\ Eprox = "espera"
         /\ sensor = "idle" /\ sensor' = "idle" /\ ~ triggering
<1>1. delayed \/ done
  OBVIOUS
<1>2. iq = 0 \/ iq = PULSE_PERIOD_IN_CLOCKS - 1
  BY <1>1 DEF SonarInv, Schedule, done
<1>3. sensor = "idle" /\ ~ pulso
  BY <1>2, SonarNumbers DEF SonarInv, EchoTime
<1>4. Eatual \in {"espera", "final"}
  BY <1>2, SonarNumbers, CounterFacts DEF SonarInv, EchoTime, State
<1>5. ~ triggering
  BY <1>2, SonarNumbers DEF SonarInv, Trigger, triggering
<1>6. ~ pulso' /\ sensor' = "idle"
  BY <1>3, <1>5 DEF SonarClock, SensorClock
<1>7. QED
  BY <1>3, <1>4, <1>5, <1>6 DEF Eprox

(* Between two restarts the period counter advances.                       *)
LEMMA Running ==
  ASSUME SonarInv, SonarClock, ~ (delayed \/ done)
  PROVE  ~ zera /\ iq \in Nat /\ iq' = iq + 1
<1>1. ~ zera
  BY Prepares
<1>2. iq \in 0 .. PULSE_PERIOD_IN_CLOCKS - 1 /\ iq' = iq + 1
  BY DEF SonarInv, Schedule, SonarClock, PeriodClock
<1>3. QED
  BY <1>1, <1>2, SonarNumbers

(* An edge of the clock of the whole interface is an edge of the clock of  *)
(* the counter alone: pulses start when it is idle and are short enough.   *)
LEMMA StepIsClock ==
  ASSUME SonarInv, SonarClock
  PROVE  Clock
<1>1. CounterClock(FALSE)
  BY Restart, Prepares DEF SonarClock, CounterClock
<1>2. pulso' \in BOOLEAN /\ (pulso' /\ ~ pulso => Eatual = "espera")
  <2>1. /\ sensor \in {"idle", "answering", "echoing"} /\ SensorClock
        /\ pulso \in BOOLEAN /\ (pulso <=> sensor = "echoing")
        /\ sensor = "answering" => Eatual = "espera"
    BY CounterFacts DEF SonarClock, SonarInv, EchoTime
  <2>2. CASE sensor = "idle"
    <3>1. pulso' = FALSE \/ pulso' = pulso
      BY <2>1, <2>2 DEF SensorClock
    <3>2. CASE pulso' = FALSE
      BY <3>2
    <3>3. CASE pulso' = pulso
      <4>1. pulso' \in BOOLEAN
        BY <3>3, <2>1, Zenon
      <4>2. QED
        BY <4>1, <3>3
    <3>4. QED
      BY <3>1, <3>2, <3>3
  <2>3. CASE sensor = "answering"
    BY <2>1, <2>3 DEF SensorClock
  <2>4. CASE sensor = "echoing"
    BY <2>1, <2>4 DEF SensorClock
  <2>5. QED
    BY <2>1, <2>2, <2>3, <2>4
<1>3. ASSUME pulso', pulso PROVE width + 1 < MaxWidth
  <2>1. sensor = "echoing" /\ iq + 1 < EchoDeadline
    BY <1>3 DEF SonarClock, SensorClock, SonarInv, EchoTime
  <2>2. width <= iq /\ iq \in Nat /\ width \in Nat
    BY <1>3, CounterFacts, SonarNumbers DEF SonarInv, EchoTime, Schedule
  <2>3. QED
    BY <2>1, <2>2, SonarNumbers
<1>4. QED
  BY <1>1, <1>2, <1>3 DEF Clock, SonarClock

-----------------------------------------------------------------------------
(* A clock keeps the schedule of the control unit.                         *)
LEMMA ScheduleNext ==
  ASSUME SonarInv, SonarClock
  PROVE  Schedule'
<1>1. /\ iq \in 0 .. PULSE_PERIOD_IN_CLOCKS - 1 /\ delayed \in BOOLEAN
      /\ delayed => iq = 0
      /\ iq' = IF delayed \/ done THEN 0 ELSE iq + 1
      /\ delayed' = done
      /\ interface' \in {"inicial", interfaceProx}
  BY DEF SonarInv, Schedule, SonarClock, PeriodClock, InterfaceClock
<1>2. iq' \in 0 .. PULSE_PERIOD_IN_CLOCKS - 1 /\ delayed' \in BOOLEAN /\ (delayed' => iq' = 0)
  BY <1>1, SonarNumbers DEF done
<1>3. done => interface = "inicial" /\ ~ delayed
  BY <1>1, SonarNumbers DEF done, SonarInv, Schedule
<1>4. /\ interface' \in {"inicial", "preparacao", "envia_trigger", "armazenamento", "final"}
      /\ interface' = "preparacao" => delayed'
  BY <1>1, <1>3 DEF interfaceProx, SonarInv, Schedule
<1>5. /\ interface' = "envia_trigger" => iq' = 0 /\ ~ delayed'
      /\ interface' = "armazenamento" => iq' = 1
      /\ interface' = "final" => iq' = 2
  BY <1>1, <1>3 DEF interfaceProx, SonarInv, Schedule
<1>6. QED
  BY <1>2, <1>4, <1>5 DEF Schedule

(* A clock keeps the trigger at the begin of the period.                   *)
LEMMA TriggerNext ==
  ASSUME SonarInv, SonarClock
  PROVE  Trigger'
<1>1. CASE zera
  BY <1>1, SonarNumbers DEF SonarClock, PulseClock, Trigger
<1>2. CASE ~ zera /\ (delayed \/ done)
  <2>1. pulse # "contagem" /\ interface # "envia_trigger"
    <3>1. ~ triggering
      BY <1>2, Restart
    <3>2. interface # "envia_trigger"
      BY <1>2, SonarNumbers DEF SonarInv, Schedule, done
    <3>3. QED
      BY <3>1, <3>2 DEF triggering
  <2>2. PulseClock /\ Trigger
    BY DEF SonarClock, SonarInv
  <2>3. CASE pulse = "parado"
    BY <1>2, <2>1, <2>2, <2>3 DEF PulseClock, Trigger
  <2>4. CASE pulse = "final"
    BY <1>2, <2>1, <2>2, <2>4 DEF PulseClock, Trigger
  <2>5. QED
    BY <2>1, <2>2, <2>3, <2>4 DEF Trigger
<1>3. CASE ~ (delayed \/ done)
  <2>1. ~ zera /\ iq' = iq + 1 /\ iq \in Nat /\ (interface = "envia_trigger" => iq = 0)
    BY <1>3, Running DEF SonarInv, Schedule
  <2>2. PulseClock /\ Trigger
    BY DEF SonarClock, SonarInv
  <2>3. CASE pulse = "parado"
    BY <2>1, <2>2, <2>3, SonarNumbers DEF PulseClock, Trigger
  <2>4. CASE pulse = "contagem"
    BY <2>1, <2>2, <2>4, SonarNumbers DEF PulseClock, Trigger
  <2>5. CASE pulse = "final"
    BY <2>1, <2>2, <2>5, SonarNumbers DEF PulseClock, Trigger
  <2>6. QED
    BY <2>2, <2>3, <2>4, <2>5 DEF Trigger
<1>4. QED
  BY <1>1, <1>2, <1>3

(* A clock keeps the echo inside its part of the period.                   *)
LEMMA EchoTimeNext ==
  ASSUME SonarInv, SonarClock
  PROVE  EchoTime'
<1>1. CASE delayed \/ done
  <2>1. /\ ~ pulso /\ ~ pulso' /\ Eatual' = "espera" /\ sensor' = "idle"
    BY <1>1, Restart DEF SonarClock, CounterClock
  <2>2. width' = width
    BY <2>1 DEF SonarClock, WidthClock
  <2>3. QED
    BY <2>1, <2>2 DEF EchoTime, SonarInv
<1>2. CASE ~ (delayed \/ done)
  <2>1. ~ zera /\ iq' = iq + 1 /\ iq \in Nat
    BY <1>2, Running
  <2>2. Eatual' = Eprox /\ Eatual \in State
    BY <2>1, CounterFacts DEF SonarClock, CounterClock
  <2>3. sensor = "idle" /\ sensor' = "answering" =>
          iq = LARGURA /\ Eatual = "espera" /\ Eatual' = "espera" /\ ~ pulso
    <3>1. SUFFICES ASSUME sensor = "idle", sensor' = "answering"
                   PROVE  iq = LARGURA /\ Eatual = "espera" /\ Eatual' = "espera" /\ ~ pulso
      OBVIOUS
    <3>2. pulse = "contagem" /\ pulse' # "contagem"
      BY <3>1 DEF SonarClock, SensorClock, triggering
    <3>3. cont = LARGURA - 1 /\ iq = cont + 1
      BY <2>1, <3>2 DEF SonarClock, PulseClock, SonarInv, Trigger
    <3>4. iq = LARGURA /\ Eatual = "espera" /\ ~ pulso
      BY <3>1, <3>3, SonarNumbers DEF SonarInv, EchoTime
    <3>5. QED
      BY <3>4, <2>2 DEF Eprox
  <2>4. /\ sensor' \in {"idle", "answering", "echoing"}
        /\ pulso' <=> sensor' = "echoing"
        /\ sensor' # "idle" => iq' > LARGURA
        /\ sensor' = "answering" => Eatual' = "espera" /\ iq' <= EchoDeadline
        /\ pulso' => iq' < EchoDeadline
    <3>1. CASE sensor = "idle"
      BY <3>1, <2>1, <2>3, SonarNumbers DEF SonarClock, SensorClock, SonarInv, EchoTime
    <3>2. CASE sensor = "answering"
      <4>1. Eatual = "espera" /\ ~ pulso /\ Eatual' = "espera" /\ iq > LARGURA
        BY <3>2, <2>2 DEF Eprox, SonarInv, EchoTime
      <4>2. QED
        BY <3>2, <4>1, <2>1, SonarNumbers DEF SonarClock, SensorClock, SonarInv, EchoTime
    <3>3. CASE sensor = "echoing"
      <4>1. pulso /\ iq > LARGURA /\ SensorClock
        BY <3>3 DEF SonarClock, SonarInv, EchoTime
      <4>2. \/ iq + 1 < EchoDeadline /\ UNCHANGED <<sensor, pulso>>
            \/ sensor' = "idle" /\ pulso' = FALSE
        BY <3>3, <4>1 DEF SensorClock
      <4>3. sensor' \in {"idle", "echoing"} /\ (pulso' <=> sensor' = "echoing")
        BY <3>3, <4>1, <4>2, Zenon
      <4>4. sensor' = "echoing" => iq + 1 < EchoDeadline
        BY <4>2
      <4>5. iq' > LARGURA /\ (sensor' = "echoing" => iq' < EchoDeadline)
        <5>1. iq > LARGURA
          BY <4>1
        <5>2. QED
          BY <4>4, <5>1, <2>1, SonarNumbers
      <4>6. QED
        BY <4>2, <4>3, <4>5
    <3>4. QED
      BY <3>1, <3>2, <3>3 DEF SonarInv, EchoTime
  <2>5. width \in Nat /\ width' = IF pulso THEN width + 1 ELSE IF pulso' THEN 0 ELSE width
    BY CounterFacts DEF SonarClock, WidthClock
  <2>6. /\ pulso' => width' <= iq'
        /\ width' <= EchoDeadline
    BY <2>1, <2>5, SonarNumbers DEF SonarInv, EchoTime
  <2>7. pulso => iq < EchoDeadline /\ iq > LARGURA
    BY DEF SonarInv, EchoTime
  <2>8. CASE Eatual = "espera"
    BY <2>1, <2>2, <2>4, <2>6, <2>7, <2>8, SonarNumbers DEF EchoTime, Eprox
  <2>9. CASE Eatual = "prepara"
    BY <2>1, <2>2, <2>4, <2>6, <2>9, SonarNumbers DEF EchoTime, Eprox, SonarInv
  <2>10. CASE Eatual = "incrementa_tk"
    BY <2>1, <2>2, <2>4, <2>6, <2>7, <2>10, SonarNumbers DEF EchoTime, Eprox, SonarInv
  <2>11. CASE Eatual = "incrementa_cm"
    BY <2>1, <2>2, <2>4, <2>6, <2>7, <2>11, SonarNumbers DEF EchoTime, Eprox, SonarInv
  <2>12. CASE Eatual = "final"
    BY <2>1, <2>2, <2>4, <2>6, <2>12, SonarNumbers DEF EchoTime, Eprox, SonarInv
  <2>13. QED
    BY <2>2, <2>8, <2>9, <2>10, <2>11, <2>12 DEF State
<1>3. QED
  BY <1>1, <1>2

(* The count that is held between two echoes is the rounded length of the  *)
(* last one, because a restart never finds the counter counting.           *)
LEMMA SettledNext ==
  ASSUME SonarInv, SonarClock, EchoInv', EchoTime'
  PROVE  Settled'
<1>1. /\ pulso \in BOOLEAN /\ Eatual \in State /\ width \in Nat /\ contagem \in Nat
      /\ Accounted
  BY CounterFacts
<1>2. Within'
  <2>1. width' \in Nat /\ width' <= EchoDeadline
    BY DEF EchoInv, CounterTypeOK, EchoTime
  <2>2. MaxCount * (R + 1) \in Nat
    BY CounterAssumption
  <2>3. QED
    BY <2>1, <2>2, SonarNumbers, RangeAssumption DEF Within
<1>3. /\ Eatual' \in {"espera", Eprox} /\ (Eatual' # Eprox => zera) /\ CountClock
      /\ width' = IF pulso THEN width + 1 ELSE IF pulso' THEN 0 ELSE width
  BY DEF SonarClock, CounterClock, WidthClock
<1>4. measured' \in Int
  BY <1>1 DEF SonarClock, MeasuredClock, SonarInv, Settled
<1>5. ASSUME Eatual' \in {"espera", "final"}, ~ pulso', width' # 0
      PROVE  Tells(contagem', width')
  <2>1. CASE Eatual' = "final"
    BY <1>2, <2>1 DEF EchoInv, Accounted
  <2>2. CASE Eatual' = "espera"
    <3>1. Eatual \in {"espera", "final"} /\ ~ pulso
      <4>1. CASE zera
        BY <4>1, Restart, Prepares
      <4>2. CASE ~ zera
        BY <4>2, <2>2, <1>1, <1>3 DEF Eprox, State, Accounted
      <4>3. QED
        BY <4>1, <4>2
    <3>2. contagem' = contagem /\ width' = width
      BY <3>1, <1>3, <1>5 DEF CountClock
    <3>3. Tells(contagem, width)
      BY <3>1, <3>2, <1>5 DEF SonarInv, Settled
    <3>4. QED
      BY <3>2, <3>3, Zenon
  <2>3. QED
    BY <1>5, <2>1, <2>2
<1>6. ASSUME ~ pulso', width' = 0
      PROVE  contagem' = 0
  <2>1. ~ pulso /\ width = 0
    BY <1>1, <1>3, <1>6
  <2>2. contagem = 0
    BY <2>1 DEF SonarInv, Settled
  <2>3. Eatual # "incrementa_cm"
    <3>1. SUFFICES ASSUME Eatual = "incrementa_cm" PROVE FALSE
      OBVIOUS
    <3>2. width >= 2 + contagem * (R + 1) + R \div 2
      BY <3>1, <1>1 DEF Accounted
    <3>3. contagem * (R + 1) = 0 /\ R \div 2 >= 0 /\ R \div 2 \in Int
      BY <2>2, CounterAssumption
    <3>4. QED
      BY <2>1, <3>2, <3>3
  <2>4. QED
    BY <2>2, <2>3, <1>3 DEF CountClock
<1>7. ASSUME interface' \in {"envia_trigger", "armazenamento"}, width' # 0
      PROVE  measured' = width'
  <2>1. interface \in {"preparacao", "envia_trigger"} /\ iq = 0
    BY <1>7 DEF SonarClock, InterfaceClock, interfaceProx, SonarInv, Schedule
  <2>2. ~ pulso /\ ~ triggering /\ sensor = "idle"
    BY <2>1, SonarNumbers DEF SonarInv, EchoTime, Trigger, triggering
  <2>3. ~ pulso' /\ width' = width
    <3>1. ~ pulso'
      BY <2>2 DEF SonarClock, SensorClock
    <3>2. QED
      BY <3>1, <2>2, <1>3
  <2>4. measured' = IF interface = "preparacao" THEN width ELSE measured
    BY <1>7, <2>3 DEF SonarClock, MeasuredClock
  <2>5. interface = "envia_trigger" => measured = width
    BY <1>7, <2>3 DEF SonarInv, Settled
  <2>6. QED
    BY <2>1, <2>3, <2>4, <2>5
<1>8. QED
  BY <1>4, <1>5, <1>6, <1>7 DEF Settled

(* The register takes the count two clocks after a restart, when it is the *)
(* length of the echo that the history has recorded.                       *)
LEMMA ReadingNext ==
  ASSUME SonarInv, SonarClock
  PROVE  ReadingIsAnEcho'
<1>1. medida' = IF zera \/ reset' # "low" THEN 0
                ELSE IF interface = "armazenamento" THEN contagem ELSE medida
  BY DEF SonarClock, RegisterClock
<1>2. SUFFICES ASSUME medida' # 0
               PROVE  measured' # NoEcho /\ Tells(medida', measured')
  BY DEF ReadingIsAnEcho
<1>3. ~ zera /\ reset' = "low" /\ measured' = measured
  BY <1>1, <1>2 DEF zera, SonarClock, MeasuredClock
<1>4. CASE interface = "armazenamento"
  <2>1. medida' = contagem /\ contagem # 0 /\ iq = 1
    BY <1>1, <1>2, <1>3, <1>4 DEF SonarInv, Schedule
  <2>2. ~ pulso /\ Eatual = "espera"
    BY <2>1, SonarNumbers DEF SonarInv, EchoTime
  <2>3. width # 0 /\ width \in Nat
    BY <2>1, <2>2, CounterFacts DEF SonarInv, Settled
  <2>4. Tells(contagem, width) /\ measured = width
    BY <1>4, <2>2, <2>3 DEF SonarInv, Settled
  <2>5. Tells(medida', measured')
    BY <1>3, <2>1, <2>4, Zenon
  <2>6. QED
    BY <2>3, <2>4, <2>5, <1>3 DEF NoEcho
<1>5. CASE interface # "armazenamento"
  <2>1. medida' = medida
    BY <1>1, <1>3, <1>5
  <2>2. measured # NoEcho /\ Tells(medida, measured)
    BY <2>1, <1>2 DEF SonarInv, ReadingIsAnEcho
  <2>3. QED
    BY <1>3, <2>1, <2>2, Zenon
<1>6. QED
  BY <1>4, <1>5

-----------------------------------------------------------------------------
(* The invariant of the interface holds after the reset.                   *)
LEMMA SonarStart == SonarInit => SonarInv
<1> SUFFICES ASSUME SonarInit PROVE SonarInv
  OBVIOUS
<1>1. EchoInv
  BY EchoStart DEF SonarInit
<1>2. Schedule /\ Trigger
  <2>1. 0 \in 0 .. PULSE_PERIOD_IN_CLOCKS - 1
    BY SonarNumbers
  <2>2. iq = 0 /\ delayed = FALSE /\ interface = "inicial" /\ pulse = "parado" /\ cont = 0
    BY DEF SonarInit
  <2>3. QED
    BY <2>1, <2>2 DEF Schedule, Trigger
<1>3. EchoTime /\ Settled /\ ReadingIsAnEcho
  BY SonarNumbers
     DEF SonarInit, EchoInit, CounterInit, EchoTime, Settled, ReadingIsAnEcho, NoEcho
<1>4. QED
  BY <1>1, <1>2, <1>3 DEF SonarInv

(* Every clock keeps it.                                                   *)
LEMMA SonarNext ==
  ASSUME SonarInv, [SonarClock]_sonarVars
  PROVE  SonarInv'
<1>1. CASE SonarClock
  <2>1. EchoInv'
    BY <1>1, StepIsClock, EchoNext DEF SonarInv
  <2>2. Schedule' /\ Trigger' /\ EchoTime' /\ ReadingIsAnEcho'
    BY <1>1, ScheduleNext, TriggerNext, EchoTimeNext, ReadingNext
  <2>3. QED
    BY <1>1, <2>1, <2>2, SettledNext DEF SonarInv
<1>2. CASE UNCHANGED sonarVars
  <2>1. EchoInv'
    BY <1>2, EchoNext DEF SonarInv, sonarVars
  <2>2. /\ iq' = iq /\ delayed' = delayed /\ interface' = interface /\ pulse' = pulse
        /\ cont' = cont /\ medida' = medida /\ sensor' = sensor /\ measured' = measured
        /\ pulso' = pulso /\ Eatual' = Eatual /\ contagem' = contagem /\ width' = width
    BY <1>2 DEF sonarVars, echoVars
  <2>3. Schedule' /\ Trigger' /\ EchoTime'
    BY <2>2 DEF SonarInv, Schedule, Trigger, EchoTime
  <2>4. (Tells(contagem', width') <=> Tells(contagem, width))
        /\ (Tells(medida', measured') <=> Tells(medida, measured))
    BY <2>2, Zenon
  <2>5. Settled' /\ ReadingIsAnEcho'
    BY <2>2, <2>4 DEF SonarInv, Settled, ReadingIsAnEcho, NoEcho
  <2>6. QED
    BY <2>1, <2>3, <2>5 DEF SonarInv
<1>3. QED
  BY <1>1, <1>2

(* The invariant of the interface.                                         *)
THEOREM SonarInvariant == SonarSpec => []SonarInv
BY SonarStart, SonarNext, PTL DEF SonarSpec

(* The interface drives the counter as the counter alone expects it: its   *)
(* reset never interrupts a measurement and an echo never finds the        *)
(* counter busy, so what is proved of EchoSpec holds in place.             *)
THEOREM SonarDrivesTheCounter == SonarSpec => EchoSpec
<1>1. SonarInit => EchoInit
  BY DEF SonarInit
<1>2. ASSUME SonarInv, [SonarClock]_sonarVars
      PROVE  [Clock]_echoVars
  BY <1>2, StepIsClock DEF sonarVars
<1>3. QED
  BY <1>1, <1>2, SonarInvariant, PTL DEF SonarSpec, EchoSpec

(* Every echo is measured so, at any time of a period and across resets.   *)
THEOREM EchoesAreMeasured == SonarSpec => []MeasuresPulse
BY SonarDrivesTheCounter, PulsesAreMeasured, PTL

(* The processor reads 0 or what the counter tells of the last echo whole: *)
(* never a count under way, although nothing in the control unit waits.    *)
THEOREM ReadingsAreEchoes == SonarSpec => []ReadingIsAnEcho
<1>1. SonarInv => ReadingIsAnEcho
  BY DEF SonarInv
<1>2. QED
  BY SonarInvariant, <1>1, PTL

(* A trigger has its whole length: the restart of the generator finds it   *)
(* done, and a reset of the board does not reach it.                       *)
THEOREM TriggersAreWhole == SonarSpec => TriggerIsWhole
<1>1. ASSUME SonarInv, [SonarClock]_sonarVars
      PROVE  [ triggering /\ ~ triggering' => cont = LARGURA - 1 ]_sonarVars
  <2>1. SUFFICES ASSUME SonarClock, triggering, ~ triggering' PROVE cont = LARGURA - 1
    BY <1>1
  <2>2. ~ zera
    BY <1>1, <2>1, Restart, Prepares
  <2>3. QED
    BY <2>1, <2>2 DEF SonarClock, PulseClock, triggering
<1>2. QED
  BY SonarInvariant, <1>1, PTL DEF SonarSpec, TriggerIsWhole
=============================================================================
