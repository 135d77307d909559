-------------------------------- MODULE Pong --------------------------------
(***************************************************************************)
(* The rules of the game: software/app/pong.c with ball.c, paddle.c and    *)
(* table.c.  The state is the struct `game` of pong.h; the only operation  *)
(* main() calls on it is update(), with the two paddle positions that the  *)
(* sensors command.                                                        *)
(*                                                                         *)
(* The ball moves one pixel per update in each axis, and both collision    *)
(* tests compare for EQUALITY (pong.c:71 and :77): a ball that ever skips  *)
(* the plane of a paddle or of a wall is lost.  The properties below say   *)
(* that it never does, for every geometry that GeometryAssumption admits.  *)
(***************************************************************************)
EXTENDS Integers

CONSTANTS
  TABLE_HEIGHT, TABLE_WIDTH,      \* pixels
  PADDLE_OFFSET,                  \* distance of a paddle from its edge
  PADDLE_LENGTH, PADDLE_WIDTH,
  BALL_WIDTH,
  WIN_SCORE,
  Command                         \* the positions a paddle may be commanded to

Side == {"right", "left"}
Other(s) == IF s = "right" THEN "left" ELSE "right"

(* The derived distances; every division is C's, of a positive operand.    *)
PaddleX   == TABLE_WIDTH \div 2 - PADDLE_OFFSET
ReachX    == PADDLE_WIDTH \div 2 + BALL_WIDTH \div 2
ReachY    == PADDLE_LENGTH \div 2 + BALL_WIDTH \div 2
WallY     == TABLE_HEIGHT \div 2 - BALL_WIDTH \div 2
PaddleMax == TABLE_HEIGHT \div 2 - PADDLE_LENGTH \div 2

ASSUME GeometryAssumption ==
  /\ TABLE_HEIGHT \in Nat /\ TABLE_WIDTH \in Nat /\ PADDLE_OFFSET \in Nat
  /\ PADDLE_LENGTH \in Nat /\ PADDLE_WIDTH \in Nat /\ BALL_WIDTH \in Nat
  /\ PaddleX > ReachX             \* the paddle planes do not meet at the centre
  /\ WallY > 0
  /\ PaddleMax >= 0               \* a paddle is no longer than the table is high
  /\ TABLE_HEIGHT < 2 ^ 15 /\ TABLE_WIDTH < 2 ^ 15       \* int16_t coordinates

ASSUME WinScoreAssumption == WIN_SCORE \in 1 .. 255      \* uint8_t scores

ASSUME CommandAssumption == Command \subseteq Int

VARIABLES
  ball,       \* [x, y, dx, dy]
  paddleY,    \* per side, the centre of its paddle
  score,      \* per side
  win         \* per side: has it won

gameVars == <<ball, paddleY, score, win>>

Abs(v) == IF v > 0 THEN v ELSE -v                        \* byteAbs

PaddlePos(s) == IF s = "right" THEN PaddleX ELSE -PaddleX

start ==
  /\ ball = [x |-> 0, y |-> 0, dx |-> 1, dy |-> 1]
  /\ paddleY = [s \in Side |-> 0]
  /\ score = [s \in Side |-> 0]
  /\ win = [s \in Side |-> FALSE]

-----------------------------------------------------------------------------

(* Definitions named X_fault are faulty variants of X, kept to show that   *)
(* the properties below notice the fault; no specification uses them.      *)


pointScoredAgainst(b, s) == b.x * PaddlePos(s) > 0 /\ Abs(b.x) > Abs(PaddlePos(s))

collisionWithPaddle_within(b, s) ==       \* the planes compared with <=
  Abs(b.x - PaddlePos(s)) <= ReachX /\ Abs(b.y - paddleY[s]) < ReachY


collisionWithPaddle(b, s) ==
  /\ Abs(b.x - PaddlePos(s)) = ReachX
  /\ Abs(b.y - paddleY[s]) < ReachY

collisionWithTable_signed(b) == b.y = WallY              \* abs forgotten

collisionWithTable(b) == Abs(b.y) = WallY

resetBall(b) ==                           \* the velocity is kept
  [x |-> 0, y |-> 0, dx |-> b.dx, dy |-> b.dy]
bounceOffPaddle(b) == [b EXCEPT !.dx = -@]
bounceOffTable(b)  == [b EXCEPT !.dy = -@]
moveBall(b) == [x |-> b.x + b.dx, y |-> b.y + b.dy, dx |-> b.dx, dy |-> b.dy]

(* The two clamps of getPaddleInside, in the order of the code.            *)
getPaddleInside(y) ==
  LET high == IF y > PaddleMax THEN PaddleMax ELSE y
  IN  IF high < -PaddleMax THEN -PaddleMax ELSE high

(* Side s gets a point; updateScore gives at most one, to the left first.  *)
Point(s) == pointScoredAgainst(ball, Other(s))

updateScore_late ==                       \* the score tested before the point
  /\ score' = [s \in Side |-> IF Point(s) THEN (score[s] + 1) % 256 ELSE score[s]]
  /\ win' = [s \in Side |-> win[s] \/ score[s] = WIN_SCORE]

updateScore ==
  /\ score' = [s \in Side |->
       IF Point(s) /\ ~ (s = "right" /\ Point("left"))
       THEN (score[s] + 1) % 256 ELSE score[s]]
  /\ win' = [s \in Side |-> win[s] \/ score'[s] = WIN_SCORE]

updatePosition(command) ==
  LET Reset(b)  == IF \E s \in Side : pointScoredAgainst(b, s)
                   THEN resetBall(b) ELSE b
      Paddle(b) == IF \E s \in Side : collisionWithPaddle(b, s)
                   THEN bounceOffPaddle(b) ELSE b
      Table(b)  == IF collisionWithTable(b) THEN bounceOffTable(b) ELSE b
  IN  /\ ball' = moveBall(Table(Paddle(Reset(ball))))
      /\ paddleY' = [s \in Side |-> getPaddleInside(command[s])]

update(command) == updateScore /\ updatePosition(command)

(* main() stops calling update() once a side has won (main.c:93).          *)
NoWinner == \A s \in Side : ~ win[s]

Next == NoWinner /\ \E command \in [Side -> Command] : update(command)

Spec == start /\ [][Next]_gameVars

FairSpec == Spec /\ WF_gameVars(Next)

-----------------------------------------------------------------------------
(* Type correctness of the struct: the ball moves diagonally by one pixel, *)
(* the scores are bytes.                                                   *)
TypeOK ==
  /\ ball \in [x : Int, y : Int, dx : {-1, 1}, dy : {-1, 1}]
  /\ paddleY \in [Side -> Int]
  /\ score \in [Side -> 0 .. 255]
  /\ win \in [Side -> BOOLEAN]

(* The ball never leaves the field: it stays between the walls, and it is  *)
(* at most one pixel behind a paddle, where the next update scores it.     *)
(* The equality tests of collisionWithTable and collisionWithPaddle would  *)
(* let it escape (until int16_t wraps) if one pixel were ever skipped.     *)
BallInField ==
  /\ Abs(ball.y) <= WallY
  /\ Abs(ball.x) <= PaddleX + 1

(* After the first update both paddles lie inside the table whatever       *)
(* position was commanded (getPaddleInside).                               *)
PaddlesInside == \A s \in Side : Abs(paddleY[s]) <= PaddleMax

(* Nobody wins without WIN_SCORE points, nobody scores past WIN_SCORE, and *)
(* at most one side wins: updateScore tests the scores for equality, so a  *)
(* score that passed WIN_SCORE would make the game endless.                *)
OneWinner ==
  /\ \A s \in Side : score[s] <= WIN_SCORE /\ (win[s] <=> score[s] = WIN_SCORE)
  /\ ~ (win["right"] /\ win["left"])

(* The ball is turned only by what it touches.  Horizontally it turns back *)
(* from a paddle it was heading for, at the paddle's plane and with the    *)
(* paddle there: never a second time on its way out, though the paddles    *)
(* jump to their targets between two updates.  Vertically it turns at a    *)
(* wall.                                                                   *)
TurnsOnlyAtContact ==
  [][ /\ ball'.dx # ball.dx =>
           \E s \in Side :
             /\ ball.dx * PaddlePos(s) > 0
             /\ ball.x * PaddlePos(s) > 0 /\ Abs(ball.x) = PaddleX - ReachX
             /\ Abs(ball.y - paddleY[s]) < ReachY
      /\ ball'.dy # ball.dy => Abs(ball.y) = WallY ]_gameVars

(* A rally never stalls: until somebody has won, the ball comes to both    *)
(* ends again and again, because an update keeps happening.  It does not   *)
(* stick to a paddle or a wall, or swing in a part of the field.           *)
AtEnd(s) == ball.x * PaddlePos(s) > 0 /\ Abs(ball.x) >= PaddleX - ReachX

RallyGoesOn == \A s \in Side : []<>(AtEnd(s) \/ ~ NoWinner)
=============================================================================
