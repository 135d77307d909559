SPECIFICATION FairSpec
CONSTANTS
  TABLE_HEIGHT = 12
  TABLE_WIDTH = 20
  PADDLE_OFFSET = 2
  PADDLE_LENGTH = 4
  PADDLE_WIDTH = 2
  BALL_WIDTH = 2
  WIN_SCORE = 2
  Command <- MCCommand
INVARIANTS BallInField OneWinner
PROPERTIES TurnsOnlyAtContact RallyGoesOn
CHECK_DEADLOCK FALSE
