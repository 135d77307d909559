SPECIFICATION MainFairSpec
CONSTANTS
  TABLE_HEIGHT = 10
  TABLE_WIDTH = 12
  PADDLE_OFFSET = 2
  PADDLE_LENGTH = 2
  PADDLE_WIDTH = 2
  BALL_WIDTH = 2
  WIN_SCORE = 2
  SENSOR_MAX_THRESHOLD = 5
  SENSOR_MIN_THRESHOLD = 1
  SENSOR_EXPONENTIAL_DECAY_PERCENTAGE = 60
  Reading <- MCReading
  Uninitialized <- MCUninitialized
  Command <- MCCommand
INVARIANTS SpritesOnScreen ReportedOnce
PROPERTIES PlaysPong
CHECK_DEADLOCK FALSE
