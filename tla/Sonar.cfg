SPECIFICATION SonarFairSpec
CONSTANTS
  R = 4
  MaxCount = 6
  MaxWidth = 24
  PULSE_PERIOD_IN_CLOCKS = 28
  LARGURA = 3
  EchoDeadline = 22
INVARIANTS MeasuresPulse ReadingIsAnEcho
PROPERTIES TriggerIsWhole EchoIsDisplayed
