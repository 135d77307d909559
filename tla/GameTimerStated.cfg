SPECIFICATION TimerSpec
CONSTANTS
  Event <- MCEvent
  Reload = 20
  Period <- MCPeriod100MHz
  Stated <- MCStated75MHz
  MaxGap = 4
INVARIANTS NeverLate
