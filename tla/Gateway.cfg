SPECIFICATION GatewayFairSpec
CONSTANTS
  NoMessage = NoMessage
  Message = {m1, m2, m3}
  Buffer = 1
  Cancelling = {m1, m2, m3}
  MaxStops = 1
INVARIANTS TurnExclusive ActiveIsLive TurnInReach
PROPERTIES WaitersProceed CancelledEnds
CHECK_DEADLOCK FALSE
