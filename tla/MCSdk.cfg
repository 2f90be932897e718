SPECIFICATION SdkSpec
CONSTANTS
  minimum_requests = 2
  window_ms = 2
  open_duration_ms = 2
  half_open_requests = 2
  ThresholdPercent = 50
  NowMax = 4
  PendingMax = 3
  None = None
  a = a
  b = b
CONSTRAINT FewRequests
INVARIANTS HalfOpenNotStuck ClocksTellCausality  BatchSettled  ScatterShowsNewest MetricsAgree FindsEveryCrossing ShapesArrive
PROPERTIES  FailsOver
CHECK_DEADLOCK FALSE
