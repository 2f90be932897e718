SPECIFICATION Spec
CONSTANTS
  Region <- Regions
  Nearest <- NearestFirst
  preferred_region = "eu"
  failover_enabled = TRUE
  probe_sample_count = 1
  unhealthy_threshold = 2
  Rtt = {1, 2}
  Loop = {l}
  FailureMax = 2
  None = None
PROPERTY FailsOver
CHECK_DEADLOCK FALSE
