SPECIFICATION Spec
CONSTANTS
  None = None
  c1 = c1
  c2 = c2
  cal = cal
  ev = ev
  Caller = {c1, c2}
  Key <- MCKey
  TaskSource = {cal}
  Nonce = {1}
  Ttl = 3
  Window = 1
  MaxTime = 4
  Occurrence = {1, 2}
  Schedule = {cal}
  Cron = Cron
  Trigger <- MCTrigger
  Period = 2
  Event <- MCEvent
  MaxCalls = 4
SYMMETRY Callers
INVARIANTS
  AdapterQueuesOnce
  RecordsAreLive
  LastEditHolds

  
CHECK_DEADLOCK FALSE
