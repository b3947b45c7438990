\* Durably sleeping thread with a guardian abort, an interrupt and an injected item.
SPECIFICATION Spec
CONSTANTS
  UserInputs = {u1}
  TriggerMails = {}
  QueueMails = {q1}
  Steers = {}
  Injections = {i1}
  IdleWork = {}
  IdleInputs = {}
  MaxInterrupts = 1
  MaxGuardianAborts = 1
  MaxFollowUps = 0
  MaxTurns = 6
  MaxStates = 5
  DurableSleep = TRUE
\* A session to which nobody submits anything more rests.
CHECK_DEADLOCK FALSE
INVARIANTS NeverDuplicated
