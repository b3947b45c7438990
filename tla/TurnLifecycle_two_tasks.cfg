\* An aborted task that finishes against the next turn.
SPECIFICATION Spec
CONSTANTS
  UserInputs = {u1, u2}
  TriggerMails = {}
  QueueMails = {}
  Steers = {}
  Injections = {}
  IdleWork = {}
  IdleInputs = {x1}
  MaxInterrupts = 1
  MaxGuardianAborts = 0
  MaxFollowUps = 0
  MaxTurns = 4
  MaxStates = 5
  DurableSleep = FALSE
\* A session to which nobody submits anything more rests.
CHECK_DEADLOCK FALSE
INVARIANTS AtMostOneTask
