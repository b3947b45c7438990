\* Mail that asks for a turn, mail that does not, an extension's idle work and idle
\* input compete to start turns; nothing is aborted, scheduling is fair.
SPECIFICATION FairSpec
CONSTANTS
  UserInputs = {}
  TriggerMails = {m1}
  QueueMails = {q1}
  Steers = {}
  Injections = {}
  IdleWork = {w1}
  IdleInputs = {x1, x2}
  MaxInterrupts = 0
  MaxGuardianAborts = 0
  MaxFollowUps = 0
  MaxTurns = 10
  MaxStates = 5
  DurableSleep = FALSE
\* A session to which nobody submits anything more rests.
CHECK_DEADLOCK FALSE
INVARIANTS AtMostOneTask 
PROPERTIES TriggerMailWakes
