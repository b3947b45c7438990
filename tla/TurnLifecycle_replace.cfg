\* Clients' input, steers and interrupts: turns are replaced while they finish.
SPECIFICATION Spec
CONSTANTS
  UserInputs = {u1, u2, u3}
  TriggerMails = {}
  QueueMails = {q1}
  Steers = {s1}
  Injections = {}
  IdleWork = {}
  IdleInputs = {}
  MaxInterrupts = 2
  MaxGuardianAborts = 0
  MaxFollowUps = 1
  MaxTurns = 5
  MaxStates = 4
  DurableSleep = FALSE
\* A session to which nobody submits anything more rests.
CHECK_DEADLOCK FALSE
INVARIANTS EndedTurnsReported TerminalAtMostOnce ActiveTurnOwned
