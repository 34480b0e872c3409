SPECIFICATION InstructionsSpec
CONSTANTS
  None = None
  Sessions = {s}
  Actions = {a1, a2}
  MaxAttempts = 2
  MaxSwitches = 2
INVARIANT InstructionsTypeOK
PROPERTIES InstructionsAreKept EveryInstructionSettles
CHECK_DEADLOCK FALSE
