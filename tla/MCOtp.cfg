\* Two codes of a type are enough for a code replaced under a guess.
SPECIFICATION Spec
CONSTANTS
  Requests = {r1, r2}
  MaxAttempts = 2
  SendLimit = 3
  MaxSends = 2
INVARIANTS AttemptsAreBounded UsedWasEntered ActivationIsProved
