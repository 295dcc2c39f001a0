SPECIFICATION Spec
CONSTANTS
  Iterations = 2
  NS = 3
  MaxElapsed = 4
  Steps <- MCSteps
  Live <- MCLive
  Faulting <- MCFaulting
INVARIANTS TypeOK LoopRunsItsIterations KernelRegistersKept LoggedIsElapsed EveryRowLogged
PROPERTY CallReturns
CHECK_DEADLOCK FALSE
