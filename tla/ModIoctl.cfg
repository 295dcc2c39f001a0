SPECIFICATION Spec
CONSTANTS
  Limit = 32
  Options <- MCOptions
  Addresses <- MCAddresses
INVARIANTS TypeOK SendsWhatIsAsked StatusTells RefusalHasCause
CHECK_DEADLOCK FALSE
