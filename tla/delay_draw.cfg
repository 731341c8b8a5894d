SPECIFICATION Spec
CONSTANTS
  Policies <- SomePolicies
  AutoOptions <- SomeOptions
INVARIANTS
  DrawCanEnd
PROPERTIES
  DelayIsBelowLimit
  MarkovAlwaysDelays
