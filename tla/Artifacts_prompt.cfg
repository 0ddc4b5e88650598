SPECIFICATION Spec
CONSTANTS
  k1 = k1
  k2 = k2
  k3 = k3
  Providers <- TwoProviders
  Commands <- ThreeCommands
  Jobs <- AllJobs
  Plans = {"pair", "answered", "unanswered"}
  Digits = {"0", "1"}
  Absent = Absent
  Torn = Torn
  MaxEvents = 3
  MaxTogether = 2
INVARIANTS
  ReceiptTellsThePrompt
SYMMETRY Symmetry
CHECK_DEADLOCK FALSE
