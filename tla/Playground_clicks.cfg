SPECIFICATION FairSpec
CONSTANTS
  l1 = l1
  l2 = l2
  m1 = m1
  c1 = c1
  c2 = c2
  Examples <- TwoExamples
  FirstEx = "00_private_matter"
  Nothing = "nothing"
  Loads <- TwoLoads
  FirstLoad = l1
  Mocks <- OneMock
  Checks <- TwoChecks
  MaxClicks = 4
INVARIANTS
  TypeOK
  ButtonsVerifyWhatIsShown
  QuietPageIsOneExample
  QuietVerdictsFit
  NoPressIsForgotten
PROPERTY PressesAreAnswered
CHECK_DEADLOCK FALSE
