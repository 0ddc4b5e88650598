SPECIFICATION Spec
CONSTANTS
  Fragments = {"mock_provider_a", "mock_provider_b"}
  LegacyPair <- Pair
  Texts = {"", "t"}
  EmptyText = ""
  NoText = "unread"
  Secrets = {"q"}
  Leaks <- SmallLeaks
  Chars <- SmallChars
  Plans <- LegacyPlans
  AnswerTexts = {"", "yes"}
  Unencodable = {}
  StopReasons = {"end_turn"}
  SeatArgs <- NoSeatArgs
  ChainArgs = {"none", "own", "other"}
  OtherFiles <- AllOthers
  Users = {"yes"}
  Envs <- OneEnv
  MaxRuns = 2
  MaxEdits = 0
INVARIANT VerifyBothSucceeds
CHECK_DEADLOCK FALSE
