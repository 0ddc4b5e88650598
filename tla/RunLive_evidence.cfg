SPECIFICATION Spec
CONSTANTS
  Fragments = {"mock_provider_a", "mock_provider_b"}
  LegacyPair <- Pair
  Texts = {"", "t"}
  EmptyText = ""
  NoText = "unread"
  Secrets = {"q"}
  Leaks <- SmallLeaks
  Chars <- SmallChars
  Plans <- TaskPlans
  AnswerTexts = {"", "yes", "odd"}
  Unencodable = {"odd"}
  StopReasons = {"end_turn", "length", "odd"}
  SeatArgs <- NoSeatArgs
  ChainArgs = {"none"}
  OtherFiles <- NoOther
  Users = {"yes"}
  Envs <- OneEnv
  MaxRuns = 1
  MaxEdits = 0
INVARIANT FailuresLeaveEvidence
CHECK_DEADLOCK FALSE
