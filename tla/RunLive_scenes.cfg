SPECIFICATION SceneSpec
CONSTANTS
  Fragments = {"mock_provider_a", "mock_provider_b", "pricing"}
  LegacyPair <- Pair
  Texts = {"", "t", "u"}
  EmptyText = ""
  NoText = "unread"
  Secrets = {"s", "q"}
  Leaks <- SmallLeaks
  Chars <- SmallChars
  Plans <- AllAndSwapped
  AnswerTexts = {"", "yes", "odd"}
  Unencodable = {"odd"}
  StopReasons = {"end_turn", "length", "odd"}
  SeatArgs <- AllSeatArgs
  ChainArgs = {"none", "other", "kept"}
  OtherFiles <- AllOthers
  Users = {"yes", "tty", "no_tty"}
  Envs <- AllEnvs
  MaxRuns = 3
  MaxEdits = 1
INVARIANTS
  TypeOK
  OnlyVettedBytesLeave
  ReceiptTellsTheWire
  ExitCodeTellsTheDisclosure
  OneMessagePerSeat
  ParentsAreGenuine
  AcceptedChainsAreHistory
PROPERTIES
  ImplementsPromise
  EvidenceLasts
  RunEnds
  RunsRunOut
CHECK_DEADLOCK FALSE
