SPECIFICATION ApiSpec
CONSTANTS
  Nil = Nil
  Gone = Gone
  Crash = Crash
  Collation <- Strings
  MaxUint = 7
  MaxTime = 1
  FloatBits = 2
  Trimmed <- Trim1
  JsonText <- Json1
  RuneCount <- Lengths
  Emails = {"e@x"}
  JobIds = {"a", "b", "c"}
  TaskIds <- TaskNames
  Hash <- Fnv
  UserEmail = "e@x"
  WeightModulus = 8
  Submissions = {"news", "shop", "full", "deep", "deepest", "wrap", "empty"}
  ConfigOf <- Configs
  WeightsOf <- Weights
  UserID = "u1"
  PreviewIds = {"pv1", "pv2"}
  DefaultLimit = 2
  MaxLimit = 3
  Samples <- Calls
  Workloads <- AllWorkloads
  Pages <- Site
  TextOps <- Texts
  NumberOps <- Numbers
  ParseBool <- Bools
  ParsedURLs = {"/a", "/b", "/link", "/p", "p"}
  Resolved <- Absolute
  LimitArg <- Limits
  Printed <- Decimals
  ByteOrder <- Bytewise
INVARIANTS
  ApiTypeOK
  PassIsExact
  ReadersAgree
  ConfigSurvives
  EveryCallIsChecked
  PreviewIsBacked
  RoutedWithinReach
  AnalyticsConsistent
PROPERTIES
  ReportTellsResults
CHECK_DEADLOCK FALSE
