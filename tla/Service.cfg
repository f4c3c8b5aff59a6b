SPECIFICATION ServiceSpec
CONSTANTS
  Intents = {"none", "order_status", "return_request", "chat"}
  MaxTurns = 9
  Requests = {"q1", "q2"}
  MaxBatch = 2
  Media = {"f1"}
  TELEGRAM_RETRACTION_WINDOW = 3
  MESSENGER_RETRACTION_WINDOW = 1
  MaxAge = 4
  MaxSilence = 20
  parent_size = 10
  child_size = 3
  overlap = 2
  MaxTokens = 24
  Entries = {"e1", "e2"}
  max_retries = 1
  MaxJobs = 2
  ClientIds = {"a", "b"}
  FileRows = 2
  MaxIds = 3
  Tasks = {"r", "a", "b"}
  Root = "r"
  MaxSpans = 3
  Users = {"u", "v"}
  MaxEntries = 2
  BUCKET_MODULUS = 10
  MIN_SAMPLE_SIZE = 2
  Splits <- MCSplits
  Results <- MCResults
  Scores = {1, 5}
  Pairs = 3
  TokenTtl = 1
  MaxTime = 2
  MaxIssued = 2
  Names = {"root", "ops"}
  Threads = {"t1", "t2"}
  Keys = {"k1", "k2"}
  Limit = 2
  Window = 1
  MaxBuckets = 1
  MaxEvict = 1
  MaxScores = 3
  MaxNow = 2
INVARIANTS
  MaskedOnward
  PushedIsAnswered
  FailSecure
  ChunksWhole
  GroundedOrPassedOn
  QueuedAsTold
  ImportCountsAreTrue
  TokensSurvive
  ErasureIsExact
  SharesAsWeighted
  WinnerLeads
  NeverFlattered
  ChanceNeverPasses
  SpansAccounted
  GrantedByRole
  PunctualStays
  SilentIsDropped
PROPERTIES
  ImplementsFlow
  OneStepPerStreak
  PromptWithinLimit
CHECK_DEADLOCK FALSE
