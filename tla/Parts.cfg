SPECIFICATION Spec
CONSTANTS
  Star = "*"
  Letters = {"a", "b"}
  MaxPattern = 5
  MaxDest = 5
  MaxSpans = 4
  MaxText = 9
  Presets <- MCPresets
  DefaultPreset <- MCDefaultPreset
  LatencyBounds <- MCLatencyBounds
  ClosedTraces <- MCClosedTraces
  FirstNow = 15
  LastNow = 26
  MaxToolRounds = 2
  MaxSends = 4
  MaxVisits = 2
  BodyLimit = 2
  Hour = 2
  Day = 6
  Width = 6
  Quarter = 1
  ToolRows = 1
  ToolRowsMax = 2
  Matches = 1
  MatchesMax = 2
  PageRows = 2
  PageRowsMax = 3
  Atoi <- MCAtoi
  BufSize = 1
  Publishers = {"collector", "processor"}
  MaxPublished = 2
  MaxSubscribers = 2
INVARIANTS
  ErrorTaxonomy
  AgentAndSpanAgree
  MaskedIsWarned
  ReadBack
  OtlpErrorsKept
  MapCountsEveryCall
  AnsweredAsAsked
  CopiesAccounted
  MatchIsGlob
  LabelGroupsRuns
  SnippetWellCut
  KeywordShown
  SelectionStaysPut
  GoneMeansScrolledOff
  AnswersFitThread
  QuestionsAccounted
  ContextIsConversation
PROPERTIES
  PendingEnds
CHECK_DEADLOCK FALSE
