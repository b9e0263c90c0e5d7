\* One asset of six makes, two workers, two operations; one message of every sort.
SPECIFICATION WorkerJobs
CONSTANTS
  a1 = a1
  w1 = w1
  w2 = w2
  o1 = o1
  o2 = o2
  Assets <- MCAssets
  Uploads <- MCUploads
  Workers <- MCWorkers
  Ops <- MCOps
  NoAsset = NoAsset
  Configured = TRUE
  MaxOps = 2
  Models = {"gpt", "mini", "nano", "max", "placeholder"}
  Default = "gpt"
  Agents = "placeholder"
  Blank = "blank"
  Tools = {"echo", "upper", "shell"}
  LocalTools = {"echo", "upper"}
  Inputs <- MCInputs
  MaxHops = 2
  MaxToolRounds = 4
INVARIANTS
  TypesOK
  BytesKept
  SettledIsBacked
  PendingAccounted
  RunMatchesReply
  AgentWithinBounds
  AnsweredDespiteAgent
PROPERTIES
  ReadyIsFinal
  AssetsSettle
  ContainersStop
CHECK_DEADLOCK FALSE
