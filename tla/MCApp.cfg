SPECIFICATION AppSpec
CONSTANTS
  Command = {g1, g2}
  Path <- MCPath
  None = None
  PubOf <- MCPubOf
  Commands <- MCCommands
  Ports = {1, 2, 3, 4}
  MaxFailures = 2
INVARIANT NoHalfStart
INVARIANT FirstReportIsTheReason
INVARIANT SecretNotExposed
INVARIANT SuccessLeavesPair
PROPERTY FailureEndsRun
PROPERTY OldFilesKept
CHECK_DEADLOCK FALSE
