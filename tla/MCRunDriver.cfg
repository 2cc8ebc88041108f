CONSTANTS
  MaxCalls = 3
  MaxTexts = 1
  MaxCancels = 1
  Tools = {"execute", "read_file"}
  GatedTools = {"execute"}
  ToolOf <- MCToolOf
  Streams = {s1}
  Choices = {"maybe", "deny"}
  RejectWords = {"deny"}
  Resends = {TRUE, FALSE}
  GraphFails = TRUE
  PruneFails = TRUE
SPECIFICATION Spec
INVARIANTS
  ApprovedBeforeExecuted OneTerminalEvent NoLostFuture EventsAreRight
PROPERTIES CancelWorks RunsMoveOn ImplementsContract
CHECK_DEADLOCK FALSE
