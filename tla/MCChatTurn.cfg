CONSTANTS
  MaxCalls = 2
  MaxTexts = 1
  MaxCancels = 1
  Tools = {"execute"}
  GatedTools = {"execute"}
  ToolOf <- MCOneTool
  Page = s1
  Streams = {s1}
  Choices = {"approve", "reject"}
  RejectWords = {"reject"}
  Resends = {FALSE}
  GraphFails = TRUE
  PruneFails = TRUE
  MaxFaults = 1
SPECIFICATION ChatSpec
  
PROPERTY TurnsEnd
CHECK_DEADLOCK FALSE
