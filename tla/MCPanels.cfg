CONSTANTS
  PanelsUsed = {"mcp", "providers", "models", "dock", "composer", "media"}
  Servers = {ma, mb, mg}
  GlobalServer = mg
  FirstServer = ma
  MaxConfigs = 3
  MaxMcpCalls = 2
  Others = {openai}
  MaxLogins = 2
  MaxPolls = 2
  MaxSteps = 3
  Models = {m1, m2}
  MaxDeployments = 2
  MaxModelCalls = 2
  roomA = roomA
  roomB = roomB
  pathA = pathA
  pathB = pathB
  Rooms = {roomA, roomB}
  FirstRoom = roomA
  DockFiles <- SomeFiles
  FirstPath = pathA
  MaxDockActs = 1
  MaxSwitches = 2
  MaxDockCalls = 1
  Conversations = {x, y}
  FirstConversation = x
  Attachables = {p}
  Engines = {e1, e2}
  FirstEngine = e1
  MaxSends = 2
  MaxMoves = 2
  MaxGrowth = 2
  MaxTools = 2
  MaxMediaFaults = 1
SPECIFICATION SpecPanels
SYMMETRY Alike
INVARIANTS
  PanelsSaveTheirOwn  LoginIsTaken FlagIsMeasured FilesAreThere MediaShown
 
CHECK_DEADLOCK FALSE
