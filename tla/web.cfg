SPECIFICATION Spec
CONSTANTS
  Lists <- MCLists
  k1 = k1
  k2 = k2
  k3 = k3
  c1 = c1
  c2 = c2
  Groups = {k1, k2, k3}
  NoGroup = NoGroup
  NoCode = NoCode
  NoData = NoData
  Queues <- MCQueues
  Catalogs <- MCCatalogs
  PAGE_SIZE = 5
  MOST_GROUPS = 4
  FEW_GROUPS = 2
  Calls = {c1, c2}
  MaxTroubles = 1
  f1 = f1
  Files = {f1}
  NoFile = NoFile
  Absent = Absent
  RowsOf = 3
  ErrorsOf = 5
  SHOWN = 3
  MaxImportTroubles = 1
  p1 = p1
  p2 = p2
  People = {p1, p2}
  Anonymous = Anonymous
  NoOrg = NoOrg
  Months = {13}
  FirstMonth = 12
  NoRange = NoRange
  TRIES = 2
  MaxShellTroubles = 2
  Contents <- MCContents
  Verdicts <- MCVerdicts
  Says <- MCSays
  Chunks <- MCChunks
  Opened <- MCOpened
  Periods <- MCPeriods
  Cells <- MCCells
  Charts = {"flow"}
  Limit = 2
  Slots = 2
  NoReport = NoReport
  NoCell = NoCell
  NoPanel = NoPanel
  NoAnswer = NoAnswer
  MaxLandings = 1
  MaxReportTroubles = 1
  Datas <- MCDatas
  NoTip = NoTip
  ChartOptions <- MCChartOptions
  MaxChartTroubles = 2
  Drawings <- MCDrawings
  NoDrawing = NoDrawing
SYMMETRY PeopleSymmetry
INVARIANTS
  WebTypeOK
  ChoiceScoped
  QueueSettles
  TreeWhole
  DetailAgrees
  ReportAgrees
  ShellGate
  ChartGeometry
  ChartMotion
PROPERTIES
  ChipsForward
CHECK_DEADLOCK FALSE
