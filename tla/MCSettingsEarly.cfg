\* The instance of MCDesktop.
CONSTANTS
  GraphIds = {"a", "b", "c"}
  UnitOf <- MCUnits
  Capacity = 2
  Histories = {3, 4}
  RefreshTime = 1
  StaleTime = 2
  GraphMaxTime = 6
  Sensors <- MCSensors
  KindOf <- MCKinds
  MeasuredIn <- MCMeasuredIn
  SectionOf <- MCSectionOf
  Sections <- MCSections
  MaxIds = 3
  MaxSources = 2
  TrayRowsMax = 3
  Layouts <- MCLayouts
  Initially <- MCDefaults
  Imports <- MCImports
  MaxEdits = 3
  MaxRequests = 4
  b1 = b1
  b2 = b2
  Builds <- MCBuilds
  Full = 2
SPECIFICATION DesktopSpec
PROPERTY EarlyDialogKeepsSelection
