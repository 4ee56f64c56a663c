\* Three sensors in rings of two samples; seven sensors in three layouts, three acts of
\* the user; four requests to save; two builds of two reads each.
CONSTANTS
  GraphIds = {"a", "b", "c"}
  UnitOf <- MCUnits
  Capacity = 2
  Histories = {3, 4}
  RefreshTime = 1
  StaleTime = 2
  GraphMaxTime = 6
  Sensors <- MCSensors
  KindOf <- MCKinds
  MeasuredIn <- MCMeasuredIn
  SectionOf <- MCSectionOf
  Sections <- MCSections
  MaxIds = 3
  MaxSources = 2
  TrayRowsMax = 3
  Layouts <- MCLayouts
  Initially <- MCDefaults
  Imports <- MCImports
  MaxEdits = 3
  MaxRequests = 4
  b1 = b1
  b2 = b2
  Builds <- MCBuilds
  Full = 2
SPECIFICATION DesktopSpec
INVARIANTS
  DesktopTypeOK
  GraphIsTrue
  DisplayIsConsistent
  NothingLostSilently
  FlushedAtExit
  DownloadIsSound
PROPERTIES
  ClickToggles
  SavedAsShown
  CloseEnds
