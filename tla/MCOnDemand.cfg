CONSTANTS
  URI_MAX = 3
  Styles = {"plain"}
  Hash <- HashDef
  Keys = {a, b}
  INIT_CAP = 1
  MAX_CAPS = 8
  LONG_BITS = 64
  MaxLines = 2
  MaxCells = 2
  MaxRefs = 2
  Parts = {"daemon"}
  Launches <- OnDemandDef
  MayKill = FALSE
  MousePrograms <- ReportersDef
  MouseSteps = 5
  MouseBorder = 1
  MouseCell = 2
  MouseCols = 230
  MouseRows = 2
  MouseLinks <- LinkCellsDef
  MouseUris = TRUE
  WindowSessions <- SessionsDef
  WindowTitles = {"a", "b"}
  MaxTitles = 3
  WindowSteps = 5
  NewColors = {"new"}
  ColorsCursor = "bg"
  ReverseConfigured = FALSE
  ModeGroups <- ModeGroupsDef
  ModeVersions = {0, 4}
  ModesConfigured = {"wrap", "smooth_scroll", "backspace_is_del", "autorepeat", "has_meta"}
  ModeLinks = FALSE
SPECIFICATION FrontSpec
INVARIANT OnDemand
CHECK_DEADLOCK FALSE
