CONSTANTS
  Callers = {"c1", "c2"}
  Asks <- MCAsks
  Bases <- MCBases
  Catalogs <- MCCatalogs
  Sketches <- MCSketches
  PageSize = 6
  MaxPages = 2
  MaxProbes = 1
  MaxEdits = 1
  MaxAnalysed = 3
  Snapshots <- MCSnapshots
  Columns = {1, 2, 3, 4}
  Aliases = {"n"}
  MaxOps = 3
SPECIFICATION WorkbenchSpec
INVARIANTS AnalysisExact RecipesBuildClean
PROPERTIES ProbesKeepCables PreviewTells
CHECK_DEADLOCK FALSE
