SPECIFICATION Spec
CONSTANTS
  SafeDomains = {"microsoft"}
  SafeIps = {"8.8.8.8"}
  SidBase = 100
  MaxStrings = 4
  Dull = {"k2"}
  Reports <- MCReports
  Kinds = {"all", "sigma"}
CONSTRAINT ExportAlone
INVARIANTS TypeOK RulesAreUsable OnlyThreeGaps ExportComplete
PROPERTIES RerunAddsNothing LayerCovers
