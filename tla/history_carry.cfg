SPECIFICATION Spec
CONSTANTS MaxRuns = 4 Modules = {m1, m2} Workspaces <- One
  Outcomes = {"ok", "late"} Layouts = {"flat"} Modes = {"skip_existing", "overwrite", "rename"}
  MaxDeletes = 1 MaxExports = 1 MaxImports = 1 MaxRestarts = 0
INVARIANTS TypeOK CarriedAgeTrue CarryNamesProducer
PROPERTY ImportKeepsRuns
SYMMETRY ModuleSymmetry
CHECK_DEADLOCK FALSE
