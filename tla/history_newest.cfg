SPECIFICATION Spec
CONSTANTS MaxRuns = 4 Modules = {m1, m2} Workspaces <- Twins
  Outcomes = {"ok", "cancelled"} Layouts = {"flat"} Modes = {}
  MaxDeletes = 1 MaxExports = 0 MaxImports = 0 MaxRestarts = 1
INVARIANTS CarryNewest WorkspaceIsolated
SYMMETRY ModuleSymmetry
CHECK_DEADLOCK FALSE
