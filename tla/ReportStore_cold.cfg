CONSTANTS
  base = base edited = edited grown = grown e1 = e1 e2 = e2
  Exporters = {e1, e2}
  Readers = {"ui", "preload"}
  Analyses = {base, edited, grown}
  Functions <- MCFunctions
  Exported <- MCFunctions
  Slack = 1
  Setups <- ManyFiles
  None = None
  Unreadable = Unreadable
SPECIFICATION Spec
INVARIANTS ColdLookupFindsDisk
CHECK_DEADLOCK FALSE
