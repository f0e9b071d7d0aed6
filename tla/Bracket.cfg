SPECIFICATION FairSpec
CONSTANTS
  Finisher = {f1}
  Engine = Engine
  Free = Free
  Jammed = Jammed
  Events = {"report", "refresh", "checkpoint", "gate", "no-capacity", "pane-dies", "cli-dies"}
INVARIANTS
  TypeOK
  TornOnlyMergedOrAsked
  BranchGoneOnlyMerged
  NoAgentWithoutTree
  SettledIsTorn
  MergedMeansMerged
PROPERTY LostFinishHeals
CHECK_DEADLOCK FALSE
