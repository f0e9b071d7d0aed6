SPECIFICATION FairSpec
CONSTANTS
  None = None
  Events = {"checkpoint", "snapshot-fails", "pane-dies", "launch-fails", "fix", "uncertain", "merge-elsewhere"}
INVARIANTS
  TypeOK
  CleanedOnlyMerged
  NoSecondAgent
  RestartKnows
  UncertainIsNotResent
PROPERTIES
  MergeIsNotForgotten
