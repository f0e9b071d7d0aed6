SPECIFICATION Spec
CONSTANTS
  Issue = {1, 2}
  Epic = {1, 2}
  EpicOf <- OwnEpic
  RepoOf <- OneRepo
  Unblocks <- EvenGraph
  NoBabysit = {2}
  Events = {"close", "checkpoint", "snapshot-fails"}
INVARIANTS TypeOK ArmedOffQueueIsDue CleanedOnlyMerged AnswerMatchesPending PushesAreUnarmed
PROPERTIES StageNeverRegresses NextHeadArmed
