SPECIFICATION FairSpec
CONSTANTS
  Issue = {1}
  Epic = {1}
  EpicOf <- OneEpic
  RepoOf <- OneRepo
  Unblocks <- EvenGraph
  NoBabysit = {}
  Events = {"pause", "merge", "close", "checkpoint", "lost-arm"}
PROPERTIES DueIsDisarmed MergedIsCleaned HeldIsReleased
