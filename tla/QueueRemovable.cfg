SPECIFICATION FairSpec
CONSTANTS
  Issue = {1}
  Epic = {1}
  EpicOf <- OwnEpic
  RepoOf <- OneRepo
  Unblocks <- EvenGraph
  NoBabysit = {}
  Events = {}
PROPERTY MergedIsRemovable
