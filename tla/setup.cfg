SPECIFICATION MCSpec
CONSTANTS
  x = x
  y = y
  z = z
  main = main
  aux = aux
  LinkNames = {x, y, z}
  ResourceNames = {main, aux}
  Unset = unset
  ComponentIds = {1, 2}
  Configs <- MCConfigs
  Tables <- MCTables
  MaxLinks = 2
  MaxPools = 1
  MaxTransports = 1
  NoEpoch = none
  Processes = {p, q}
  MaxEpoch = 2
  t1 = t1
  t2 = t2
  t3 = t3
  Threads = {t1, t2, t3}
  Sessions = {1, 2}
  MaxSequence = 1
  MaxStarts = 2
INVARIANTS GrantedOnce EntriesDistinct EntriesKept SourcesAgree IdentitiesUnique OneRotation
PROPERTIES EpochsNeverReturn StaleLinkStays RotationEnds
