SPECIFICATION FairSpec
CONSTANTS
  c = c
  h = h
  p = p
  Computers <- MCComputers
  Phones <- MCPhones
  Primary = p
  MaxTexts = 2
  MaxTwists = 2
  Large = {1}
  Retries = 1
INVARIANTS
  SharingTypeOK
  OthersFollowOwner
  LastCopyWins
PROPERTIES
  ComesToRest
CHECK_DEADLOCK FALSE
