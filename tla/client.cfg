SPECIFICATION FairSpec
CONSTANTS
  Hosts <- MCHosts
  MaxIn = 3
  MaxFaults = 4
INVARIANTS
  StaleEventsUnheard
  NeverStuck
  NoMessageForgotten
  GuiTellsTheTruth
PROPERTIES
  ComesBack
CHECK_DEADLOCK FALSE
