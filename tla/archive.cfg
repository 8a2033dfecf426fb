SPECIFICATION FairSpec
CONSTANTS
  MaxLines = 2
  MaxVersions = 2
  MaxFaults = 2
CHECK_DEADLOCK FALSE
INVARIANTS ArchiveConsistent ReadersSeeAll
PROPERTIES NoRevival ArchiveSettles
