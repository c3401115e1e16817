\* Registrations, groups and deletions race; the sidecar may fail; a cache keeps syncing.
CHECK_DEADLOCK FALSE
SPECIFICATION FairSyncSpec
CONSTANTS
  Writers = {w1, w2}
  MaxId = 2
  MaxWrites = 3
  Embeddings = {e1}
  Terms = {t1}
  GroupSizes = {2}
  Operations = {"delete"}
  Faults = {"embed"}
  Fetches = {f1}
  Absent = Absent
INVARIANTS MemoryMatchesTable NoOrphans AllOrNothing
PROPERTIES EventuallyFresh
