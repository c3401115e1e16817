\* Registrations, updates and deletions race while statements fail and the server
\* crashes; two calls of sync overlap.
CHECK_DEADLOCK FALSE
SPECIFICATION SyncSpec
CONSTANTS
  Writers = {w1, w2}
  MaxId = 2
  MaxWrites = 2
  Embeddings = {e1, e2}
  Terms = {t1}
  GroupSizes = {1}
  Operations = {"update", "delete", "crash"}
  Faults = {"embed", "persist"}
  Fetches = {f1, f2}
  Absent = Absent
SYMMETRY Alike
INVARIANTS VersionCurrent AnsweredIsDurable
PROPERTIES FreshUnlessReverted
