\* The demo page against an exchange that takes sealed embeddings only.
CHECK_DEADLOCK FALSE
SPECIFICATION Spec
CONSTANTS
  Topics = {"a", "b", "NONE"}
  Publishers = {"pub-1", "pub-2"}
  LoadedLength = 2
  PrivateOnly = TRUE
  Slots = {1}
  MaxLength = 2
INVARIANT RequestIsTaken
