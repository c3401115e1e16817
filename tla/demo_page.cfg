\* Two topics, loaded conversations of two messages, two calls at a time.
CHECK_DEADLOCK FALSE
SPECIFICATION Spec
CONSTANTS
  Topics = {"a", "b", "NONE"}
  Publishers = {"pub-1", "pub-2"}
  LoadedLength = 2
  PrivateOnly = FALSE
  Slots = {1, 2}
  MaxLength = 4
INVARIANTS DotIsOfConversation ClickCreditsTheAsker
PROPERTIES NeverStuck
