\* Each page of the portal with two requests, or two tabs, at a time.
CHECK_DEADLOCK FALSE
SPECIFICATION Spec
CONSTANTS
  Names = {"m", "n"}
  Amounts = {0, 2}
  Saves = {1, 2}
  MaxVersion = 3
  Titles = {"", "t"}
  MaxCreative = 2
  MaxChange = 3
  Ops = {1, 2}
  Filters = {"all", "some"}
  Limit = 1
  MaxRows = 2
  Asks = {1, 2}
  Publishers = {"p", "q"}
  Links = {"q"}
  Windows = {1, 2}
  Tabs = {1, 2}
  Passwords = {"old", "new"}
  MaxRotations = 2
  Creators = {1, 2}
  Emails = {"e", "f"}
  NoEmail = ""
  MaxPublishers = 3
INVARIANTS ShowsStoredProfile ListIsTable ShowsWhatIsSet OnePublisher AccountsWork
PROPERTIES RefusedConsoleEnds
