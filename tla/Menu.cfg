CONSTANTS
  Chars = {"a", "*", " "}
  Refused = {"*"}
  Blank = " "
  Columns = 5
  Step = 2
  Limit = 5
  Rows = 6
  MaxFiles = 5
  Listings <- MCListings
  Configs <- MCConfigs
  MaxChanged = 2
  Defaults <- MCDefaults
SPECIFICATION Spec
INVARIANTS ScreenTrue
PROPERTIES ImplementsEditor ImplementsPages DoesWhatItSays
