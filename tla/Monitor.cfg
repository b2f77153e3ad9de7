CONSTANTS
  CRT_ROWS = 3
  CRT_COLS = 3
  BUFLEN = 6
  Prompt <- MCPrompt
  Input = {"a", "b", " ", "BS", "NL"}
  Control = {"BS", "NL", "CR", "TAB"}
  Cursors = {4}
  MaxCalls = 2
  MAXARGS = 3
  Commands <- MCCommands
  Reports <- MCReports
  Greeting <- MCGreeting
  Formats <- MCFormats
  Message <- MCMessage
  Warning <- MCWarning
  MaxWarnings = 1
  Complaint <- MCComplaint
  HighBytes = {"b"}
SPECIFICATION PanicFairSpec
CHECK_DEADLOCK FALSE
INVARIANTS
  MonitorTypeOK
  ScreenShowsLine
  ArgumentsAreWords
  FirstPanicTold
PROPERTIES
  ReturnsWhatIsShown
  CommandOfFirstWord
  LineIsAnswered
