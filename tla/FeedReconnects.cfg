CONSTANTS
  MaxSockets = 4
  MaxLive = 2
  MaxReports = 3
  MaxPoints = 2
  None = None
SPECIFICATION FairSpec
INVARIANTS NeverStranded OneFeedUnlessRaced SeriesOrdered
PROPERTIES Reconnects
