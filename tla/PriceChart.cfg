SPECIFICATION FairChartSpec
CONSTANTS
  Prices = {1, 2}
  MaxHistory = 2
  MaxSkew = 1
  NoSeries = NoSeries
  LastMinute = 3
INVARIANTS
  ChartInOrder
  SeriesShowsHistory
PROPERTIES
  NothingAfterUnmount
  HistoryArrives
CHECK_DEADLOCK FALSE
