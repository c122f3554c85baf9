SPECIFICATION Spec
CONSTANTS
  None = None
  u1 = u1
  LastMinute = 2
  Users = {u1}
  Stocks = {1, 2}
  Watchlists <- MCWatchlists
  HourlyMinutes = {1}
  DailyMinutes = {0, 2}
  ResearchMinutes = {1}
  TradeDays = {0}
  HourOf <- MCHourOf
  DayOf <- MCDayOf
  UtcDayOf <- MCDayOf
  SessionIds = {1, 2}
  MaxEvents = 1
INVARIANTS ShownIsStored SlotsAreAccounted OneLiveAnalysis
PROPERTIES SlotIsNotMissed
