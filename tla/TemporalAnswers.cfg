CONSTANTS
  DayLen = 2
  ZoneOffset = 1
  WindowDays = 2
  Horizon = 6
  BeginForms = {"minute", "day", "ongoing"}
  EndForms = {"minute", "day", "window", "past"}
  HistoryForms = {"minute", "day", "window", "past"}
  MaxEpisodes = 2
  MaxTells = 4
  ToldForms = {"minute", "day", "approx", "dayPeriod", "period", "window", "recurring", "past"}
  Amounts = {1, 2}
  MaxObservations = 2
SPECIFICATION AnswersSpec
INVARIANTS RelationIsTrue HeldIsThroughout RangesAreTrue LatestIsCertain
CHECK_DEADLOCK FALSE
