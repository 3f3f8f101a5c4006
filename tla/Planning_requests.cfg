SPECIFICATION Spec
CONSTANTS
  None = None
  Pois = {"fort", "fall", "trek", "inn"}
  Towns = {"town"}
  Districts = {"d1", "d2"}
  Tags = {"heritage", "water"}
  Interests = {"heritage", "water"}
  Months = {1, 2}
  Bands = {1, 2}
  MaxDays = 2
  Points = {0, 1, 3}
  Increments = {2, 3}
  DefaultRadius = 2
  Enough = 2
  MaxPlaces = 2
  MaxStays = 1
  MaxActivities = 2
  Today = 1
  Facts <- MCFacts
  TownFact <- MCTownFact
  Forms <- MCForms
  MaxAttempts = 2
  MaxChanges = 1
  MaxClicks = 2
INVARIANTS TwoClicksSuffice VerdictIsRight ReplayKeepsTheAsk EmptyIsExplained
CHECK_DEADLOCK FALSE
