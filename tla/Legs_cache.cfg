SPECIFICATION Spec
CONSTANTS
  None = None
  Stops = {"fort", "fall"}
  Stays = {"inn"}
  Origin = "home"
  Place <- MCPlace
  Duration <- MCDuration
  Runs = {r1, r2}
  Matrices <- MCMatrices
  Tables <- MCTables
  Drafts <- MCDrafts
  MaxPlans = 2
  DayStart = 1
  LateFinish = 4
  LastMinute = 5
SYMMETRY Symmetry
INVARIANTS NoWorseThanKnown TripIsContinuous DayIsItsWeakestLeg ClockIsHonest RoutedIsRemembered
PROPERTIES BestRowSurvives
CHECK_DEADLOCK FALSE
