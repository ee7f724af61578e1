CONSTANTS
  SHIP_GAME_BOARD_SIZE = 3
  AMOUNT_OF_SHIP = 2
  ShipLength <- MCShipLength
  Layouts <- MCNone
  ShotArgs <- MCNone
  IntSpan = 64
  Fleets <- MCFleets
  Clicks <- MCClicks
  MaxRequests = 2
  MaxLosses = 0
  Prompt = TRUE
  Patient = TRUE
VIEW MCView
SPECIFICATION SysSpec
INVARIANTS ReaderSurvives
CHECK_DEADLOCK FALSE
