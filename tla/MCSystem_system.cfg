CONSTANTS
  SHIP_GAME_BOARD_SIZE = 3
  AMOUNT_OF_SHIP = 2
  ShipLength <- MCShipLength
  Layouts <- MCNone
  ShotArgs <- MCNone
  IntSpan = 64
  Fleets <- MCFleets
  Clicks <- MCClicks
  MaxRequests = 2
  MaxLosses = 1
  Prompt = TRUE
  Patient = TRUE
VIEW MCView
SPECIFICATION SysFairSpec
   
PROPERTIES TurnArrives ResumeArrives
CHECK_DEADLOCK FALSE
