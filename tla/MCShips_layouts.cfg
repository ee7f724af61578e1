CONSTANTS
  SHIP_GAME_BOARD_SIZE = 4
  AMOUNT_OF_SHIP = 2
  ShipLength <- MCShipLength
SPECIFICATION LayoutSpec
INVARIANTS ReadsLawful AcceptsFleets ForgetsRefused MarksWater
  ClientMarksAlike
\* a layout ends
CHECK_DEADLOCK FALSE
