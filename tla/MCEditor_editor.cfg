CONSTANTS
  SHIP_GAME_BOARD_SIZE = 5
  AMOUNT_OF_SHIP = 3
  ShipLength <- MCShipLength
SPECIFICATION Spec
INVARIANTS ReadyAccepted ShipsWhereTheyAre
