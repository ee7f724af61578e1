CONSTANTS
  SHIP_GAME_BOARD_SIZE = 3
  AMOUNT_OF_SHIP = 2
  ShipLength <- MCShipLength
  Layouts <- MCLayouts
  ShotArgs <- MCShotArgs
  IntSpan <- MCIntSpan
SPECIFICATION Spec
INVARIANTS TypeOK FleetOnBoard SunkShipsMarked FleetsFloat
PROPERTIES ImplementsDuel NoInternalError
VIEW MCView
