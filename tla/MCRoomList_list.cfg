CONSTANTS
  g1 = g1 g2 = g2 g3 = g3 g4 = g4
  NULL = NULL
  Games <- MCGames
  s_max_rooms = 3
  SizeBound = 7
SPECIFICATION Spec
SYMMETRY MCSymmetry
INVARIANTS ListsPartition ListsTheRooms NeverFull SizeCovers
PROPERTIES ImplementsPool
\* SizeBound ends the insertions
CHECK_DEADLOCK FALSE
