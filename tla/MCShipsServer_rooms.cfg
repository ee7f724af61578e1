CONSTANTS
  c1 = c1 c2 = c2 c3 = c3 c4 = c4
  f1 = f1 f2 = f2 f3 = f3
  ann = ann bob = bob cid = cid
  g1 = g1 g2 = g2
  NULL = NULL
  Clients <- MCClients4
  Fds <- MCFds3
  Names <- MCNames3
  Games <- MCGames2
  MaxPlayers = 3
  MaxRooms = 2
  MaxInvalid = 1
  MaxLoss = 1
  Relogin = FALSE
VIEW MCView
SYMMETRY MCSymmetry
SPECIFICATION Spec
INVARIANTS TypeOK SeatsConsistent WaitingRooms Turn NoAbandonedRoom RoomsCounted
  ToldTheTruth
PROPERTIES ImplementsLobby
\* the bound MaxLoss stops new connections
CHECK_DEADLOCK FALSE
