CONSTANTS
  c1 = c1 c2 = c2 c3 = c3 c4 = c4
  f1 = f1 f2 = f2 f3 = f3
  ann = ann bob = bob cid = cid
  g1 = g1 g2 = g2
  NULL = NULL
  Clients <- MCClients4
  Fds <- MCFds3
  Names <- MCNames2
  Games <- MCGames1
  MaxPlayers = 2
  MaxRooms = 1
  MaxInvalid = 2
  MaxLoss = 3
  Relogin = FALSE
VIEW MCView
SYMMETRY MCSymmetry
SPECIFICATION Spec
INVARIANTS SocketsConsistent UnloggedIsPrivate NamesConsistent NoPhantomPlayers
\* the bound MaxLoss stops new connections
CHECK_DEADLOCK FALSE
