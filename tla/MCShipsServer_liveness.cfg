CONSTANTS
  c1 = c1 c2 = c2 c3 = c3 c4 = c4
  f1 = f1 f2 = f2 f3 = f3
  ann = ann bob = bob cid = cid
  g1 = g1 g2 = g2
  NULL = NULL
  Clients <- MCClients3
  Fds <- MCFds2
  Names <- MCNames2
  Games <- MCGames1
  MaxPlayers = 2
  MaxRooms = 1
  MaxInvalid = 1
  MaxLoss = 2
  Relogin = FALSE
VIEW MCView
SPECIFICATION FairSpec
PROPERTIES HangupNoticed AbandonedRoomsReaped
\* the bound MaxLoss stops new connections
CHECK_DEADLOCK FALSE
