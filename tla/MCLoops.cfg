CONSTANTS
  MaxFd = 2
  MaxConns = 3
  kMaxEvents = 2
  c1 = c1
  c2 = c2
  Nobody = Nobody
  Clients <- MCClients
  Asks <- MCAsks
  Cuts = {2, 5}
  kMaxRequest = 7
  Chunk = 3
  SocketRoom = 1
SPECIFICATION LoopsSpec
INVARIANTS NoStrayEvents AnswersItsOwn
PROPERTIES ReadyIsServed WholeRequestAnswered
CHECK_DEADLOCK FALSE
