CONSTANTS
  Fds = {fd}
  kMaxQueuedChunks = 2
  SocketBuffer = 2
  MaxCommands = 3
  MaxConnections = 2
  MaxSignals = 2
SPECIFICATION ServerSpec
INVARIANTS RepliesInOrder WatchedForOutput OutboxBounded StopWakes NoUseAfterDestroy
PROPERTIES RepliesDelivered StopsOnceServing
