CONSTANTS
  Polls = {1, 2}
  None = None
  Samples <- All
  MaxMoves = 3
  Tracks = {1, 2, 3, 4, 5, 6}
  SenderIds = {1, 2, 3, 4}
  Streams = {1, 2}
  Slots = {1, 2}
  MostMedia = 4
  Peers = {x}
  QueueLimit = 12
  DedupeWindow = 1
  CriticalWindow = 3
  RealtimeWindow = 2
  PollDelay = 1
  RoomMoves = 1
  MaxDrops = 1
  MaxConcurrent = 1
  MaxReady = 1
  MaxTaps = 3
  Chats = {a, b}
  FirstChat = a
  Files = {s, t}
  Parts = {0, 1}
  MaxAttempts = 2
  MaxActs = 2
  MaxLosses = 2
  MaxTroubles = 1
  Servers = {h, g}
  LinkAt = h
  MaxUses = 1
  MaxAsks = 2
  MaxClicks = 1
SPECIFICATION LiveSpec
CHECK_DEADLOCK FALSE
INVARIANTS FreshWithoutCall PartsAreSafe
PROPERTIES PartsEnd
