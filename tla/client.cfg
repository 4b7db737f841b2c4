CONSTANTS
  Devices = {a, b}
  Linked = {a}
  MaxSends = 3
  MaxMisses = 1
  NoKey = NoKey
  None = None
  Chats = {c, d}
  FirstChat = c
  Texts = {x, y}
  MaxKeys = 6
  Users = {me, u, v}
  Me = me
  Titles = {x, y}
  MaxGroupActs = 3
  Typists = {u, v}
  MaxTyping = 5
  MaxTokens = 3
  MaxOutages = 1
  MaxSent = 1
  OutRecords = {r, s}
  MaxSaves = 2
  MaxOutCalls = 4
  Pages = {p, q}
  LifetimeDays = 2
  ExpiryWarnDays = 1
  OverdueDays = 1
  LastHalfDay = 6
  MaxExports = 1
  Persons = {me, u}
  Avatars = {x, y}
  MaxShows = 4
  Notes = {m, n, o}
  Own = {o}
  MaxLooks = 5
  Options = {r, s}
  MaxChanges = 4
  Peers = {x}
  QueueLimit = 12
  DedupeWindow = 1
  CriticalWindow = 3
  RealtimeWindow = 2
  PollDelay = 1
  RoomMoves = 2
  MaxDrops = 1
  Files = {f, g}
  Parts = {0, 1}
  MaxAttempts = 2
  MaxActs = 2
  MaxLosses = 3
  MaxTroubles = 1
  Servers = {h, k}
  LinkAt = h
  MaxUses = 1
  MaxAsks = 2
  MaxClicks = 2
SPECIFICATION ClientSpec
CHECK_DEADLOCK FALSE
INVARIANTS KeptOnDevice ShownIsTrue EventsAreShown
PROPERTIES NoticesTell
