SPECIFICATION Spec
CONSTANTS
  g1 = g1
  g2 = g2
  s1 = s1
  s2 = s2
  n1 = n1
  None = None
  Guilds = {g1, g2}
  Shards = {s1, s2}
  ShardOf <- TwoShards
  Ips = {a1}
  Ports = {}
  Channels = {c1}
  SlashCommands = {"home", "change", "players"}
  Names = {n1}
  Reports <- FullReport
  UpdateTime = 1
SYMMETRY PairSymmetry
INVARIANTS
  IInv
  BufferHandoff
  NeverPostsToNoChannel
  ConfiguredHasBot
  HandlersFindTheirGuild
  CommandsReadData
PROPERTIES
  FollowsTransfer
  ActAsOneMap
  QuitCountsDown
