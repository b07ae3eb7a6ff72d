SPECIFICATION AnnSpec
CONSTANTS
  g1 = g1
  s1 = s1
  n1 = n1
  n2 = n2
  None = None
  Guilds = {g1}
  Shards = {s1}
  ShardOf <- OneShard
  Ips = {a1}
  Ports = {p1}
  Channels = {c1}
  SlashCommands = {"home", "change"}
  Names = {n1, n2}
  Reports <- MixedReports
  UpdateTime = 1
INVARIANTS
  
  FreshUnlessChanged
  AnnouncementsAddUp
  NamesAddUp
  SaysWho
