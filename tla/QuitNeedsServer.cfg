SPECIFICATION ThreadSpec
CONSTANTS
  g1 = g1
  g2 = g2
  s1 = s1
  s2 = s2
  n1 = n1
  None = None
  Guilds = {g1}
  Shards = {s1}
  ShardOf <- OneShard
  Ips = {a1}
  Ports = {}
  Channels = {c1}
  SlashCommands = {"home", "change"}
  Names = {n1}
  Reports <- FullReport
  UpdateTime = 1
PROPERTIES
  QuitEnds
