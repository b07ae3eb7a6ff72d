SPECIFICATION FairSpec
CONSTANTS
  g1 = g1
  g2 = g2
  s1 = s1
  s2 = s2
  n1 = n1
  None = None
  Guilds = {g1, g2}
  Shards = {s1}
  ShardOf <- OneShard
  Ips = {a1}
  Ports = {}
  Channels = {}
  SlashCommands = {"change", "disableautoupdate", "serverinfo"}
  Names = {n1}
  Reports <- FullReport
  UpdateTime = 1
PROPERTIES
  QuitEnds
  EveryGuildPolled
