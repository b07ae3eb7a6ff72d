SPECIFICATION AutoSpec
CONSTANTS
  g1 = g1
  s1 = s1
  n1 = n1
  None = None
  Guilds = {g1}
  Shards = {s1}
  ShardOf <- OneShard
  Ips = {a1}
  Ports = {}
  Channels = {c1}
  SlashCommands = {"home", "change", "enableautoupdate", "disableautoupdate"}
  Names = {n1}
  Reports <- FullReport
  UpdateTime = 1
PROPERTIES
  SilentWhenDisabled
