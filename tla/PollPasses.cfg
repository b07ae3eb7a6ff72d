SPECIFICATION PassSpec
CONSTANTS
  g1 = g1
  g2 = g2
  s1 = s1
  n1 = n1
  None = None
  Guilds = {g1, g2}
  Shards = {s1}
  ShardOf <- OneShard
  Ips = {a1}
  Ports = {}
  Channels = {c1}
  SlashCommands = {"home", "change", "players"}
  Names = {n1}
  Reports <- NoTexts
  UpdateTime = 2
SYMMETRY GuildSymmetry
INVARIANTS
  
  SpacedPerGuild
PROPERTIES
  PassAsksAll
