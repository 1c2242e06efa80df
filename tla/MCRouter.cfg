SPECIFICATION Spec
CONSTANTS
  Types <- MCTypes
  gameServerType = 200
  Worlds <- MCWorlds
  Lists <- MCLists
  RuleSets <- MCRuleSets
  ServiceMaps <- MCServiceMaps
  Unavailable = Unavailable
  Handlers = {h1, h2}
  Asks <- MCAsks
  Crc32 <- MCCrc32
  Cycle = 2
  MaxChanges = 1
INVARIANTS AnswerOffered TurnsCounted
PROPERTIES ImplementsTable Converges

