SPECIFICATION FairSpec
CONSTANTS
  None = None
  Entities = {"user", "host"}
  Kinds = {"high", "low"}
  Score <- MCScore
  Tactics <- MCTactics
  Layers <- MCLayers
  Window = 2
  Cooldown = 3
  MaxResults = 2
  MaxRecords = 4
INVARIANTS
  WindowIsReference
PROPERTIES
  CooldownHolds
  IncidentWhenDue
  EntitiesAgeOut
