SPECIFICATION PlacementSpec
CONSTANTS
  MaxSize = 9
  MaxDomain = 9
  MaxFactor = 2
INVARIANTS TypeOK Colocated GroupsConsistent
