\* A measured zero is held, whatever the limits.
SPECIFICATION ItemSpec
CONSTANTS
  Grain = 2
  Rules <- MCUpperLimit
  ItemPolicies <- MCPolicies
  Values <- MCValues
  Legible = 1
  MaxSamples = 3
INVARIANT JudgedByItsLimits
CONSTRAINT SamplesOfOneSource
