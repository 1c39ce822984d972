SPECIFICATION Spec
CONSTANTS
  None = None
  DayUnits = 24
  p1 = p1
  p2 = p2
  s1 = s1
  s2 = s2
  farmer = farmer
  clerk = clerk
  Pops <- MCPops
  Provinces <- MCProvinces
  Types <- MCTypes
  StartPops <- MCStartPops
  StartOwners <- MCStartOwners
  A = A
  B = B
  Countries <- MCCountries
  Components = {salary}
  MaxDays = 3
  MaxEvents = 2
  Filters <- MCFilters
INVARIANTS ExportsAreTrue RecordsAreTrue HealthyIsPublished
