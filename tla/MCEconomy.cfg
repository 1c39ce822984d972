SPECIFICATION Spec
CONSTANTS
  None = None
  DayUnits = 24
  f1 = f1
  s1 = s1
  s2 = s2
  a1 = a1
  A = A
  B = B
  coal = coal
  cloth = cloth
  Factories <- MCFactories
  Provinces <- MCProvinces
  Artisans <- MCArtisans
  Countries <- MCCountries
  Input = coal
  PeriodDays = 2
  MaxDays = 4
  MaxEvents = 1
  Plans <- MCPlans
  Queries <- MCQueries
  StartWorld <- MCStartWorld
  Markets <- MCMarkets
  Filters <- MCFilters
INVARIANTS ExportsAreTrue IntervalIsTrue HealthyIsPublished
