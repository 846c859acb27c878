SPECIFICATION FairSpec
CONSTANTS
  s1 = s1  s2 = s2
  Runs = {s1, s2}
  Tenants = {1, 2, 3}
  Page = 2
  Broken = {}
  MaxMishaps = 2
INVARIANTS
  FullCycleCoversEveryTenant
  NobodyIsPassedUnnoticed
PROPERTIES
  EveryTenantIsServed
