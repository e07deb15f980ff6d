CONSTANTS
  Workers = 2
  Stubborn <- MCStubborn
  Domains = {d1, d2}
  MaxIssues = 2
  Archivers = {a1, a2}
  MaxArchives = 1
  Plans <- MCPlans
SPECIFICATION LaunchFairSpec
INVARIANTS GenerationWhole AcmeSound Released
PROPERTIES LaunchSettles
CHECK_DEADLOCK FALSE
