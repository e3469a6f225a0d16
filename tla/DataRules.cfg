CONSTANTS
  Null = Null
  Catalog <- MCCatalog
  Timelines <- MCTimelines
  Queries <- MCQueries
  Predicates <- MCPredicates
  Chains <- MCChains
  Edges <- MCEdges
  Missing = Missing
  KeyOrder <- MCKeyOrder
  RefOrder <- MCRefOrder
  Manifests <- MCManifests
  CustomerCounts = {"customer_count"}
  Starts <- MCStarts
  TopicWindow = 72
  EventLists <- MCEventLists
  StepChains <- MCStepChains
  ReadLimit = 3
  AllSources <- MCAll
  Readings <- MCReadings
  Asks <- MCAsks
  Bad = Bad
  PageMax = 2
  LegacyMax = 2
  HardMax = 3
  TopicsMax = 2
  Truthy = {31}
  Falsy = {30}
  Digits = {41}
  Numbers = {41, 42}
  Adapters <- MCAdapters
  Scopes <- MCScopes
  Reads <- MCReads
  NoFile = NoFile
  Old = Old
  Seeders = {s1, s2}
  Starters = {s2}
  MaxFaults = 1
  MaxCommits = 1
  MaxReads = 1
SPECIFICATION DataSpec
CHECK_DEADLOCK FALSE
INVARIANTS
  ResultsAsDefined
  InputsAsDefined
  FactsAsDefined
  GenerationSafe
