SPECIFICATION MapSpec
CONSTANTS
  MaxAddr = 7
  PageSize = 2
  Maps <- MCMaps
  Queries <- MCQueries
  Attempts = 2
  Slack = 1
  MaxSize = 4
INVARIANTS
  WalkExact
