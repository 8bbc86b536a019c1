SPECIFICATION Spec
CONSTANTS
    Wheres <- MCOrWheres
    Filters <- MCFilters
    Tenants <- MCTenants
    Models <- MCModels
    Tables <- MCTables
    Batches <- MCBatches
    ShardRows <- MCShardRows
    OrderColumns <- MCOrderColumns
    Strategies <- MCStrategies
    ShardValues <- MCShardValues
CHECK_DEADLOCK FALSE
INVARIANT ScopeHolds
