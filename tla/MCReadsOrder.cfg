SPECIFICATION Spec
CONSTANTS
    Wheres <- MCWheres
    Filters <- MCFilters
    Tenants <- MCTenants
    Models <- MCModels
    Tables <- MCTables
    Batches <- MCBatches
    ShardRows <- MCShardRows
    OrderColumns <- MCOtherColumns
    Strategies <- MCStrategies
    ShardValues <- MCShardValues
CHECK_DEADLOCK FALSE
INVARIANT ShardsAreOneTable
