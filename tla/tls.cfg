SPECIFICATION FairSpec
CONSTANTS
  config = config
  shard = shard
  Units = {config, shard}
  ConfigServer = config
  Starts <- MCStarts
INVARIANT KeysMatch
PROPERTIES  DisabledInTheEnd 
CHECK_DEADLOCK FALSE
