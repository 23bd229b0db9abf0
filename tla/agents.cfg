SPECIFICATION AgentsSpec
CONSTANTS Nothing = Nothing  NoKey = NoKey  NoAccount = NoAccount  Nobody = Nobody
INVARIANTS AtMostOnce   
PROPERTIES RefinesContract
CHECK_DEADLOCK FALSE
