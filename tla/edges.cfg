SPECIFICATION EdgesSpec
CONSTANTS Nothing = Nothing  NoKey = NoKey  NoAccount = NoAccount  Nobody = Nobody
INVARIANTS NeverRedials   
  
CHECK_DEADLOCK FALSE
