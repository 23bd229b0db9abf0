SPECIFICATION ProgressSpec
CONSTANTS Nothing = Nothing  NoKey = NoKey  NoAccount = NoAccount  Nobody = Nobody
PROPERTIES CallsEnd WaitersAnswered 
CHECK_DEADLOCK FALSE
