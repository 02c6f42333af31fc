SPECIFICATION SettlingSpec
PROPERTIES RequestsAreAnswered LogsKeepFlowing 
CHECK_DEADLOCK FALSE
