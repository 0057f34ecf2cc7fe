SPECIFICATION FairSpec
CONSTANTS
  smtp = smtp
  slack = slack
  Channels = {smtp, slack}
  Smtp = {smtp}
  Levels = 1
  Settings <- TwoChannels
  Workers = {w1, w2}
  Inputs = {"key", "event", "summary", "test", "purge"}
  MaxNotes = 2
  Reserve = 1
  MaxQueue = 1
CHECK_DEADLOCK FALSE
INVARIANTS TypeOK SentWasSent SentOnce
 
