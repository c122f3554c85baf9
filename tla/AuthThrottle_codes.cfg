SPECIFICATION ThrottleSpec
CONSTANTS
  c1 = c1
  c2 = c2
  Clients <- MCClients
  Scenes = {"register", "reset"}
  MaxCodes = 2
  MaxMisses = 1
  Threshold = 2
  MailLimit = 1
INVARIANTS CountersExpire NewestMailCounts CodeWorksOnce
CONSTRAINT OneScene
SYMMETRY MCSymmetry
