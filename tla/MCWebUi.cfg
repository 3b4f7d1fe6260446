SPECIFICATION FairSpec
CONSTANTS
  Rounds = 2
  ServerNames = {"cape.local", "lab.local", "bad name"}
  BadNames = {"bad name"}
INVARIANTS TypeOK VerdictIsHonest OneBlock OriginAccepted
PROPERTIES NginxNotLeftBroken ScriptsEnd
