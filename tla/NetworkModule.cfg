SPECIFICATION FairSpec
CONSTANTS
  Ip = {ip1, ip2}
  NoIp = NoIp
  Platforms = {"ESP32", "RP2040"}
  OtaUpdate <- MCOtaUpdate
  Ntp = {"RP2040"}
  MaxChanges = 5
  MaxEvents = 2
INVARIANTS
  TypeOK
  NeverNested
  ToldInTurn
PROPERTY
  Settles
