SPECIFICATION FairSpec
CONSTANTS
  card = card
  t1 = t1
  t2 = t2
  Threads = {t1, t2}
  Calls <- MCCalls
  Letters <- MCLetters
  Driver = Driver
  Devices = {card}
  Removable = {card}
  Request <- MCRequest
  NMedia = 2
  NDrives = 2
  Structs = {s1, s2}
  s1 = s1
  s2 = s2
  Files = {1}
  Exclusive = TRUE
  None = None
  MaxMounts = 2
CONSTRAINT NotEarly
INVARIANTS VolumeStaysWhileUsed HandlesStayOnTheirVolume
PROPERTY RemovalsEnd
CHECK_DEADLOCK FALSE
