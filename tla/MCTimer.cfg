CONSTANTS
  Sleep = {s1, s2}
  NoSleep = none
  Waker = {1, 2}
  MaxTime = 1
SPECIFICATION FairSpec
INVARIANTS
  SleepersSound
PROPERTIES
  DueSleepsEnd
