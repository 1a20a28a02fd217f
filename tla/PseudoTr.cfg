\* The destination at hop 3 of 5; every probe or answer may be lost, any call may fail.
CONSTANTS
  MaxTtl = 5
  Distance = 3
  Strangers = {99}
  MaxStray = 1
  Failing = {"socket", "recv", "send"}
SPECIFICATION FairSpec
INVARIANTS TypeOK AtMostOneMoreProbe ReachedIsNoticed
PROPERTIES AnswerEndsBoth
CHECK_DEADLOCK FALSE
