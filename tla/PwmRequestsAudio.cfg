\* The audio driver acquires the channels between a user's check of the mode and its lock.
SPECIFICATION PwrSpec
CONSTANTS
  PwrUsers = {"u1", "u2"}
  PwrSources = {"PLLD"}
  PwrDivisors = {500}
  PwrRanges = {1, 4096}
  PwrEvents = {}
INVARIANTS
  PwrAudioExclusive
\* A behaviour ends where a check was overtaken.
CHECK_DEADLOCK FALSE
