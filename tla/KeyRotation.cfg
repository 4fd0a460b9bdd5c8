\* Three generations are kept; the clock may go back, and each step may be the last.
CONSTANTS
  Host = {h}
  Stamp <- Seconds
  Keep = 3
  First = 2
  Emptied = Emptied
INVARIANTS StartsWhenClean HostSigns
SPECIFICATION Spec
CHECK_DEADLOCK FALSE
