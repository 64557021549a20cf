SPECIFICATION Spec
CONSTANTS
  MapAdis = {4, 9}
  SetAdis = {2, 4}
  MaxItems = 2
  MaxAdd = 1
  MaxRemaps = 2
  Byte = {0, 7}
  MaxSpd = 1
  Inserts = FALSE
  Grows = FALSE
  Restless = FALSE
INVARIANTS MapsAgree PublishedIsSent
PROPERTIES HandedUpRight NetworkKeepsRange
