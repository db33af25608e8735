SPECIFICATION ScheduleSpec
CONSTANTS
  i1 = i1
  i2 = i2
  i3 = i3
  k1 = k1
  k2 = k2
  Nobody = Nobody
  Invocations = {i1, i2, i3}
  Keys = {k1, k2}
  Reruns = {FALSE}
  Overlaps = {FALSE}
  MaxDeaths = 1
CHECK_DEADLOCK FALSE
PROPERTIES
  StuckIsSkipped
