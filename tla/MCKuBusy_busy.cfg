SPECIFICATION LiveSpec
CONSTANTS
  d1 = d1
  d2 = d2
  Dirs = {d1, d2}
  Files = 2
  Broken = {2}
  Lists <- TwoLists
  MaxCommands = 5
INVARIANTS TypeOK OneSlideshow PausedInFullScreen FreeAtRest
PROPERTIES ComesToRest
CHECK_DEADLOCK FALSE
