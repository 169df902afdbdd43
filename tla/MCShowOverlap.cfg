\* Two requests at a time, three shows.
SPECIFICATION ScreenSpec
CONSTANTS
  Ids = {i1, i2, i3}
  Writers = {w1, w2}
  DayCount = 1
  SlotsPerDay = 5
  NoSlot = NoSlot
SYMMETRY MCSymmetry
INVARIANTS DaytimeDisjoint RowsCanBeUpdated
