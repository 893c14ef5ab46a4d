SPECIFICATION Spec
CONSTANTS
  m1 = m1
  m2 = m2
  m3 = m3
  Timer <- Timers
  Ticks <- FewTicks
  Wrap = 5
  MaxLag = 2
PROPERTIES ElapsesAtZero
