SPECIFICATION Spec
CONSTANTS
  p1 = p1
  p2 = p2
  p3 = p3
  p4 = p4
  None = None
  Frames = {f1, f2, f3, f4, f5, f6, f7}
  Junk = Junk
  Index = {0, 1}
  Gpas <- MCGpas
  Slot <- MCSlot
  TrackMax = 5
SYMMETRY FrameSymmetry
INVARIANTS
  TablesAccounted
PROPERTIES
  ImplementsGuestMap
