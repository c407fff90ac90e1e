\* Two threads that print under sem, a screen of 2 by 2 cells, six characters.
CONSTANTS
  NOBODY = NOBODY
  t1 = t1
  t2 = t2
  Threads = {t1, t2}
  Unlocked = {}
  VGA_WIDTH = 2
  VGA_HEIGHT = 2
  Chars = {"a", "b"}
  MaxPrinted = 6
SPECIFICATION Spec
SYMMETRY ThreadSymmetry
INVARIANT ShowsText
