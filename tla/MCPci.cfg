\* Two threads, two devices, two double words of each; accesses of every width,
\* set-ups of regions.
CONSTANTS
  NOBODY = NOBODY
  t1 = t1
  t2 = t2
  Threads = {t1, t2}
  Devices = {"d1", "d2"}
  Offsets = {12, 13, 14, 15, 24, 25, 26, 27}
  Widths = {1, 2, 4}
  Setups = {t1, t2}
SPECIFICATION Spec
SYMMETRY ThreadSymmetry
INVARIANT ReadsRegister
