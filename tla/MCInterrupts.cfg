\* Two threads; the timer, both lines that can be spurious, and one nobody asks for.
CONSTANTS
  thread0 = thread0
  Threads = {thread0, t1}
  Lines = {0, 2, 7, 9, 15}
  Devices = {0, 7, 15}
SPECIFICATION FairSpec
INVARIANTS
  ServiceEnds
  MaskOwned
PROPERTY DeviceServed
