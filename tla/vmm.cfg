SPECIFICATION VmmSpec
CONSTANTS
  Memories <- SomeMemories
  Kernels <- SomeKernels
  Initramfses <- SomeInitramfses
  Cmdlines <- SomeCmdlines
  None = None
  HALT_CONSECUTIVE_THRESHOLD = 3
  max_retries = 1
  MaxIo = 1
  MaxClock = 3
INVARIANTS VmmTypeOK BootImageIntact BehindOnlyByMaintenance
PROPERTIES GuestResumes HaltDetected
CHECK_DEADLOCK FALSE
