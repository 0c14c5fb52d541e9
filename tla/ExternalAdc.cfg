CONSTANTS
  CHANNELS = 2
  HALF = 4
  RECORDS = 3
  CHUNKS = 2
  OFFSET = 1
  WordBound = 22
  None = None
SPECIFICATION Spec
INVARIANTS
  TypeOK
  NeverAhead
  PhaseFollowsLostSignals
  RecordingIsOneRun
  RecordingIsGapless
