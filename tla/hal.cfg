SPECIFICATION Spec
CONSTANTS
  NIBBLE = 4
  MaxInterrupts = 48
  DefaultHandler = 4660
  PitHandler = 25923
  Handlers <- MCHandlers
  Vectors <- MCVectors
  Rates <- MCRates
  Lines <- MCLines
  BiosMasks <- MCBiosMasks
INVARIANTS
  EnabledWhenReady
  SegmentsAgree
  CountersAsAsked
PROPERTIES
  InterruptsArrive
CHECK_DEADLOCK FALSE
