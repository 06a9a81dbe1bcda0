\* Texts of up to four short words and two long ones, chunks too short, long and
\* unmeasured, and every kind of answer from Whisper.
CONSTANTS
  MaxShortText = 4
  Texts <- MCTexts
  Limit = 7
  Second = 6000
  Voices <- MCVoices
  Hearings <- MCHearings
SPECIFICATION Spec
INVARIANTS
  TypeOK
  ChunksTileText
  FewestChunks
  StampsInOrder
  LagIsHolds
  TimesAreNearest
  SweepKeepsUp
\* The job is done.
CHECK_DEADLOCK FALSE
