SPECIFICATION Spec
CONSTANTS
  Open = open
  Load = load
  Clearing = clear
  Record = record
  Paging = paging
  Metadata = metadata
  Save = save
  Artifacts = {a1, a2}
  MaxTries = 2
  MaxRequests = 2
INVARIANTS NoFalseInterrupt MismatchAlarms
PROPERTY RunJudged
CHECK_DEADLOCK FALSE
