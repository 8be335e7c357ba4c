SPECIFICATION Spec
CONSTANTS
  t1 = t1
  t2 = t2
  Thread = {t1, t2}
  Says <- OneOfEach
  MaxQuestions = 3
  MaxDuplicates = 1
INVARIANTS TypeOK OffOnlyIfDisturbed RefusedByGldOnly
PROPERTY AnsweredUnlessCrossed
CHECK_DEADLOCK FALSE
