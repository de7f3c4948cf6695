\* Two calls of RecordRoute that may overlap.
SPECIFICATION GuideSpec
CONSTANTS
  Recorders = {r1, r2}
  Readers = {q}
  Others = {o}
  max_workers = 2
  MaxPoints = 2
  Ids = {0, 1}
INVARIANTS IdOwn
CHECK_DEADLOCK FALSE
