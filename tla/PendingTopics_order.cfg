\* The smallest instance where a batch overtakes another.
SPECIFICATION Spec
CONSTANTS
  Topics = {t1, t2}
  MaxBatches = 3
  MaxResumes = 2
  t1 = t1
  MayBeLate = {}
INVARIANT BatchesRunInOrder
