\* Two topics, two batches: one that waits, and one that overtook it.  The
\* requests of one operation may reach the server late.
SPECIFICATION NetworkFairSpec
CONSTANTS
  Topics = {t1, t2}
  MaxBatches = 2
  MaxResumes = 1
  t1 = t1
  MayBeLate <- MCMayBeLate
INVARIANTS TypeOK InFlightIsCurrent NoEmptyBatch LastOperationDecides
PROPERTIES ImplementsTopicRegister SettlesWhenLeftAlone
