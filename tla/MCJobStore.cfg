\* The caps are the ones of job_store.rs.
CONSTANTS
  Template = {t1, t2, t3}
  JobId = {j1, j2, j3, j4, j5, j6}
  NoJob = NoJob
  MaxFutureJobs = 2
  MaxPastJobs = 2
  MaxStaleJobs = 1
SPECIFICATION Spec
SYMMETRY Symmetry
INVARIANTS TypeOK WindowWithoutLeaks JudgedByTip NewestTemplatesActivate
