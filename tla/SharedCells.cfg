SPECIFICATION Spec
CONSTANTS
  url = url
  Args <- MCArgs
  Pool = pool
  Loop = {l1}
  Transaction = {t1}
  Free = free
  Retries = 2
  MaxVersion = 2
INVARIANT ReadyMeansReadable
PROPERTY IsRegister
PROPERTY LoopsCatchUp
PROPERTY TasksEnd
CHECK_DEADLOCK FALSE
