\* Destroy_ kills process_->Pid() without checking that the appworker
\* still holds it: after the appworker exited and was reaped, the pid may
\* belong to another process of the host
CONSTANTS
  Ids = {c1}
  Pids = {1, 2}
  NCg = 2
  MemLimit = 1
  MaxMem = 2
  Width = 2
SPECIFICATION Spec
PROPERTY OthersUntouched
