CONSTANTS
  respond = respond
  look = look
  write = write
  run = run
  delete = delete
  Objective = {o1}
  Action = {respond, write, run, delete}
  Command = {run, delete}
  Privileged = {delete}
  ExpectsChange = {write, delete}
  Respond = respond
  Unsigned = {respond}
  Unlearned = {respond}
  Finding = {f1}
  MaxSteps = 2
  MaxGuidance = 0
SPECIFICATION FairSpec
INVARIANTS TypeOK PrivilegedNeedsConsent StopHonoured EndingsAgree
PROPERTIES ImplementsLifecycle TaskEnds
