CONSTANTS
  respond = respond
  look = look
  write = write
  run = run
  delete = delete
  Objective = {o1}
  Action = {respond, look, run}
  Command = {run}
  Privileged = {}
  ExpectsChange = {run}
  Respond = respond
  Unsigned = {respond}
  Unlearned = {respond, look, run}
  Finding = {f1}
  MaxSteps = 5
  MaxGuidance = 2
SPECIFICATION Spec
INVARIANTS BreakerOvershoot RepeatsBounded GuidanceInOrder
