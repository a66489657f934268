\* Two directories; a hook, and one whose disposer throws; two questions and a
\* reply on at most three services.
SPECIFICATION Spec
CONSTANTS
  Directories = {d1, d2}
  Hooks = {h1, hx}
  Throwing = {hx}
  None = None
  Asks = {q1, q2}
  Requests = {r1}
  MaxServices = 3
SYMMETRY Symmetry
INVARIANTS
  HooksAreOwned
  PendingIsReachable
  AnswersReachTheirQuestion
CHECK_DEADLOCK FALSE
