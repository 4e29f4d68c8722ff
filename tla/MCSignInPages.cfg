SPECIFICATION Spec
CONSTANTS
  None = None
  Links = {l1}
  Requests = {r1, r2}
  Ours = {r1}
  Sheets = {journal, circuits}
  Default = journal
  Calls = {c1}
  MaxDenied = 2
  MaxTimers = 1
INVARIANTS
  LinkSignsInOnce
PROPERTIES
  ResumesJourney
  SignalSettles
