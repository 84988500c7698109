\* Ordinary and tampered systems, reads that fail, processes and modules that
\* come and go (three changes), a helper that hangs, Ctrl-C.
SPECIFICATION Spec
CONSTANTS
  none = none
  noexe = noexe
  noline = noline
  NoUser = none
  NoExe = noexe
  NoLine = noline
  m1 = m1
  m2 = m2
  ls = ls
  tool = tool
  link = link
  Pid = {1, 2, 3}
  DEFAULT_PID_MAX = 2
  Module = {m1, m2}
  Scenes <- MCScenes
  PidReuse = FALSE
INVARIANTS AccusedIsReal 
PROPERTY Terminates
CHECK_DEADLOCK FALSE
