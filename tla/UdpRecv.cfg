\* One user is enough to end the process.
CONSTANTS
  Users = {u1}
  Handles = {h1, h2}
  Sockets = {s1, s2}
  Buffers = {b1, b2, b3}
  RecvCount = 2
  None = None
SPECIFICATION Spec
INVARIANT NoNullSocket
CHECK_DEADLOCK FALSE
