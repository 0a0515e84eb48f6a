\* Liveness (no symmetry): what a closed socket leaves behind.
CONSTANTS
  Users = {u1}
  Workers = {w1}
  Handles = {h1, h2}
  Sockets = {s1, s2}
  Buffers = {b1, b2}
  Backlog = 1
  Calls = {"create", "destroy", "listen", "connect", "send"}
  Recycle = FALSE
  None = None
SPECIFICATION LiveSpec
PROPERTIES ClosedSocketsDrain
