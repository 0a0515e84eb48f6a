\* Connections made by two racing users, with sends; handles are not given twice.
CONSTANTS
  Users = {u1, u2}
  Workers = {w1, w2}
  Handles = {h1, h2}
  Sockets = {s1, s2}
  Buffers = {b1, b2}
  Backlog = 1
  Calls = {"create", "destroy", "listen", "connect", "send"}
  Recycle = FALSE
  None = None
SPECIFICATION Spec
SYMMETRY Symmetry
INVARIANTS CallbacksSerial HandleMeansOneSocket BufferOwnership
PROPERTIES ImplementsConnections
