\* The older library: two threads race to connect one socket, to read or lose the connection,
\* and to remove it.
CONSTANTS
  Users = {u1, u2}
  Workers = {w1, w2}
  Handles = {h1, h2}
  Sockets = {s1, s2}
  Buffers = {b1, b2}
  Backlog = 1
  None = None
SPECIFICATION Spec
SYMMETRY Symmetry
INVARIANTS IndexOwnership
PROPERTIES ReadersTakeOver ConnectLossReported
