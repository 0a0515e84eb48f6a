\* One listener and what it accepts; two workers race with one user. Handles are not
\* given twice.
CONSTANTS
  Users = {u1}
  Workers = {w1, w2}
  Handles = {h1, h2}
  Sockets = {s1, s2, s3, s4}
  Buffers = {b1, b2, b3}
  Backlog = 2
  Calls = {"create", "destroy", "listen"}
  Recycle = FALSE
  None = None
SPECIFICATION Spec
SYMMETRY Symmetry
INVARIANTS NeverDeaf
PROPERTIES AcceptSlotsKept ImplementsConnections
