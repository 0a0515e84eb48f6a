\* The older library: a listener, a connection made and those accepted, one user and two
\* workers; handles are not given twice.
CONSTANTS
  Users = {u1}
  Workers = {w1, w2}
  Handles = {h1, h2}
  Sockets = {s1, s2, s3}
  Buffers = {b1, b2, b3}
  Backlog = 2
  None = None
SPECIFICATION Spec
SYMMETRY Symmetry
INVARIANTS TypeOK BufferOwnership AcceptedNeverDeaf
PROPERTIES AcceptLossReported ImplementsConnections
