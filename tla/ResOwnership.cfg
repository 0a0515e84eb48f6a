\* A listener with two accepts and a third socket, handles given again: an accept buffer is
\* armed again while another is on its way and the accepted socket is in the table.
CONSTANTS
  Users = {u1}
  Workers = {w1, w2}
  Handles = {h1, h2}
  Sockets = {s1, s2, s3}
  Buffers = {b1, b2}
  Backlog = 2
  Calls = {"create", "destroy", "listen", "send"}
  Recycle = TRUE
  None = None
SPECIFICATION Spec
SYMMETRY Symmetry
INVARIANTS TypeOK IndexOwnership BufferOwnership SocketOwnership
