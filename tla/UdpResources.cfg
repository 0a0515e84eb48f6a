\* Two users create, send and destroy one handle after another, with as many workers as
\* needed; a process that ended in a null pointer stops.
CONSTANTS
  Users = {u1, u2}
  Handles = {h1}
  Sockets = {s1, s2}
  Buffers = {b1, b2, b3}
  RecvCount = 2
  None = None
SPECIFICATION LiveSpec
INVARIANTS TypeOK IndexOwnership ReceivesBounded
PROPERTY BuffersDrain
CHECK_DEADLOCK FALSE
