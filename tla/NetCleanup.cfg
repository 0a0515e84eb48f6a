\* Two workers, or a worker and a call, meet CleanupNet in AddTcpSocket. The library may
\* stay stopped.
CONSTANTS
  Users = {u1}
  Workers = {w1, w2}
  Handles = {h1, h2}
  Sockets = {s1, s2, s3}
  Buffers = {b1, b2}
  Backlog = 1
  Calls = {"create", "listen"}
  Recycle = TRUE
  MaxStarts = 1
  Quit = Quit
  None = None
SPECIFICATION LifeSpec
PROPERTIES InsertSucceeds
CHECK_DEADLOCK FALSE
