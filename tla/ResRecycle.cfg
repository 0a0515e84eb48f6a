\* One user and one connection after another: the indexer gives a destroyed index again.
CONSTANTS
  Users = {u1}
  Workers = {w1}
  Handles = {h1}
  Sockets = {s1, s2}
  Buffers = {b1, b2}
  Backlog = 1
  Calls = {"create", "destroy", "connect"}
  Recycle = TRUE
  None = None
SPECIFICATION Spec
PROPERTIES NoStrayCompletion
