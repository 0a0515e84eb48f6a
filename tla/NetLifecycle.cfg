\* Two workers serve a listener while the library is stopped and started again. Deadlock is
\* not checked: a library that was stopped may stay so.
CONSTANTS
  Users = {u1}
  Workers = {w1, w2}
  Handles = {h1}
  Sockets = {s1, s2, s3}
  Buffers = {b1, b2}
  Backlog = 1
  Calls = {"create", "listen"}
  Recycle = TRUE
  MaxStarts = 2
  Quit = Quit
  None = None
SPECIFICATION LiveLifeSpec
INVARIANTS LifeTypeOK OneQuitEach PortHoldsCompletions EarlierCompletionsHandled StartedMeansUp OwnershipWhenUp
PROPERTIES ImplementsService CleanupEnds
CHECK_DEADLOCK FALSE
