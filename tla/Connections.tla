----------------------------- MODULE Connections -----------------------------
(***************************************************************************)
(* What the library promises an application about the callbacks of one     *)
(* connection, whichever threads run them: they never overlap, and after   *)
(* the last one (a disconnection or an error) there is none until the      *)
(* connection object is used for another connection.                       *)
(***************************************************************************)
CONSTANTS Threads, Sockets, None

VARIABLES open,         \* connections that may still call back
          calling       \* the connection each thread is calling back about

vars == <<open, calling>>

Quiet(s) == \A t \in Threads : calling[t] # s

Init == open = {} /\ calling = [t \in Threads |-> None]

\* A connection was made.
Open(s) ==
  /\ s \notin open
  /\ open' = open \cup {s}
  /\ UNCHANGED calling

\* A callback about s begins.
Begin(t, s) ==
  /\ calling[t] = None
  /\ s \in open /\ Quiet(s)
  /\ calling' = [calling EXCEPT ![t] = s]
  /\ UNCHANGED open

\* It returns, and there may be more.
Return(t) ==
  /\ calling[t] # None
  /\ calling' = [calling EXCEPT ![t] = None]
  /\ UNCHANGED open

\* It returns, and was the last.
Last(t) ==
  /\ calling[t] # None
  /\ calling' = [calling EXCEPT ![t] = None]
  /\ open' = open \ {calling[t]}

\* The application destroyed the connection, or the call that made it failed.
Lose(s) ==
  /\ s \in open /\ Quiet(s)
  /\ open' = open \ {s}
  /\ UNCHANGED calling

Next == \/ \E s \in Sockets : Open(s) \/ Lose(s)
        \/ \E t \in Threads : Return(t) \/ Last(t) \/ \E s \in Sockets : Begin(t, s)

Spec == Init /\ [][Next]_vars
=============================================================================
