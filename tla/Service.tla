------------------------------- MODULE Service -------------------------------
(***************************************************************************)
(* What StartupNet and CleanupNet promise: handlers run only between them, *)
(* and CleanupNet, which waits for those that run, ends.                   *)
(***************************************************************************)
CONSTANT Workers

VARIABLES phase,        \* "off", "on", or "stopping"
          busy          \* the workers in a handler

vars == <<phase, busy>>

Init == phase = "off" /\ busy = {}

Start == phase = "off" /\ phase' = "on" /\ UNCHANGED busy

Begin(w) == phase # "off" /\ busy' = busy \cup {w} /\ UNCHANGED phase

End(w) == busy' = busy \ {w} /\ UNCHANGED phase

Stop == phase = "on" /\ phase' = "stopping" /\ UNCHANGED busy

Stopped == phase = "stopping" /\ busy = {} /\ phase' = "off" /\ UNCHANGED busy

Next == Start \/ Stop \/ Stopped \/ \E w \in Workers : Begin(w) \/ End(w)

Spec == Init /\ [][Next]_vars

\* A stop that was asked for is over at some time.
Ends == phase = "stopping" ~> phase = "off"
=============================================================================
