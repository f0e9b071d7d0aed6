-------------------------- MODULE ResourceUpdates --------------------------
(***************************************************************************)
(* What update_resources promises its callers: one of them at a time works on *)
(* the machine's resource state, no update undoes another, and the turn of a  *)
(* caller whose process died passes on.  ResourceLock implements it.          *)
(***************************************************************************)
CONSTANTS
  Caller,     \* calls of update_resources: one thread, one call
  Process,    \* the operating system's processes
  processOf,  \* the process a caller runs in
  Nobody      \* the owner when there is none, no caller

VARIABLES
  owner,      \* whose turn it is
  alive,      \* the processes that live
  applied     \* the callers whose update is in the state

vars == <<owner, alive, applied>>

Init == owner = Nobody /\ alive = Process /\ applied = {}

Take(c) ==
  /\ owner = Nobody /\ processOf[c] \in alive
  /\ owner' = c
  /\ UNCHANGED <<alive, applied>>

Update(c) ==
  /\ owner = c /\ processOf[c] \in alive
  /\ applied' = applied \cup {c}
  /\ UNCHANGED <<owner, alive>>

Give(c) ==
  /\ owner = c /\ processOf[c] \in alive
  /\ owner' = Nobody
  /\ UNCHANGED <<alive, applied>>

\* Only a dead owner loses its turn.
Reclaim(c) ==
  /\ owner = c /\ processOf[c] \notin alive
  /\ owner' = Nobody
  /\ UNCHANGED <<alive, applied>>

Die(p) ==
  /\ p \in alive
  /\ alive' = alive \ {p}
  /\ UNCHANGED <<owner, applied>>

Next ==
  \/ \E c \in Caller : Take(c) \/ Update(c) \/ Give(c) \/ Reclaim(c)
  \/ \E p \in Process : Die(p)

Spec == Init /\ [][Next]_vars
=============================================================================
