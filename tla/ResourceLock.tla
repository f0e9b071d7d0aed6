---------------------------- MODULE ResourceLock ----------------------------
(***************************************************************************)
(* The lock of the resource home (crates/core/engine/src/resources/lock.rs):   *)
(* a directory `state.lock' that holds its owner's record, taken by a rename,  *)
(* reclaimed from a dead owner under `state.lock.reap'; and update_resources  *)
(* (store.rs), a read and a write of state.json under it.  Every toolu process *)
(* on the machine runs this code, and any of them may die at any step.        *)
(*                                                                         *)
(* A caller is one call by one thread: its token is its identity, the record's *)
(* pid is its process.  pc[c] is the next file system operation of the call.   *)
(*                                                                         *)
(* An operator named <X>_<fault> is X with one plausible fault; no action    *)
(* uses it.                                                                *)
(***************************************************************************)
CONSTANTS
  Caller,     \* calls of acquire_lock
  Process,    \* the operating system's processes
  processOf,  \* the process a caller runs in
  Absent,     \* the lock when there is no directory
  Empty       \* the lock when the directory holds no owner.json

ASSUME LockConstants ==
  /\ processOf \in [Caller -> Process]
  /\ Absent \notin Caller /\ Empty \notin Caller /\ Absent # Empty

VARIABLES
  lock,       \* state.lock: Absent, Empty, or the caller its record names
  reap,       \* whether state.lock.reap exists
  alive,      \* the processes that live
  store,      \* state.json: the callers whose update it holds
  pc,         \* the next step of each caller
  found,      \* acquire_lock's `exists'
  seen,       \* whose record stale() read
  then,       \* where a caller goes on after reclaim()
  copy,       \* the state a caller read
  misled      \* history: a reclaimer judged a dead process by a record that was
              \* no longer the lock's

vars == <<lock, reap, alive, store, pc, found, seen, then, copy, misled>>

-----------------------------------------------------------------------------
(* A caller's steps. *)

At(c, step) == processOf[c] \in alive /\ pc[c] = step

goto(c, step) == pc' = [pc EXCEPT ![c] = step]

\* A local ends with its function.
ends(local, c, initial) == local' = [local EXCEPT ![c] = initial]

\* reclaim() is entered from two places of acquire_lock's loop.
enter_reclaim(c, back) == goto(c, "reap") /\ then' = [then EXCEPT ![c] = back]

\* .reap is not removed on an error.
fails_kept(c) == goto(c, "refused") /\ ends(then, c, "look")

\* A `?' in reclaim(): .reap is removed and the call returns the error.
fails(c) == goto(c, "unreap") /\ then' = [then EXCEPT ![c] = "refused"]

Call(c) ==
  /\ At(c, "idle")
  /\ goto(c, "exists")
  /\ UNCHANGED <<lock, reap, alive, store, found, seen, then, copy, misled>>

Exists(c) ==
  /\ At(c, "exists")
  /\ found' = [found EXCEPT ![c] = lock # Absent]
  /\ goto(c, "gate")
  /\ UNCHANGED <<lock, reap, alive, store, seen, then, copy, misled>>

\* The loop's first reclaim is forgotten.
Gate_late(c) ==
  /\ At(c, "gate")
  /\ goto(c, IF reap THEN "refused" ELSE "look")
  /\ ends(found, c, FALSE)
  /\ UNCHANGED <<lock, reap, alive, store, seen, then, copy, misled>>

\* A .reap in the way ends the call, be its reclaimer at work or dead.
Gate(c) ==
  /\ At(c, "gate")
  /\ \/ reap /\ goto(c, "refused") /\ UNCHANGED then
     \/ ~reap /\ found[c] /\ enter_reclaim(c, "look")
     \/ ~reap /\ ~found[c] /\ goto(c, "look") /\ UNCHANGED then
  /\ ends(found, c, FALSE)
  /\ UNCHANGED <<lock, reap, alive, store, seen, copy, misled>>

\* create_dir_all: two reclaimers at once.
Reap_shared(c) ==
  /\ At(c, "reap")
  /\ reap' = TRUE
  /\ goto(c, "stale")
  /\ UNCHANGED <<lock, alive, store, found, seen, then, copy, misled>>

\* reclaim: create_dir(.reap); another reclaimer at work is left alone.
Reap(c) ==
  /\ At(c, "reap")
  /\ reap' = TRUE
  /\ \/ reap /\ goto(c, then[c]) /\ ends(then, c, "look")
     \/ ~reap /\ goto(c, "stale") /\ UNCHANGED then
  /\ UNCHANGED <<lock, alive, store, found, seen, copy, misled>>

\* A directory without a record is taken for a dead owner's.
Stale_ownerless(c) ==
  /\ At(c, "stale")
  /\ \/ lock # Absent /\ seen' = [seen EXCEPT ![c] = lock] /\ goto(c, "probe")
     \/ lock = Absent /\ goto(c, "unreap") /\ UNCHANGED seen
  /\ UNCHANGED <<lock, reap, alive, store, found, then, copy, misled>>

\* stale: the record is read; without one nobody is provably dead.
Stale(c) ==
  /\ At(c, "stale")
  /\ \/ lock \in Caller /\ seen' = [seen EXCEPT ![c] = lock] /\ goto(c, "probe")
     \/ lock \notin Caller /\ goto(c, "unreap") /\ UNCHANGED seen
  /\ UNCHANGED <<lock, reap, alive, store, found, then, copy, misled>>

\* stale: kill(pid, 0), a second step; the probe itself may fail.
Probe(c) ==
  /\ At(c, "probe")
  /\ \/ processOf[seen[c]] \notin alive /\ goto(c, "unlink") /\ UNCHANGED then
     \/ processOf[seen[c]] \in alive /\ goto(c, "unreap") /\ UNCHANGED then
     \/ fails(c)
  /\ ends(seen, c, c)
  /\ misled' = (misled \/ (pc'[c] = "unlink" /\ lock # seen[c]))
  /\ UNCHANGED <<lock, reap, alive, store, found, copy>>

\* remove_dir_all of the lock, one file at a time: owner.json, ...
Unlink(c) ==
  /\ At(c, "unlink")
  /\ \/ lock = Absent /\ fails(c) /\ UNCHANGED lock
     \/ lock # Absent /\ lock' = Empty /\ goto(c, "rmdir") /\ UNCHANGED then
  /\ UNCHANGED <<reap, alive, store, found, seen, copy, misled>>

\* ... then the directory, which a new owner's rename may have replaced.
Rmdir(c) ==
  /\ At(c, "rmdir")
  /\ \/ lock = Empty /\ lock' = Absent /\ goto(c, "unreap") /\ UNCHANGED then
     \/ lock # Empty /\ fails(c) /\ UNCHANGED lock
  /\ UNCHANGED <<reap, alive, store, found, seen, copy, misled>>

Unreap(c) ==
  /\ At(c, "unreap")
  /\ reap' = FALSE
  /\ goto(c, then[c])
  /\ ends(then, c, "look")
  /\ UNCHANGED <<lock, alive, store, found, seen, copy, misled>>

\* acquire_lock: the second look, right before the attempt.
Look(c) ==
  /\ At(c, "look")
  /\ \/ lock = Absent /\ goto(c, "attempt") /\ UNCHANGED then
     \/ lock # Absent /\ enter_reclaim(c, "wait")
  /\ UNCHANGED <<lock, reap, alive, store, found, seen, copy, misled>>

\* attempt: the rename of the prepared directory, which replaces no directory
\* but an empty one.
Attempt(c) ==
  /\ At(c, "attempt")
  /\ \/ lock \notin Caller /\ lock' = c /\ goto(c, "read") /\ UNCHANGED then
     \/ lock \in Caller /\ enter_reclaim(c, "wait") /\ UNCHANGED lock
  /\ UNCHANGED <<reap, alive, store, found, seen, copy, misled>>

\* The deadline has passed, or another round begins.
Wait(c) ==
  /\ At(c, "wait")
  /\ goto(c, "exists") \/ goto(c, "refused")
  /\ UNCHANGED <<lock, reap, alive, store, found, seen, then, copy, misled>>

\* update_resources: read_resource_state, which may fail, ...
Read(c) ==
  /\ At(c, "read")
  /\ \/ copy' = [copy EXCEPT ![c] = store] /\ goto(c, "write")
     \/ goto(c, "release") /\ UNCHANGED copy
  /\ UNCHANGED <<lock, reap, alive, store, found, seen, then, misled>>

\* A blank state is written back, not the one that was read.
Write_blank(c) ==
  /\ At(c, "write")
  /\ store' = {c}
  /\ goto(c, "release")
  /\ ends(copy, c, {})
  /\ UNCHANGED <<lock, reap, alive, found, seen, then, misled>>

\* ... and write_json_atomic of what f made of it.
Write(c) ==
  /\ At(c, "write")
  /\ store' = copy[c] \cup {c}
  /\ goto(c, "release")
  /\ ends(copy, c, {})
  /\ UNCHANGED <<lock, reap, alive, found, seen, then, misled>>

\* LockHandle::release: only while the record still names this handle, ...
Release(c) ==
  /\ At(c, "release")
  /\ goto(c, IF lock = c THEN "clear" ELSE "done")
  /\ UNCHANGED <<lock, reap, alive, store, found, seen, then, copy, misled>>

\* ... the directory is removed, one file at a time; errors are ignored.
Clear(c) ==
  /\ At(c, "clear")
  /\ lock' = IF lock = Absent THEN Absent ELSE Empty
  /\ goto(c, IF lock = Absent THEN "done" ELSE "cleared")
  /\ UNCHANGED <<reap, alive, store, found, seen, then, copy, misled>>

\* remove_dir_all removes what a new owner put there meanwhile.
Cleared_anyone(c) ==
  /\ At(c, "cleared")
  /\ lock' = Absent
  /\ goto(c, "done")
  /\ UNCHANGED <<reap, alive, store, found, seen, then, copy, misled>>

Cleared(c) ==
  /\ At(c, "cleared")
  /\ lock' = IF lock = Empty THEN Absent ELSE lock
  /\ goto(c, "done")
  /\ UNCHANGED <<reap, alive, store, found, seen, then, copy, misled>>

Step(c) ==
  \/ Call(c) \/ Exists(c) \/ Gate(c) \/ Look(c) \/ Attempt(c) \/ Wait(c)
  \/ Reap(c) \/ Stale(c) \/ Probe(c) \/ Unlink(c) \/ Rmdir(c) \/ Unreap(c)
  \/ Read(c) \/ Write(c) \/ Release(c) \/ Clear(c) \/ Cleared(c)

\* A process ends, killed or because its work is done.
Die(p) ==
  /\ p \in alive
  /\ alive' = alive \ {p}
  /\ UNCHANGED <<lock, reap, store, pc, found, seen, then, copy, misled>>

Init ==
  /\ lock = Absent /\ reap = FALSE /\ alive = Process /\ store = {}
  /\ pc = [c \in Caller |-> "idle"]
  /\ found = [c \in Caller |-> FALSE]
  /\ seen = [c \in Caller |-> c]
  /\ then = [c \in Caller |-> "look"]
  /\ copy = [c \in Caller |-> {}]
  /\ misled = FALSE

Next == (\E c \in Caller : Step(c)) \/ (\E p \in Process : Die(p))

Spec == Init /\ [][Next]_vars

\* A process that lives runs.
FairSpec == Spec /\ \A c \in Caller : WF_vars(Step(c))

-----------------------------------------------------------------------------
(* Properties. *)

Acquiring == {"exists", "gate", "look", "attempt", "wait"}
Reclaiming == {"stale", "probe", "unlink", "rmdir", "unreap"}
Holding == {"read", "write", "release", "clear"}
Over == {"cleared", "done", "refused"}

\* Every variable has its type.
TypeOK ==
  /\ lock \in Caller \cup {Absent, Empty}
  /\ reap \in BOOLEAN
  /\ alive \in SUBSET Process
  /\ store \in SUBSET Caller
  /\ pc \in [Caller -> {"idle", "reap"} \cup Acquiring \cup Reclaiming \cup Holding \cup Over]
  /\ found \in [Caller -> BOOLEAN]
  /\ seen \in [Caller -> Caller]
  /\ then \in [Caller -> {"look", "wait", "refused"}]
  /\ copy \in [Caller -> SUBSET Caller]
  /\ misled \in BOOLEAN

holds(c) == processOf[c] \in alive /\ pc[c] \in Holding

\* `Exclusive ownership of the resource home': no two live callers hold it, and
\* the directory names the one that does. False: a reclaimer may be misled.
Exclusive == \A c \in Caller : holds(c) => lock = c

\* That is the only way: whoever dies, releases or reclaims in between, two live
\* callers hold the lock only after a probe judged a record already withdrawn.
ExclusiveUnlessMisled == ~misled => Exclusive

\* What is left over and stops everybody (`fails closed') is left by a death:
\* an ownerless directory by one inside a removal, a .reap by a reclaimer's.
Debris ==
  /\ lock = Empty => \E c \in Caller : pc[c] \in {"rmdir", "cleared"}
  /\ reap <=> \E c \in Caller : pc[c] \in Reclaiming

\* The callers but d are through, and left no .reap.
alone(d) ==
  \A c \in Caller \ {d} :
    \/ pc[c] \in {"done", "refused"}
    \/ processOf[c] \notin alive /\ pc[c] \notin Reclaiming

\* One call is enough to take over from a dead owner, the first round of it.
DeadOwnerGivesWay ==
  \A d \in Caller :
    (pc[d] = "exists" /\ alone(d) /\ lock \in Caller /\ processOf[lock] \notin alive)
      ~> (holds(d) \/ processOf[d] \notin alive \/ then[d] = "refused")

Updates == INSTANCE ResourceUpdates WITH
  owner <- IF lock \in Caller THEN lock ELSE Absent,
  applied <- store,
  Nobody <- Absent

\* update_resources is atomic, through reclaims and deaths at any file system
\* operation: each step is one of ResourceUpdates, until a reclaimer is misled.
AtomicUpdates ==
  Updates!Init /\ [][misled' \/ Updates!Next]_(Updates!vars)
=============================================================================
