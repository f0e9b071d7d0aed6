------------------------- MODULE ResourceLockProofs -------------------------
(***************************************************************************)
(* What ResourceLock promises for any number of callers and processes: the    *)
(* types, that only deaths leave debris, and, until a reclaimer is misled by  *)
(* a record that was withdrawn, exclusion and that it implements              *)
(* ResourceUpdates.                                                        *)
(***************************************************************************)
EXTENDS ResourceLock, TLAPS

\* .reap serializes reclamation: its maker is the one reclaimer, dead or alive.
OneReclaimer ==
  \A c, d \in Caller : pc[c] \in Reclaiming /\ pc[d] \in Reclaiming => c = d

\* Whom a reclaimer found dead still has the lock.
Judged ==
  \A c \in Caller :
    pc[c] = "unlink" => lock \in Caller /\ processOf[lock] \notin alive

\* A live caller writes over the state it read.
Fresh ==
  \A c \in Caller : processOf[c] \in alive /\ pc[c] = "write" => copy[c] = store

Tidy == TypeOK /\ OneReclaimer /\ Debris

\* A reclaimer that was misled may remove any lock, so that nothing is left to
\* say of exclusion; types and debris do not depend on it.
IInv == Tidy /\ (~misled => Exclusive /\ Judged /\ Fresh)

-----------------------------------------------------------------------------
(* Types and debris, misled reclaimers included. *)

LEMMA TypesHold == TypeOK /\ [Next]_vars => TypeOK'
<1> SUFFICES ASSUME TypeOK, [Next]_vars PROVE TypeOK'
  OBVIOUS
<1> USE LockConstants DEF TypeOK, Acquiring, Reclaiming, Holding, Over, At, goto, ends
<1>1. ASSUME NEW c \in Caller, Call(c) \/ Exists(c) \/ Gate(c) \/ Look(c) \/ Attempt(c) \/ Wait(c)
      PROVE TypeOK'
  <2>1. CASE Call(c) \/ Exists(c) \/ Wait(c)
    BY <2>1 DEF Call, Exists, Wait
  <2>2. CASE Gate(c)
    BY <2>2 DEF Gate, enter_reclaim
  <2>3. CASE Look(c) \/ Attempt(c)
    BY <2>3 DEF Look, Attempt, enter_reclaim
  <2> QED BY <1>1, <2>1, <2>2, <2>3
<1>2. ASSUME NEW c \in Caller, Reap(c) \/ Stale(c) \/ Probe(c)
      PROVE TypeOK'
  <2>1. CASE Reap(c)
    BY <2>1 DEF Reap
  <2>2. CASE Stale(c)
    BY <2>2 DEF Stale
  <2>3. CASE Probe(c)
    <3>1. seen' \in [Caller -> Caller]
      BY <2>3 DEF Probe
    <3>2. then' \in [Caller -> {"look", "wait", "refused"}]
      BY <2>3 DEF Probe, fails
    <3> QED BY <2>3, <3>1, <3>2 DEF Probe, fails
  <2> QED BY <1>2, <2>1, <2>2, <2>3
<1>3. ASSUME NEW c \in Caller, Unlink(c) \/ Rmdir(c) \/ Unreap(c)
      PROVE TypeOK'
  <2>1. CASE Unlink(c)
    BY <2>1 DEF Unlink, fails
  <2>2. CASE Rmdir(c)
    BY <2>2 DEF Rmdir, fails
  <2>3. CASE Unreap(c)
    BY <2>3 DEF Unreap
  <2> QED BY <1>3, <2>1, <2>2, <2>3
<1>4. ASSUME NEW c \in Caller, Read(c) \/ Write(c) \/ Release(c) \/ Clear(c) \/ Cleared(c)
      PROVE TypeOK'
  BY <1>4 DEF Read, Write, Release, Clear, Cleared
<1>5. ASSUME NEW p \in Process, Die(p) PROVE TypeOK'
  BY <1>5 DEF Die
<1>6. CASE UNCHANGED vars
  BY <1>6 DEF vars
<1> QED
  BY <1>1, <1>2, <1>3, <1>4, <1>5, <1>6 DEF Next, Step

\* A step of the lock's own files: who reclaims, and what is left over.
LEMMA TidyHolds == Tidy /\ [Next]_vars => Tidy'
<1> SUFFICES ASSUME Tidy, [Next]_vars PROVE OneReclaimer' /\ Debris'
  BY TypesHold DEF Tidy
<1> USE LockConstants DEF Tidy, TypeOK, OneReclaimer, Debris, Reclaiming, At, goto
<1>1. ASSUME NEW c \in Caller, Call(c) \/ Exists(c) \/ Gate(c) \/ Look(c) \/ Attempt(c) \/ Wait(c)
      PROVE OneReclaimer' /\ Debris'
  <2>1. CASE Call(c) \/ Exists(c) \/ Wait(c)
    BY <2>1 DEF Call, Exists, Wait
  <2>2. CASE Gate(c)
    BY <2>2 DEF Gate, enter_reclaim
  <2>3. CASE Look(c)
    BY <2>3 DEF Look, enter_reclaim
  <2>4. CASE Attempt(c)
    BY <2>4 DEF Attempt, enter_reclaim
  <2> QED BY <1>1, <2>1, <2>2, <2>3, <2>4
<1>2. ASSUME NEW c \in Caller, Reap(c) PROVE OneReclaimer' /\ Debris'
  <2>1. then[c] \notin Reclaiming
    OBVIOUS
  <2> QED BY <1>2, <2>1 DEF Reap
<1>3. ASSUME NEW c \in Caller, Stale(c) \/ Probe(c) PROVE OneReclaimer' /\ Debris'
  BY <1>3 DEF Stale, Probe, fails
<1>4. ASSUME NEW c \in Caller, Unlink(c) PROVE OneReclaimer' /\ Debris'
  BY <1>4 DEF Unlink, fails
<1>5. ASSUME NEW c \in Caller, Rmdir(c) PROVE OneReclaimer' /\ Debris'
  BY <1>5 DEF Rmdir, fails
<1>6. ASSUME NEW c \in Caller, Unreap(c) PROVE OneReclaimer' /\ Debris'
  BY <1>6 DEF Unreap
<1>7. ASSUME NEW c \in Caller, Read(c) \/ Write(c) \/ Release(c) \/ Clear(c) \/ Cleared(c)
      PROVE OneReclaimer' /\ Debris'
  BY <1>7 DEF Read, Write, Release, Clear, Cleared
<1>8. ASSUME NEW p \in Process, Die(p) PROVE OneReclaimer' /\ Debris'
  BY <1>8 DEF Die
<1>9. CASE UNCHANGED vars
  BY <1>9 DEF vars
<1> QED
  BY <1>1, <1>2, <1>3, <1>4, <1>5, <1>6, <1>7, <1>8, <1>9 DEF Next, Step

LEMMA TidyInit == Init => Tidy
BY LockConstants DEF Init, Tidy, TypeOK, OneReclaimer, Debris, Acquiring, Reclaiming, Holding, Over

\* Every variable of the lock has its type.
THEOREM TypeCorrect == Spec => []TypeOK
<1>1. Tidy => TypeOK BY DEF Tidy
<1> QED BY <1>1, TidyInit, TidyHolds, PTL DEF Spec

\* What stops everybody for good was left by a death inside a removal.
THEOREM OnlyDeathsLeaveDebris == Spec => []Debris
<1>1. Tidy => Debris BY DEF Tidy
<1> QED BY <1>1, TidyInit, TidyHolds, PTL DEF Spec

-----------------------------------------------------------------------------
(* Exclusion. *)

LEMMA InitIInv == Init => IInv
BY TidyInit, LockConstants DEF Init, IInv, Exclusive, holds, Holding, Judged, Fresh

\* Nothing takes the history back.
LEMMA MisledStays == TypeOK /\ [Next]_vars /\ misled => misled'
<1> SUFFICES ASSUME TypeOK, [Next]_vars, misled PROVE misled'
  OBVIOUS
<1>1. ASSUME NEW c \in Caller, Probe(c) PROVE misled'
  BY <1>1 DEF Probe
<1> QED
  BY <1>1 DEF Next, Step, Die, vars, Call, Exists, Gate, Look, Attempt, Wait, Reap, Stale,
              Unlink, Rmdir, Unreap, Read, Write, Release, Clear, Cleared

LEMMA StepIInv == IInv /\ [Next]_vars => IInv'
<1> SUFFICES ASSUME IInv, [Next]_vars, ~misled'
             PROVE Exclusive' /\ Judged' /\ Fresh'
  BY TidyHolds DEF IInv
<1>t. TypeOK /\ OneReclaimer BY DEF IInv, Tidy
<1>m. ~misled BY <1>t, MisledStays
<1>i. Exclusive /\ Judged /\ Fresh BY <1>m DEF IInv
<1> USE LockConstants, <1>t, <1>i
    DEF TypeOK, OneReclaimer, Reclaiming, Exclusive, holds, Holding, Judged, Fresh, At, goto
<1>1. ASSUME NEW c \in Caller, Call(c) \/ Exists(c) \/ Gate(c) \/ Look(c) \/ Wait(c)
      PROVE Exclusive' /\ Judged' /\ Fresh'
  <2>1. CASE Call(c) \/ Exists(c) \/ Wait(c)
    BY <2>1 DEF Call, Exists, Wait
  <2>2. CASE Gate(c)
    BY <2>2 DEF Gate, enter_reclaim
  <2>3. CASE Look(c)
    BY <2>3 DEF Look, enter_reclaim
  <2> QED BY <1>1, <2>1, <2>2, <2>3
<1>2. ASSUME NEW c \in Caller, Attempt(c) PROVE Exclusive' /\ Judged' /\ Fresh'
  BY <1>2 DEF Attempt, enter_reclaim
<1>3. ASSUME NEW c \in Caller, Reap(c) PROVE Exclusive' /\ Judged' /\ Fresh'
  <2>1. then[c] \notin Holding \cup {"unlink", "probe"}
    OBVIOUS
  <2> QED BY <1>3, <2>1 DEF Reap
<1>4. ASSUME NEW c \in Caller, Stale(c) PROVE Exclusive' /\ Judged' /\ Fresh'
  BY <1>4 DEF Stale
<1>5. ASSUME NEW c \in Caller, Probe(c) PROVE Exclusive' /\ Judged' /\ Fresh'
  BY <1>5 DEF Probe, fails, ends
<1>6. ASSUME NEW c \in Caller, Unlink(c) PROVE Exclusive' /\ Judged' /\ Fresh'
  BY <1>6 DEF Unlink, fails
<1>7. ASSUME NEW c \in Caller, Rmdir(c) PROVE Exclusive' /\ Judged' /\ Fresh'
  BY <1>7 DEF Rmdir, fails
<1>8. ASSUME NEW c \in Caller, Unreap(c) PROVE Exclusive' /\ Judged' /\ Fresh'
  <2>1. then[c] \notin Holding \cup {"unlink", "probe"}
    OBVIOUS
  <2> QED BY <1>8, <2>1 DEF Unreap
<1>9. ASSUME NEW c \in Caller, Read(c) \/ Release(c)
      PROVE Exclusive' /\ Judged' /\ Fresh'
  BY <1>9 DEF Read, Release
<1>10. ASSUME NEW c \in Caller, Write(c) PROVE Exclusive' /\ Judged' /\ Fresh'
  BY <1>10 DEF Write
<1>11. ASSUME NEW c \in Caller, Clear(c) \/ Cleared(c)
       PROVE Exclusive' /\ Judged' /\ Fresh'
  BY <1>11 DEF Clear, Cleared
<1>12. ASSUME NEW p \in Process, Die(p) PROVE Exclusive' /\ Judged' /\ Fresh'
  BY <1>12 DEF Die
<1>13. CASE UNCHANGED vars
  BY <1>13 DEF vars
<1> QED
  BY <1>1, <1>2, <1>3, <1>4, <1>5, <1>6, <1>7, <1>8, <1>9, <1>10, <1>11, <1>12, <1>13
  DEF Next, Step

\* Whatever dies and whoever reclaims, two live callers hold the lock together
\* only after a reclaimer judged a dead process by a record that was no longer the
\* lock's: stale() reads the record and probes the pid in two steps.
THEOREM LockIsExclusive == Spec => []ExclusiveUnlessMisled
<1>1. IInv => ExclusiveUnlessMisled BY DEF IInv, ExclusiveUnlessMisled
<1> QED BY <1>1, InitIInv, StepIInv, PTL DEF Spec

-----------------------------------------------------------------------------
(* Refinement. *)

LEMMA StepRefines ==
  ASSUME IInv, ~misled, [Next]_vars
  PROVE  [Updates!Next]_(Updates!vars)
<1> USE LockConstants
    DEF IInv, Tidy, TypeOK, At, goto, Updates!vars
<1>1. ASSUME NEW c \in Caller,
             Call(c) \/ Exists(c) \/ Gate(c) \/ Look(c) \/ Wait(c) \/ Reap(c) \/ Stale(c) \/ Probe(c)
      PROVE UNCHANGED Updates!vars
  BY <1>1 DEF Call, Exists, Gate, Look, Wait, Reap, Stale, Probe
<1>2. ASSUME NEW c \in Caller, Rmdir(c) \/ Unreap(c) \/ Read(c) \/ Release(c) \/ Cleared(c)
      PROVE UNCHANGED Updates!vars
  BY <1>2 DEF Rmdir, Unreap, Read, Release, Cleared
<1>3. ASSUME NEW c \in Caller, Attempt(c)
      PROVE Updates!Take(c) \/ UNCHANGED Updates!vars
  BY <1>3 DEF Attempt, Updates!Take
<1>4. ASSUME NEW c \in Caller, Unlink(c)
      PROVE Updates!Reclaim(lock) \/ UNCHANGED Updates!vars
  BY <1>4 DEF Unlink, Judged, Updates!Reclaim
<1>5. ASSUME NEW c \in Caller, Clear(c)
      PROVE Updates!Give(c)
  BY <1>5 DEF Clear, Exclusive, holds, Holding, Updates!Give
<1>6. ASSUME NEW c \in Caller, Write(c)
      PROVE Updates!Update(c)
  BY <1>6 DEF Write, Exclusive, holds, Holding, Fresh, Updates!Update
<1>7. ASSUME NEW p \in Process, Die(p) PROVE Updates!Die(p)
  BY <1>7 DEF Die, Updates!Die
<1>8. CASE UNCHANGED vars
  BY <1>8 DEF vars
<1>9. ASSUME NEW c \in Caller, Unlink(c) PROVE lock \in Caller
  BY <1>9 DEF Unlink, Judged
<1> QED
  BY <1>1, <1>2, <1>3, <1>4, <1>5, <1>6, <1>7, <1>8, <1>9 DEF Next, Step, Updates!Next

\* update_resources is atomic until a reclaimer is misled: the lock protocol and
\* the read and write of the state under it implement ResourceUpdates.
THEOREM UpdatesAreAtomic == Spec => AtomicUpdates
<1>1. Init => Updates!Init
  BY LockConstants DEF Init, Updates!Init
<1>2. IInv /\ [Next]_vars => [misled' \/ Updates!Next]_(Updates!vars)
  <2> SUFFICES ASSUME IInv, [Next]_vars, ~misled' PROVE [Updates!Next]_(Updates!vars)
    OBVIOUS
  <2>1. ~misled BY MisledStays DEF IInv, Tidy
  <2> QED BY <2>1, StepRefines
<1> QED
  BY <1>1, <1>2, InitIInv, StepIInv, PTL DEF Spec, AtomicUpdates
=============================================================================
