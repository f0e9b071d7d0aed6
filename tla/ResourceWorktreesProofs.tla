------------------------ MODULE ResourceWorktreesProofs ------------------------
(***************************************************************************)
(* What the fence of a worktree is for, for any issues, job runners, hosts,    *)
(* epics and bounds, whatever commands and rebases overlap: while it stands, no *)
(* job works in a worktree that is removed, or where the engine replays the     *)
(* branch.  WInv says what the looks at the jobs have found and the fence has   *)
(* kept so.                                                                  *)
(***************************************************************************)
EXTENDS ResourceLeasesProofs

\* The fences of a replacement or a finish, and all that stop a job.
Cleaned == {"cleaning", "cleanup-incomplete"}
FenceStages == Cleaned \cup {"rebasing"}

Leaves(i) == At(i, "recheck") \/ At(i, "remove")

\* What the finish saw of the jobs is so while its fence stands.
Clear(i) == Leaves(i) /\ Fences(i, Cleaned) => JobsIn(job, i) = {}

\* And what the rebase saw.
Replays(i) == rebase[i].pc = "replay" /\ Fences(i, {"rebasing"}) => JobsIn(job, i) = {}

WInv == IInv /\ \A i \in Issues : Clear(i) /\ Replays(i)

-----------------------------------------------------------------------------
(* A fence that stands after a step stood before it, or the step raised it. *)

Raises(i, k) == k = i /\ (FenceSource(i) \/ OwnCleanup(i) \/ RebaseFence(i))

Stood(k) ==
  lease'[k] # None /\ lease'[k].stage \in FenceStages =>
    /\ lease[k] # None
    /\ lease'[k].stage = lease[k].stage /\ lease'[k].tree = lease[k].tree

LEMMA SameStood ==
  ASSUME NEW k, lease'[k] = lease[k] \/ lease'[k] = None
  PROVE  Stood(k)
BY DEF Stood

LEMMA LaunchingStood ==
  ASSUME TypeOK, NEW i \in Issues, Due(i), Launching(i), ~FenceSource(i)
  PROVE  Stood(i)
<1>1. CASE Reclaim(i) \/ ReleaseAttempt(i)
  <2>1. lease'[i] = lease[i] \/ lease'[i] = None
    BY <1>1 DEF Reclaim, ReleaseAttempt, Released, Fails, Persist, TypeOK
  <2> QED
    BY <2>1, SameStood
<1>2. CASE Acquire(i)
  <2>1. CASE lease' = lease
    BY <2>1, SameStood
  <2>2. CASE lease' # lease
    <3>1. PICK t \in Tokens : lease' = [lease EXCEPT ![i] =
            [token |-> t, host |-> cmd[i].host, pending |-> None, tree |-> FALSE,
             stage |-> "starting", owned |-> TRUE]]
      BY <1>2, <2>2 DEF Acquire
    <3>2. lease'[i].stage = "starting"
      BY <3>1 DEF TypeOK
    <3> QED
      BY <3>2 DEF Stood, FenceStages, Cleaned
  <2> QED
    BY <2>1, <2>2
<1>3. CASE Prepared(i)
  <2> DEFINE x == [lease[i] EXCEPT !.pending = cmd[i].host, !.stage = "replacing"]
  <2>1. lease[i] # None /\ lease' = [lease EXCEPT ![i] = x]
    BY <1>3 DEF Prepared, Holds
  <2>2. x.stage = "replacing"
    BY <2>1 DEF TypeOK, Lease
  <2> HIDE DEF x
  <2>3. lease'[i] = x
    BY <2>1 DEF TypeOK
  <2> QED
    BY <2>2, <2>3 DEF Stood, FenceStages, Cleaned
<1>4. CASE Move(i)
  <2>1. CASE lease' = lease
    BY <2>1, SameStood
  <2>2. CASE lease' # lease
    <3> DEFINE x == [lease[i] EXCEPT !.host = cmd[i].host, !.pending = None]
    <3>1. lease[i] # None /\ lease[i].stage = "replacing" /\ lease' = [lease EXCEPT ![i] = x]
      BY <1>4, <2>2 DEF Move, Fails, Persist, Mine, Holds
    <3>2. x.stage = "replacing"
      BY <3>1 DEF TypeOK, Lease
    <3> HIDE DEF x
    <3>3. lease'[i] = x
      BY <3>1 DEF TypeOK
    <3> QED
      BY <3>2, <3>3 DEF Stood, FenceStages, Cleaned
  <2> QED
    BY <2>1, <2>2
<1>5. CASE Patch(i)
  <2>1. CASE Mine(i)
    BY <1>5, <2>1, PatchFacts DEF Stood, FenceStages, Cleaned, Attempted
  <2>2. CASE ~Mine(i)
    BY <1>5, <2>2, SameStood DEF Patch
  <2> QED
    BY <2>1, <2>2
<1> QED
  <2>1. CASE lease' = lease
    BY <2>1, SameStood
  <2> QED
    BY <1>1, <1>2, <1>3, <1>4, <1>5, <2>1 DEF Launching, BeginLaunch, Reuse, Refused, Announce,
       StopSource, VerifySource, Confirm, Initialize, Prepare, StartAgent, Deliver, DropStage,
       Persist, Fails

LEMMA EngineStood ==
  ASSUME TypeOK, NEW i \in Issues, Rebasing(i), ~RebaseFence(i)
  PROVE  Stood(i)
<1>1. lease' = lease \/ (lease[i] # None /\ Stages(i, "running"))
  BY DEF Rebasing, Adopt, RebaseBegin, RebaseCheck, RebaseEnds, RebaseCut, RebaseRecover,
     Holds, Stages
<1>2. "running" \in LeaseStage
  BY DEF LeaseStage
<1> QED
  BY <1>1, <1>2, StagesFacts DEF Stood, FenceStages, Cleaned

LEMMA Steady ==
  ASSUME TypeOK, NEW i \in Issues, Due(i), Launching(i) \/ Finishing(i) \/ Rebasing(i) \/ Leaving(i)
  PROVE  \A k \in Issues : Stood(k) \/ Raises(i, k)
<1>1. ASSUME NEW k \in Issues, k # i PROVE Stood(k)
  BY <1>1, OthersLeases, SameStood
<1>2. Stood(i) \/ Raises(i, i)
  <2>1. CASE Launching(i)
    BY <2>1, LaunchingStood DEF Raises
  <2>2. CASE Finishing(i)
    <3>1. OwnCleanup(i) \/ lease'[i] = lease[i] \/ lease'[i] = None
      BY <2>2 DEF Finishing, BeginFinish, ExitAgent, AwaitQuiet, VerifyNoJobs, Recheck,
         Remove, VerifyRemoved, Settle, Return, Released, TypeOK
    <3> QED
      BY <3>1, SameStood DEF Raises
  <2>3. CASE Rebasing(i)
    BY <2>3, EngineStood DEF Raises
  <2>4. CASE Leaving(i)
    <3>1. lease' = lease \/ (lease[i] # None /\ lease' = [lease EXCEPT ![i].owned = FALSE])
      BY <2>4 DEF Leaving, AgentExits, CommandDies, OwnerExits, Mine, Holds
    <3> QED
      BY <3>1, OwnerlessFacts DEF Stood
  <2> QED
    BY <2>1, <2>2, <2>3, <2>4
<1> QED
  BY <1>1, <1>2

-----------------------------------------------------------------------------
(* Who comes to the removal, and to the replay. *)

LEMMA GoesLeaves ==
  ASSUME TypeOK, NEW i \in Issues, cmd[i] # None, NEW pc, pc \notin {"recheck", "remove"},
         Goto(i, pc) \/ Ends(i)
  PROVE  ~Leaves(i)'
BY GotoFacts, EndsFacts DEF Leaves, At

LEMMA PersistLeaves ==
  ASSUME TypeOK, NEW i \in Issues, cmd[i] # None, NEW saved, NEW stage, NEW next,
         Persist(i, saved, stage, next)
  PROVE  ~Leaves(i)'
BY DEF Persist, TypeOK, Command, Leaves, At

LEMMA LaunchingLeaves ==
  ASSUME TypeOK, NEW i \in Issues, Due(i), Launching(i)
  PROVE  ~Leaves(i)'
<1>1. CASE \E h \in Hosts, verb \in {"launch", "replace"} : BeginLaunch(i, h, verb)
  BY <1>1 DEF BeginLaunch, TypeOK, Leaves, At
<1>2. CASE Reclaim(i) \/ Refused(i) \/ StopSource(i) \/ DropStage(i)
  BY <1>2, GoesLeaves DEF Reclaim, Refused, StopSource, DropStage, At
<1>3. CASE Acquire(i) \/ Reuse(i) \/ Prepared(i)
  <2>1. cmd[i] # None /\ cmd[i] \in Command
    BY <1>3 DEF Acquire, Reuse, Prepared, At, TypeOK
  <2>2. ASSUME NEW pc, pc \notin {"recheck", "remove"}, NEW t, NEW took,
               \/ cmd' = [cmd EXCEPT ![i].pc = pc, ![i].token = t]
               \/ cmd' = [cmd EXCEPT ![i].pc = pc, ![i].token = t, ![i].took = took]
        PROVE  ~Leaves(i)'
    BY <2>1, <2>2 DEF Leaves, At, Command, TypeOK
  <2>3. CASE Acquire(i)
    <3>1. CASE Ends(i)
      BY <2>1, <3>1, EndsFacts DEF Leaves, At
    <3>2. CASE \E t \in Tokens :
                 cmd' = [cmd EXCEPT ![i].pc = "initialize", ![i].token = t, ![i].took = TRUE]
      BY <2>2, <3>2
    <3> QED
      BY <2>3, <3>1, <3>2 DEF Acquire
  <2>4. CASE Reuse(i) \/ Prepared(i)
    BY <2>2, <2>4 DEF Reuse, Prepared
  <2> QED
    BY <1>3, <2>3, <2>4
<1>4. CASE Announce(i) \/ Confirm(i) \/ Initialize(i) \/ Prepare(i) \/ Deliver(i)
  BY <1>4, PersistLeaves DEF Announce, Confirm, Initialize, Prepare, Deliver, Fails, At
<1>5. CASE FenceSource(i) \/ VerifySource(i) \/ Move(i)
  <2>1. /\ cmd[i] # None
        /\ Fails(i) \/ Goto(i, "stop") \/ Goto(i, "confirm") \/ Goto(i, "initialize")
    BY <1>5 DEF FenceSource, VerifySource, Move, At
  <2> QED
    BY <2>1, PersistLeaves, GoesLeaves DEF Fails
<1>6. CASE StartAgent(i)
  <2>1. /\ cmd[i] # None /\ cmd[i].pc = "start"
        /\ Fails(i) \/ Goto(i, "deliver") \/ Goto(i, "release") \/ cmd' = cmd
    BY <1>6 DEF StartAgent, At
  <2>2. cmd' = cmd => ~Leaves(i)'
    BY <2>1 DEF Leaves, At
  <2> QED
    BY <2>1, <2>2, PersistLeaves, GoesLeaves DEF Fails
<1>7. CASE Patch(i)
  <2>1. CASE Ends(i)
    BY <2>1, EndsFacts DEF Leaves, At
  <2>2. CASE ~Ends(i)
    <3> DEFINE c == [cmd[i] EXCEPT !.pc = cmd[i].next, !.next = None]
    <3>1. /\ cmd[i].next \in LaunchStep /\ cmd[i] \in Command
          /\ cmd' = [cmd EXCEPT ![i] = c]
      BY <1>7, <2>2 DEF Patch, At, TypeOK, Due
    <3>2. c.pc = cmd[i].next
      BY <3>1 DEF Command
    <3> HIDE DEF c
    <3>3. cmd'[i] = c
      BY <3>1 DEF TypeOK
    <3> QED
      BY <3>1, <3>2, <3>3 DEF Leaves, At, LaunchStep
  <2> QED
    BY <2>1, <2>2
<1>8. CASE ReleaseAttempt(i)
  <2>1. cmd[i] # None /\ cmd[i] \in Command
    BY <1>8 DEF ReleaseAttempt, At, TypeOK
  <2>2. CASE Fails(i)
    BY <2>1, <2>2, PersistLeaves DEF Fails
  <2>3. CASE cmd' = [cmd EXCEPT ![i].pc = "drop", ![i].took = FALSE]
    BY <2>1, <2>3 DEF Leaves, At, Command, TypeOK
  <2> QED
    BY <1>8, <2>2, <2>3 DEF ReleaseAttempt
<1> QED
  BY <1>1, <1>2, <1>3, <1>4, <1>5, <1>6, <1>7, <1>8 DEF Launching

\* The finish looked at the jobs, or had.
LEMMA FinishingLeaves ==
  ASSUME TypeOK, NEW i \in Issues, Finishing(i), Leaves(i)'
  PROVE  ~OwnCleanup(i) /\ (Leaves(i) \/ JobsIn(job', i) = {})
<1>1. CASE BeginFinish(i)
  BY <1>1 DEF BeginFinish, TypeOK, Leaves, At
<1>2. CASE Recheck(i) \/ Remove(i)
  BY <1>2 DEF Recheck, Remove, OwnCleanup, Leaves, At
<1>3. CASE VerifyNoJobs(i)
  <2>1. cmd[i] # None /\ cmd[i].pc = "verify" /\ job' = Reconciled
    BY <1>3 DEF VerifyNoJobs, At
  <2>2. CASE Incomplete(i)
    BY <2>1, <2>2, GoesLeaves DEF Incomplete
  <2>3. CASE JobsIn(Reconciled, i) = {}
    BY <2>1, <2>3 DEF OwnCleanup, At
  <2> QED
    BY <1>3, <2>2, <2>3 DEF VerifyNoJobs
<1>4. CASE ~BeginFinish(i) /\ ~Recheck(i) /\ ~Remove(i) /\ ~VerifyNoJobs(i)
  <2>1. /\ cmd[i] # None
        /\ Ends(i) \/ \E pc \in {"exit", "gone", "quiet", "verify", "settle", "return"} : Goto(i, pc)
    BY <1>4 DEF Finishing, OwnCleanup, ExitAgent, AwaitQuiet, VerifyRemoved, Settle, Return,
       Incomplete, At
  <2> QED
    BY <2>1, GoesLeaves
<1> QED
  BY <1>1, <1>2, <1>3, <1>4

LEMMA OthersRebases ==
  ASSUME TypeOK, NEW i \in Issues, Launching(i) \/ Finishing(i) \/ Leaving(i)
  PROVE  rebase' = rebase
<1>1. CASE Launching(i)
  BY <1>1 DEF Launching, BeginLaunch, Reclaim, Acquire, Reuse, Prepared, Refused, Announce,
     FenceSource, StopSource, VerifySource, Confirm, Move, Initialize, Prepare, StartAgent,
     Deliver, Patch, ReleaseAttempt, DropStage
<1>2. CASE Finishing(i)
  BY <1>2 DEF Finishing, BeginFinish, OwnCleanup, ExitAgent, AwaitQuiet, VerifyNoJobs, Recheck,
     Remove, VerifyRemoved, Settle, Return
<1>3. CASE Leaving(i)
  BY <1>3 DEF Leaving, AgentExits, CommandDies, OwnerExits
<1> QED
  BY <1>1, <1>2, <1>3

\* The engine looked at the jobs, or had.
LEMMA RebasingReplays ==
  ASSUME TypeOK, NEW i \in Issues, Rebasing(i), NEW k \in Issues, rebase'[k].pc = "replay"
  PROVE  /\ rebase[k].pc = "replay" \/ JobsIn(job', k) = {}
         /\ RebaseFence(i) => k # i
<1>1. ASSUME NEW pc, NEW token, RebaseTo(i, pc, token)
      PROVE  rebase'[i].pc = pc /\ \A m \in Issues : m # i => rebase'[m] = rebase[m]
  BY <1>1 DEF RebaseTo, TypeOK
<1>2. CASE Adopt(i)
  BY <1>2 DEF Adopt, RebaseFence
<1>3. CASE RebaseCheck(i)
  <2>1. job' = Reconciled /\ rebase[i].pc = "fenced"
    BY <1>3 DEF RebaseCheck
  <2>2. \/ JobsIn(Reconciled, i) = {} /\ RebaseTo(i, "replay", rebase[i].token)
        \/ RebaseTo(i, "lift", rebase[i].token)
    BY <1>3 DEF RebaseCheck
  <2> QED
    BY <1>1, <2>1, <2>2 DEF RebaseFence
<1>4. CASE ~Adopt(i) /\ ~RebaseCheck(i)
  <2>1. \E pc \in {"no", "due", "fenced", "lift", "cut"}, token \in {None, record[i].token, rebase[i].token} :
          RebaseTo(i, pc, token)
    BY <1>4 DEF Rebasing, RebaseBegin, RebaseFence, RebaseEnds, RebaseCut, RebaseRecover
  <2> QED
    BY <1>1, <2>1
<1> QED
  BY <1>2, <1>3, <1>4

-----------------------------------------------------------------------------
(* The jobs. *)

LEMMA ReconciledJobs ==
  ASSUME TypeOK, JobShape, NEW i \in Issues, job' = job \/ job' = Reconciled
  PROVE  JobsIn(job', i) \subseteq JobsIn(job, i)
<1>1. \A j \in Jobs : Reconciled[j].lease # "none" =>
        job[j].lease # "none" /\ Reconciled[j].tree = job[j].tree
  BY DEF Reconciled, Job, TypeOK
<1> QED
  BY <1>1 DEF JobsIn

\* No job is admitted where a fence stands.
LEMMA RunningJobs ==
  ASSUME TypeOK, JobShape, NEW j \in Jobs, Running(j), NEW i \in Issues, Fences(i, FenceStages)
  PROVE  JobsIn(job', i) \subseteq JobsIn(job, i)
<1>1. job[j] \in Job /\ job \in [Jobs -> Job] /\ Reconciled \in [Jobs -> Job]
  BY ReconciledTyped DEF TypeOK
<1>2. \A k \in Jobs : Reconciled[k].lease # "none" =>
        job[k].lease # "none" /\ Reconciled[k].tree = job[k].tree
  BY DEF Reconciled, Job, TypeOK
<1>3. ASSUME NEW jobs \in {job, Reconciled}, NEW x, job' = [jobs EXCEPT ![j] = x],
             x.lease = "none" \/ (job[j].lease # "none" /\ x.tree = job[j].tree) \/ x.tree # i
      PROVE  JobsIn(job', i) \subseteq JobsIn(job, i)
  <2>1. job'[j] = x /\ \A k \in Jobs : k # j => job'[k] = jobs[k]
    BY <1>1, <1>3
  <2> QED
    BY <1>2, <1>3, <2>1 DEF JobsIn
<1>4. CASE Admit(j)
  <2>1. CASE job' = [Reconciled EXCEPT ![j] = NoJob]
    BY <1>3, <2>1, NoJobTyped
  <2>2. CASE ~Blocked(job[j].tree) /\ job' = [Reconciled EXCEPT ![j].pc = "leased", ![j].lease = "held"]
    <3> DEFINE x == [Reconciled[j] EXCEPT !.pc = "leased", !.lease = "held"]
    <3>1. Blocked(i)
      BY DEF Fences, Blocked, FenceStages, Cleaned
    <3>2. Reconciled[j].tree = job[j].tree
      BY <1>1 DEF Reconciled, Job
    <3>3. x.tree = job[j].tree
      BY <1>1, <3>2 DEF Job
    <3>4. job' = [Reconciled EXCEPT ![j] = x]
      BY <2>2
    <3> HIDE DEF x
    <3>5. x.tree # i
      BY <2>2, <3>1, <3>3
    <3> QED
      BY <1>3, <3>4, <3>5
  <2> QED
    BY <1>4, <2>1, <2>2 DEF Admit
<1>5. CASE \E k \in Issues : Ask(j, k)
  <2>1. PICK k \in Issues : Ask(j, k)
    BY <1>5
  <2> DEFINE x == [NoJob EXCEPT !.pc = "asking", !.tree = k]
  <2>2. x.lease = "none"
    BY DEF NoJob
  <2>3. job' = [job EXCEPT ![j] = x]
    BY <2>1 DEF Ask
  <2> HIDE DEF x
  <2> QED
    BY <1>3, <2>2, <2>3
<1>6. CASE GiveBack(j) \/ Renew(j)
  BY <1>3, <1>6, NoJobTyped DEF GiveBack, Renew
<1>7. ASSUME NEW x, job' = [job EXCEPT ![j] = x],
             x.tree = job[j].tree, x.lease # "none" => job[j].lease # "none"
      PROVE  JobsIn(job', i) \subseteq JobsIn(job, i)
  BY <1>3, <1>7
<1>8. CASE Spawn(j)
  <2> DEFINE x == [job[j] EXCEPT !.pc = "spawned", !.group = "waiting"]
  <2>1. job' = [job EXCEPT ![j] = x]
    BY <1>8 DEF Spawn
  <2>2. x.tree = job[j].tree /\ x.lease = job[j].lease
    BY <1>1 DEF Job
  <2> HIDE DEF x
  <2> QED
    BY <1>7, <2>1, <2>2
<1>9. CASE RecordGroup(j)
  <2>1. CASE job[j].lease = "none"
    BY <1>3, <1>9, <2>1, NoJobTyped DEF RecordGroup
  <2>2. CASE job[j].lease # "none"
    <3> DEFINE x == [job[j] EXCEPT !.pc = "running", !.lease = "grouped"]
    <3>1. job' = [job EXCEPT ![j] = x]
      BY <1>9, <2>2 DEF RecordGroup
    <3>2. x.tree = job[j].tree
      BY <1>1 DEF Job
    <3> HIDE DEF x
    <3> QED
      BY <1>7, <2>2, <3>1, <3>2
  <2> QED
    BY <2>1, <2>2
<1>10. CASE Go(j) \/ GroupEnds(j)
  <2>1. PICK g \in {"working", "none"} : job' = [job EXCEPT ![j].group = g]
    BY <1>10 DEF Go, GroupEnds
  <2> DEFINE x == [job[j] EXCEPT !.group = g]
  <2>2. x.tree = job[j].tree /\ x.lease = job[j].lease
    BY <1>1 DEF Job
  <2>3. job' = [job EXCEPT ![j] = x]
    BY <2>1
  <2> HIDE DEF x
  <2> QED
    BY <1>7, <2>2, <2>3
<1>11. CASE SettleJob(j)
  <2>1. CASE job[j].group = "none"
    BY <1>3, <1>11, <2>1, NoJobTyped DEF SettleJob
  <2>2. CASE job[j].group # "none"
    <3> DEFINE x == [job[j] EXCEPT !.pc = "dead"]
    <3>1. job' = [job EXCEPT ![j] = x]
      BY <1>11, <2>2 DEF SettleJob
    <3>2. x.tree = job[j].tree /\ x.lease = job[j].lease
      BY <1>1 DEF Job
    <3> HIDE DEF x
    <3> QED
      BY <1>7, <3>1, <3>2
  <2> QED
    BY <2>1, <2>2
<1>12. CASE RunnerDies(j)
  <2> DEFINE x == [job[j] EXCEPT !.pc = "dead",
                                 !.group = IF @ = "working" THEN @ ELSE "none"]
  <2>1. job' = [job EXCEPT ![j] = x]
    BY <1>12 DEF RunnerDies
  <2>2. x.tree = job[j].tree /\ x.lease = job[j].lease
    BY <1>1 DEF Job
  <2> HIDE DEF x
  <2> QED
    BY <1>7, <2>1, <2>2
<1> QED
  BY <1>4, <1>5, <1>6, <1>8, <1>9, <1>10, <1>11, <1>12 DEF Running

-----------------------------------------------------------------------------
(* The invariant. *)

\* A fence of `stages' that stands after the step of i stood before it.
LEMMA StoodFences ==
  ASSUME NEW k \in Issues, Stood(k), NEW stages \in SUBSET FenceStages, Fences(k, stages)'
  PROVE  Fences(k, stages)
BY DEF Stood, Fences

LEMMA ClearStep ==
  ASSUME WInv, NEW i \in Issues, Launching(i) \/ Finishing(i) \/ Rebasing(i) \/ Leaving(i)
  PROVE  \A k \in Issues : Clear(k)'
<1> SUFFICES ASSUME NEW k \in Issues, Leaves(k)', Fences(k, Cleaned)'
             PROVE  JobsIn(job', k) = {}
  BY DEF Clear
<1>1. TypeOK /\ JobShape /\ (\A m \in Issues : Due(m)) /\ Clear(k)
  BY DEF WInv, IInv
<1>2. JobsIn(job', k) \subseteq JobsIn(job, k)
  BY <1>1, CommandsReconcile, ReconciledJobs
<1>3. Cleaned \in SUBSET FenceStages
  BY DEF FenceStages
<1>4. CASE k # i
  <2>1. Leaves(k)
    BY <1>1, <1>4, OthersStay DEF Leaves, At
  <2>2. Stood(k)
    BY <1>1, <1>4, Steady DEF Raises
  <2> QED
    BY <1>1, <1>2, <1>3, <2>1, <2>2, StoodFences DEF Clear
<1>5. CASE k = i
  <2>1. ~Launching(i)
    BY <1>1, <1>5, LaunchingLeaves
  <2>2. CASE JobsIn(job', i) = {}
    BY <1>5, <2>2
  <2>3. CASE JobsIn(job', i) # {}
    <3>1. Leaves(i) /\ ~OwnCleanup(i)
      <4>1. CASE Finishing(i)
        BY <1>1, <1>5, <2>3, <4>1, FinishingLeaves
      <4>2. CASE Rebasing(i)
        <5>1. cmd' = cmd
          BY <4>2 DEF Rebasing, Adopt, RebaseBegin, RebaseFence, RebaseCheck, RebaseEnds,
             RebaseCut, RebaseRecover
        <5> QED
          BY <1>5, <5>1 DEF Leaves, At, OwnCleanup
      <4>3. CASE Leaving(i)
        <5>1. cmd' = cmd \/ Ends(i)
          BY <4>3 DEF Leaving, AgentExits, CommandDies, OwnerExits
        <5>2. ~Ends(i)
          BY <1>1, <1>5, EndsFacts DEF Leaves, At
        <5> QED
          BY <1>5, <5>1, <5>2 DEF Leaves, At, OwnCleanup
      <4> QED
        BY <2>1, <4>1, <4>2, <4>3
    <3>2. ~FenceSource(i)
      BY <3>1 DEF FenceSource, Leaves, At
    <3>3. CASE RebaseFence(i)
      <4>1. lease' = lease \/ (lease[i] # None /\ Stages(i, "rebasing"))
        BY <3>3 DEF RebaseFence, Holds
      <4>2. "rebasing" \in LeaseStage
        BY DEF LeaseStage
      <4>3. lease' = lease
        BY <1>1, <1>5, <4>1, <4>2, StagesFacts DEF Fences, Cleaned
      <4> QED
        BY <1>1, <1>2, <1>5, <3>1, <4>3 DEF Clear, Fences
    <3>4. CASE ~RebaseFence(i)
      <4>1. Stood(i)
        BY <1>1, <3>1, <3>2, <3>4, Steady DEF Raises
      <4> QED
        BY <1>1, <1>2, <1>3, <1>5, <3>1, <4>1, StoodFences DEF Clear
    <3> QED
      BY <3>3, <3>4
  <2> QED
    BY <2>2, <2>3
<1> QED
  BY <1>4, <1>5

\* A replacement's or a finish's fence is not the rebase's.
LEMMA CleanedFence ==
  ASSUME TypeOK, NEW i \in Issues, FenceSource(i) \/ OwnCleanup(i), Fences(i, {"rebasing"})'
  PROVE  Fences(i, {"rebasing"})
<1>1. CASE lease' = lease
  BY <1>1 DEF Fences
<1>2. CASE Mine(i)
  <2> DEFINE active == JobsIn(Reconciled, i) # {}
  <2>1. lease[i] # None /\ Fenced(i, active) /\ active \in BOOLEAN
    BY <1>2 DEF FenceSource, OwnCleanup, Mine, Holds
  <2> HIDE DEF active
  <2>2. lease'[i].stage # "rebasing"
    BY <2>1, FencedFacts
  <2> QED
    BY <2>2 DEF Fences
<1> QED
  BY <1>1, <1>2 DEF FenceSource, OwnCleanup, Fails, Persist

LEMMA ReplaysStep ==
  ASSUME WInv, NEW i \in Issues, Launching(i) \/ Finishing(i) \/ Rebasing(i) \/ Leaving(i)
  PROVE  \A k \in Issues : Replays(k)'
<1> SUFFICES ASSUME NEW k \in Issues, rebase'[k].pc = "replay", Fences(k, {"rebasing"})',
                    JobsIn(job', k) # {}
             PROVE  FALSE
  BY DEF Replays
<1>1. TypeOK /\ JobShape /\ (\A m \in Issues : Due(m)) /\ Replays(k)
  BY DEF WInv, IInv
<1>2. JobsIn(job', k) \subseteq JobsIn(job, k)
  BY <1>1, CommandsReconcile, ReconciledJobs
<1>3. rebase[k].pc = "replay" /\ ~(RebaseFence(i) /\ k = i)
  <2>1. CASE Rebasing(i)
    BY <1>1, <2>1, RebasingReplays
  <2>2. CASE ~Rebasing(i)
    BY <1>1, <2>2, OthersRebases DEF Rebasing
  <2> QED
    BY <2>1, <2>2
<1>4. {"rebasing"} \in SUBSET FenceStages
  BY DEF FenceStages
<1>5. Fences(k, {"rebasing"})
  <2>1. CASE Raises(i, k)
    BY <1>1, <1>3, <2>1, CleanedFence DEF Raises
  <2>2. CASE Stood(k)
    BY <1>4, <2>2, StoodFences
  <2> QED
    BY <1>1, <2>1, <2>2, Steady
<1> QED
  BY <1>1, <1>2, <1>3, <1>5 DEF Replays

LEMMA RunningWorktrees ==
  ASSUME WInv, NEW j \in Jobs, Running(j)
  PROVE  \A k \in Issues : Clear(k)' /\ Replays(k)'
<1> SUFFICES ASSUME NEW k \in Issues PROVE Clear(k)' /\ Replays(k)'
  OBVIOUS
<1>1. UNCHANGED <<lease, record, cmd, rebase, agent, tree>>
  BY DEF Running, Ask, Admit, GiveBack, Spawn, RecordGroup, Go, GroupEnds, SettleJob,
     RunnerDies, Renew
<1>2. TypeOK /\ JobShape /\ Clear(k) /\ Replays(k)
  BY DEF WInv, IInv
<1>3. Fences(k, FenceStages) => JobsIn(job', k) \subseteq JobsIn(job, k)
  BY <1>2, RunningJobs
<1>4. Fences(k, Cleaned) \/ Fences(k, {"rebasing"}) => Fences(k, FenceStages)
  BY DEF Fences, FenceStages
<1>5. /\ Fences(k, Cleaned)' <=> Fences(k, Cleaned)
      /\ Fences(k, {"rebasing"})' <=> Fences(k, {"rebasing"})
      /\ Leaves(k)' <=> Leaves(k)
  BY <1>1 DEF Fences, Leaves, At
<1> QED
  BY <1>1, <1>2, <1>3, <1>4, <1>5 DEF Clear, Replays

LEMMA StepWInv == WInv /\ [Next]_vars => WInv'
<1> SUFFICES ASSUME WInv, [Next]_vars PROVE WInv'
  OBVIOUS
<1>1. IInv'
  BY StepIInv DEF WInv
<1>2. CASE UNCHANGED vars
  <2>1. \A k \in Issues : Clear(k)' /\ Replays(k)'
    BY <1>2 DEF vars, WInv, Clear, Replays, Fences, Leaves, At, JobsIn
  <2> QED
    BY <1>1, <2>1 DEF WInv
<1>3. CASE Next
  <2>1. \A k \in Issues : Clear(k)' /\ Replays(k)'
    BY <1>3, ClearStep, ReplaysStep, RunningWorktrees DEF Next
  <2> QED
    BY <1>1, <2>1 DEF WInv
<1> QED
  BY <1>2, <1>3

LEMMA InitWInv == Init => WInv
<1> SUFFICES ASSUME Init PROVE WInv
  OBVIOUS
<1>1. \A i \in Issues : Clear(i) /\ Replays(i)
  BY DEF Init, Clear, Replays, Fences
<1> QED
  BY <1>1, InitIInv DEF WInv

\* What works is among the leased jobs of its worktree.
LEMMA Worked ==
  ASSUME IInv, NEW i \in Issues, JobsIn(job, i) = {}
  PROVE  ~WorksIn(i)
BY DEF IInv, JobShape, JobsIn, WorksIn

\* git worktree remove (finish/remove.rs) takes no worktree from a working job
\* while the fence of fence_cleanup_ownership stands, though rebases, other
\* launches and the deaths of any process come between its looks.
THEOREM RemovalsAreFenced == Spec => FencedRemovals
<1>1. ASSUME WInv, Next, NEW i \in Issues, tree[i], ~tree'[i], Fences(i, Cleaned)
      PROVE  ~WorksIn(i)
  <2>1. TypeOK
    BY <1>1 DEF WInv, IInv
  <2>2. At(i, "remove")
    <3>1. ASSUME NEW k \in Issues, Launching(k)
          PROVE  tree' = tree \/ tree' = [tree EXCEPT ![k] = TRUE]
      BY <3>1 DEF Launching, BeginLaunch, Reclaim, Acquire, Reuse, Prepared, Refused, Announce,
         FenceSource, StopSource, VerifySource, Confirm, Move, Initialize, Prepare, StartAgent,
         Deliver, Patch, ReleaseAttempt, DropStage
    <3>2. ASSUME NEW k \in Issues, Finishing(k), ~Remove(k) PROVE tree' = tree
      BY <3>2 DEF Finishing, BeginFinish, OwnCleanup, ExitAgent, AwaitQuiet, VerifyNoJobs,
         Recheck, VerifyRemoved, Settle, Return
    <3>3. ASSUME NEW k \in Issues, Remove(k) PROVE k = i
      <4>1. tree' = tree \/ tree' = [tree EXCEPT ![k] = FALSE]
        BY <3>3 DEF Remove
      <4> QED
        BY <1>1, <2>1, <4>1 DEF TypeOK
    <3>4. ASSUME NEW k \in Issues, Rebasing(k) \/ Leaving(k) PROVE tree' = tree
      BY <3>4 DEF Rebasing, Adopt, RebaseBegin, RebaseFence, RebaseCheck, RebaseEnds, RebaseCut,
         RebaseRecover, Leaving, AgentExits, CommandDies, OwnerExits
    <3>5. ASSUME NEW j \in Jobs, Running(j) PROVE tree' = tree
      BY <3>5 DEF Running, Ask, Admit, GiveBack, Spawn, RecordGroup, Go, GroupEnds, SettleJob,
         RunnerDies, Renew
    <3>6. ~(tree' = tree) /\ \A k \in Issues : ~(tree' = [tree EXCEPT ![k] = TRUE])
      BY <1>1, <2>1 DEF TypeOK
    <3> QED
      BY <1>1, <3>1, <3>2, <3>3, <3>4, <3>5, <3>6 DEF Next, Remove
  <2>3. JobsIn(job, i) = {}
    BY <1>1, <2>2 DEF WInv, Clear, Leaves
  <2> QED
    BY <1>1, <2>3, Worked DEF WInv
<1>2. WInv /\ [Next]_vars =>
        [\A i \in Issues :
           tree[i] /\ ~tree'[i] /\ Fences(i, {"cleaning", "cleanup-incomplete"}) => ~WorksIn(i)]_vars
  BY <1>1 DEF Cleaned, vars
<1> QED
  BY <1>2, InitWInv, StepWInv, PTL DEF Spec, FencedRemovals

\* rebase_prepared_worktree (engine/rebase.rs) replays a branch under its
\* fence with no job in the worktree, whatever launches, finishes and other
\* rebases overlap and wherever the engine dies.
THEOREM ReplaysAreFenced == Spec => []FencedReplays
<1>1. WInv => FencedReplays
  BY Worked DEF WInv, Replays, FencedReplays
<1> QED
  BY <1>1, InitWInv, StepWInv, PTL DEF Spec

=============================================================================
