---------------------------- MODULE ResourceLeases ----------------------------
(***************************************************************************)
(* Who may work on this machine (crates/core/engine/src/resources and its     *)
(* callers in crates/epic-orchestrator).  One state file holds a lease per     *)
(* agent and per expensive job.  A launch reserves its agent's lease before    *)
(* anything starts, a replacement reserves its destination before the old      *)
(* agent stops, and a finish or a rebase fences a worktree by the stage of      *)
(* its agent's lease, which the admission of jobs reads.  Commands and job      *)
(* runners are processes of their own and die anywhere; leases whose owners     *)
(* are gone are reclaimed.                                                    *)
(*                                                                         *)
(* Each update of the file is one step: ResourceLock shows that the lock       *)
(* makes it so.  An issue is its key, its worktree and its branch.  Keys of     *)
(* leases are unique (admit refuses a second one), so the list of leases is a   *)
(* function of its keys.  An operator named <X>_<fault> is X with one           *)
(* plausible fault; no action uses it.                                        *)
(***************************************************************************)
EXTENDS Naturals, FiniteSets

CONSTANTS
  Issues,       \* the sub-issues, of every epic of this machine
  Jobs,         \* runners of managed jobs, one process each at a time
  Hosts,        \* the agents' hosts
  Epics,
  EpicOf,       \* EpicOf[i]: the epic of issue i
  Tokens,       \* a lease's identity
  None,
  MaxAgents, MaxJobs, HostCap, EpicCap

ASSUME LeaseConstants ==
  /\ IsFiniteSet(Issues)
  /\ IsFiniteSet(Jobs)
  /\ EpicOf \in [Issues -> Epics]
  /\ MaxAgents \in Nat
  /\ MaxJobs \in Nat
  /\ HostCap \in [Hosts -> Nat]
  /\ EpicCap \in Nat
  /\ None \notin Hosts

VARIABLES
  lease,        \* state.json: the agent lease of each issue
  job,          \* each runner, its process group, and its lease in state.json
  record,       \* issues/<key>.json
  cmd,          \* the launch or finish that holds launch-locks/<key>
  rebase,       \* the engine's rebase of the issue's branch
  agent,        \* the host on which the issue's agent runs
  tree          \* whether the issue's worktree exists

vars == <<lease, job, record, cmd, rebase, agent, tree>>

-----------------------------------------------------------------------------
(* State. *)

LeaseStage ==
  {"starting", "running", "replacing", "uncertain", "cleaning",
   "cleanup-incomplete", "rebasing"}

\* `tree': the lease names the worktree and the pane; `owned': the process
\* that took the lease lives.
Lease ==
  [token : Tokens, host : Hosts, pending : Hosts \cup {None}, tree : BOOLEAN,
   stage : LeaseStage, owned : BOOLEAN]

\* A runner asks for a lease, starts the group behind the go line, records
\* it, and settles; "waiting" is a group that has not read the go line yet.
\* The lease is "grouped" once it names the group.
Job ==
  [pc : {"idle", "asking", "leased", "spawned", "running", "dead"},
   tree : Issues \cup {None},
   group : {"none", "waiting", "working"},
   lease : {"none", "held", "grouped"}]

Record ==
  [stage : {"", "starting", "running", "replacing", "uncertain",
            "cleanup-incomplete", "finished"},
   token : Tokens \cup {None}, host : Hosts \cup {None}, tree : BOOLEAN]

Step ==
  {"patch", "reclaim", "reserve", "announce", "fence", "stop", "stopped", "remains",
   "confirm", "move", "initialize", "prepare", "start", "deliver", "release", "drop",
   "own", "exit", "quiet", "verify", "recheck", "remove", "gone", "settle",
   "return"}

\* `took': this command acquired the lease, so its process is the owner;
\* `next': what follows the patch of the lease, or nothing does.
Command ==
  [verb : {"launch", "replace", "finish"}, pc : Step, next : Step \cup {None},
   host : Hosts \cup {None}, token : Tokens \cup {None}, took : BOOLEAN]

\* The token was read from the record when the step of the queue was made.
Rebase ==
  [pc : {"no", "due", "fenced", "replay", "lift", "cut"}, token : Tokens \cup {None}]

ASSUME NoneIsNoLease == None \notin Lease

NewRecord == [stage |-> "", token |-> None, host |-> None, tree |-> FALSE]
NoRebase == [pc |-> "no", token |-> None]
NoJob == [pc |-> "idle", tree |-> None, group |-> "none", lease |-> "none"]

TypeOK ==
  /\ lease \in [Issues -> Lease \cup {None}]
  /\ job \in [Jobs -> Job]
  /\ record \in [Issues -> Record]
  /\ cmd \in [Issues -> Command \cup {None}]
  /\ rebase \in [Issues -> Rebase]
  /\ agent \in [Issues -> Hosts \cup {None}]
  /\ tree \in [Issues -> BOOLEAN]

Init ==
  /\ lease = [i \in Issues |-> None]
  /\ job = [j \in Jobs |-> NoJob]
  /\ record = [i \in Issues |-> NewRecord]
  /\ cmd = [i \in Issues |-> None]
  /\ rebase = [i \in Issues |-> NoRebase]
  /\ agent = [i \in Issues |-> None]
  /\ tree = [i \in Issues |-> FALSE]

-----------------------------------------------------------------------------
(* What an update of the state file reads and writes. *)

Agents == {i \in Issues : lease[i] # None}

OnHost(h) == {i \in Agents : h \in {lease[i].host, lease[i].pending}}

InEpic(e) == {i \in Agents : EpicOf[i] = e}

\* The destination is counted where agents are, not where they will be.
Room_current(i, h) ==
  /\ Cardinality(Agents \ {i}) < MaxAgents
  /\ Cardinality(InEpic(EpicOf[i]) \ {i}) < EpicCap
  /\ Cardinality({k \in Agents \ {i} : lease[k].host = h}) < HostCap[h]

\* Capacity for issue i on host h, among `others'.
Room(i, h) ==
  /\ Cardinality(Agents \ {i}) < MaxAgents
  /\ Cardinality(InEpic(EpicOf[i]) \ {i}) < EpicCap
  /\ Cardinality(OnHost(h) \ {i}) < HostCap[h]

\* The runner alone decides.
Kept_owner(j) == job[j].pc # "dead"

\* A job's lease stays while its runner or its recorded group lives.
Kept(j) ==
  \/ job[j].pc # "dead"
  \/ job[j].lease = "grouped" /\ job[j].group # "none"

Reconciled ==
  [j \in Jobs |-> IF Kept(j) THEN job[j] ELSE [job[j] EXCEPT !.lease = "none"]]

JobsIn(jobs, i) == {j \in Jobs : jobs[j].lease # "none" /\ jobs[j].tree = i}

\* The fence of a rebase is not one.
Blocked_rebase(i) ==
  /\ lease[i] # None
  /\ lease[i].tree
  /\ lease[i].stage \notin {"starting", "running", "rebasing"}

\* The fence of a worktree that had active jobs is not one.
Blocked_incomplete(i) ==
  /\ lease[i] # None
  /\ lease[i].tree
  /\ lease[i].stage \notin {"starting", "running", "cleanup-incomplete"}

\* A job is refused where the agent's lease is past `running'.
Blocked(i) ==
  /\ lease[i] # None
  /\ lease[i].tree
  /\ lease[i].stage \notin {"starting", "running"}

\* The owner may still run.
Reclaimable_owned(i) ==
  /\ lease[i] # None
  /\ lease[i].tree
  /\ agent[i] = None

\* The owner is gone, and the recorded pane's backend does not list the agent.
Reclaimable(i) ==
  /\ lease[i] # None
  /\ ~lease[i].owned
  /\ lease[i].tree
  /\ agent[i] = None

\* What still has its working directory in the worktree.
Workload(i) ==
  {j \in Jobs : job[j].tree = i /\ (job[j].pc \notin {"idle", "dead"} \/ job[j].group # "none")}

-----------------------------------------------------------------------------
(* Commands: with_launch_ownership and the steps under it. *)

\* The lock is the issue's own: commands on other issues are under way.
MayBegin(i) == cmd[i] = None

At(i, pc) == cmd[i] # None /\ cmd[i].pc = pc

Goto(i, pc) == cmd' = [cmd EXCEPT ![i].pc = pc]

Ends(i) == cmd' = [cmd EXCEPT ![i] = None]

Holds(i, token) == lease[i] # None /\ lease[i].token = token

Mine(i) == Holds(i, cmd[i].token)

\* persist_attempt: the record, then its stage and worktree on the lease.
Persist(i, saved, stage, next) ==
  /\ record' = [record EXCEPT ![i] = [saved EXCEPT !.stage = stage, !.token = cmd[i].token]]
  /\ cmd' = [cmd EXCEPT ![i].pc = "patch", ![i].next = next]
  /\ lease' = lease

\* A lost lease ends the attempt as uncertain.
Patch(i) ==
  /\ At(i, "patch")
  /\ IF Mine(i)
     THEN /\ lease' = [lease EXCEPT ![i].stage = record[i].stage, ![i].tree = @ \/ record[i].tree]
          /\ IF cmd[i].next = None
             THEN Ends(i)
             ELSE cmd' = [cmd EXCEPT ![i].pc = cmd[i].next, ![i].next = None]
          /\ UNCHANGED record
     ELSE /\ record' = [record EXCEPT ![i].stage = "uncertain"]
          /\ Ends(i)
          /\ UNCHANGED lease
  /\ UNCHANGED <<job, rebase, agent, tree>>

Fails(i) == Persist(i, record[i], "uncertain", None)

\* A plain launch of a starting or uncertain record is an explicit reprompt.
BeginLaunch(i, h, verb) ==
  /\ MayBegin(i)
  /\ record[i].stage \notin {"cleanup-incomplete", "finished"}
  /\ \/ verb = "replace"
     \/ verb = "launch" /\ record[i].stage # "replacing" /\ record[i].host \in {None, h}
  /\ cmd' = [cmd EXCEPT ![i] = [verb |-> verb, pc |-> "reclaim", next |-> None, host |-> h,
                                token |-> None, took |-> FALSE]]
  /\ UNCHANGED <<lease, job, record, rebase, agent, tree>>

\* Without the listing of the agents nothing is reclaimed.
Reclaim(i) ==
  /\ At(i, "reclaim")
  /\ \/ lease' = [k \in Issues |-> IF Reclaimable(k) THEN None ELSE lease[k]]
     \/ lease' = lease
  /\ Goto(i, "reserve")
  /\ UNCHANGED <<job, record, rebase, agent, tree>>

\* acquire_lease: capacity refuses, and so may pressure or a cooling host.
Acquire(i) ==
  /\ At(i, "reserve")
  /\ lease[i] = None
  /\ job' = Reconciled
  /\ \/ /\ Room(i, cmd[i].host)
        /\ \E t \in Tokens \ {record[i].token} :
             /\ lease' = [lease EXCEPT ![i] =
                  [token |-> t, host |-> cmd[i].host, pending |-> None, tree |-> FALSE,
                   stage |-> "starting", owned |-> TRUE]]
             /\ cmd' = [cmd EXCEPT ![i].pc = "initialize", ![i].token = t, ![i].took = TRUE]
     \/ lease' = lease /\ Ends(i)
  /\ UNCHANGED <<record, rebase, agent, tree>>

\* The saved lease is the record's, and on this host.
Reuse(i) ==
  /\ At(i, "reserve")
  /\ Holds(i, record[i].token)
  /\ cmd[i].verb = "launch"
  /\ lease[i].host = cmd[i].host
  /\ cmd' = [cmd EXCEPT ![i].pc = "initialize", ![i].token = record[i].token]
  /\ UNCHANGED <<lease, job, record, rebase, agent, tree>>

\* prepare_agent_migration: the destination is reserved before anything stops.
Prepared(i) ==
  /\ At(i, "reserve")
  /\ Holds(i, record[i].token)
  /\ cmd[i].verb = "replace"
  /\ record[i].tree
  /\ \/ lease[i].pending = cmd[i].host
     \/ lease[i].pending = None /\ Room(i, cmd[i].host)
  /\ lease' = [lease EXCEPT ![i].pending = cmd[i].host, ![i].stage = "replacing"]
  /\ cmd' = [cmd EXCEPT ![i].pc = "announce", ![i].token = record[i].token]
  /\ UNCHANGED <<job, record, rebase, agent, tree>>

\* Another owner, another host, no capacity, or nothing verified to replace.
Refused(i) ==
  /\ At(i, "reserve")
  /\ lease[i] # None
  /\ Ends(i)
  /\ UNCHANGED <<lease, job, record, rebase, agent, tree>>

\* migrate: say so, fence, stop the agent, verify, say so again, move.
Announce(i) ==
  /\ At(i, "announce")
  /\ Persist(i, record[i], "replacing", "fence")
  /\ UNCHANGED <<job, rebase, agent, tree>>

\* fence_worktree: active jobs do not stop a replacement or a finish here.
Fenced(i, active) ==
  lease' = [lease EXCEPT ![i].tree = TRUE,
                         ![i].stage = IF active THEN "cleanup-incomplete" ELSE "cleaning"]

FenceSource(i) ==
  /\ At(i, "fence")
  /\ IF Mine(i)
     THEN /\ job' = Reconciled
          /\ Fenced(i, JobsIn(Reconciled, i) # {})
          /\ Goto(i, "stop")
          /\ UNCHANGED record
     ELSE Fails(i) /\ UNCHANGED job
  /\ UNCHANGED <<rebase, agent, tree>>

\* shutdown_agent: the agent leaves and its workload follows, or not in time.
StopSource(i) ==
  /\ At(i, "stop")
  /\ \/ agent' = [agent EXCEPT ![i] = None] /\ Workload(i) = {} /\ Goto(i, "stopped")
     \/ agent' = [agent EXCEPT ![i] = None] /\ Goto(i, "remains")
     \/ agent' = agent /\ Goto(i, "remains")
  /\ UNCHANGED <<lease, job, record, rebase, tree>>

VerifySource(i) ==
  /\ At(i, "stopped") \/ At(i, "remains")
  /\ job' = Reconciled
  /\ IF cmd[i].pc = "stopped" /\ JobsIn(Reconciled, i) = {}
     THEN Goto(i, "confirm") /\ UNCHANGED <<lease, record>>
     ELSE Fails(i)
  /\ UNCHANGED <<rebase, agent, tree>>

Confirm(i) ==
  /\ At(i, "confirm")
  /\ Persist(i, record[i], "replacing", "move")
  /\ UNCHANGED <<job, rebase, agent, tree>>

\* migrate_agent_lease.
Move(i) ==
  /\ At(i, "move")
  /\ IF Mine(i) /\ lease[i].stage = "replacing" /\ lease[i].pending = cmd[i].host
        /\ JobsIn(Reconciled, i) = {}
     THEN /\ lease' = [lease EXCEPT ![i].host = cmd[i].host, ![i].pending = None]
          /\ Goto(i, "initialize")
          /\ UNCHANGED record
     ELSE Fails(i)
  /\ job' = Reconciled
  /\ UNCHANGED <<rebase, agent, tree>>

Initialize(i) ==
  /\ At(i, "initialize")
  /\ Persist(i, [record[i] EXCEPT !.host = cmd[i].host], "starting", "prepare")
  /\ UNCHANGED <<job, rebase, agent, tree>>

\* The worktree, its binding, then their names in the record and the lease; a
\* binding that fails leaves a record that names the worktree.
Prepare(i) ==
  /\ At(i, "prepare")
  /\ LET named == [record[i] EXCEPT !.tree = TRUE] IN
     \/ /\ tree' = [tree EXCEPT ![i] = TRUE]
        /\ \/ Persist(i, named, "starting", "start")
           \/ Persist(i, named, "uncertain", None)
     \/ tree' \in {tree, [tree EXCEPT ![i] = TRUE]} /\ Fails(i)
  /\ UNCHANGED <<job, rebase, agent>>

\* ensure_agent: a live agent is kept, or stopped for a replacement; a pane
\* that stays busy proves that nothing started; any other failure does not.
StartAgent(i) ==
  /\ At(i, "start")
  /\ \/ /\ agent[i] # None /\ cmd[i].verb = "launch"
        /\ Goto(i, "deliver")
        /\ UNCHANGED <<lease, record, agent>>
     \/ /\ agent[i] # None /\ cmd[i].verb = "replace"
        /\ agent' = [agent EXCEPT ![i] = None]
        /\ UNCHANGED <<lease, record, cmd>>
     \/ /\ agent[i] = None
        /\ agent' = [agent EXCEPT ![i] = cmd[i].host]
        /\ Goto(i, "deliver")
        /\ UNCHANGED <<lease, record>>
     \/ /\ agent[i] = None
        /\ Goto(i, "release")
        /\ UNCHANGED <<lease, record, agent>>
     \/ Fails(i) /\ agent' \in {agent, [agent EXCEPT ![i] = IF @ = None THEN cmd[i].host ELSE @]}
  /\ UNCHANGED <<job, rebase, tree>>

\* The brief, the prompt and its acknowledgement.
Deliver(i) ==
  /\ At(i, "deliver")
  /\ Persist(i, record[i], "running", None) \/ Fails(i)
  /\ UNCHANGED <<job, rebase, agent, tree>>

\* release_lease: an agent's lease stays while a job of its worktree does.
Released(i, token) ==
  /\ job' = Reconciled
  /\ lease' = IF Holds(i, token) THEN [lease EXCEPT ![i] = None] ELSE lease

Busy(i, token) == Holds(i, token) /\ lease[i].tree /\ JobsIn(Reconciled, i) # {}

\* An attempt that started nothing gives its lease back, then drops its stage.
ReleaseAttempt(i) ==
  /\ At(i, "release")
  /\ IF Busy(i, cmd[i].token)
     THEN Fails(i) /\ job' = Reconciled
     ELSE /\ Released(i, cmd[i].token)
          /\ cmd' = [cmd EXCEPT ![i].pc = "drop", ![i].took = FALSE]
          /\ UNCHANGED record
  /\ UNCHANGED <<rebase, agent, tree>>

DropStage(i) ==
  /\ At(i, "drop")
  /\ record' = [record EXCEPT ![i].stage = "", ![i].token = None]
  /\ Ends(i)
  /\ UNCHANGED <<lease, job, rebase, agent, tree>>

-----------------------------------------------------------------------------
(* Finish. *)

\* The record gets the stage of the lease's fence.
Incomplete_fence(i) ==
  /\ record' = [record EXCEPT ![i].stage = "cleaning"]
  /\ Ends(i)

Incomplete(i) ==
  /\ record' = [record EXCEPT ![i].stage = "cleanup-incomplete"]
  /\ Ends(i)

\* A settled record is only released again; one that never had a worktree is
\* settled at once. A record without its lease's token is refused.
BeginFinish(i) ==
  /\ MayBegin(i)
  /\ record[i].token # None
  /\ cmd' = [cmd EXCEPT ![i] =
       [verb |-> "finish",
        pc |-> IF record[i].stage = "finished" THEN "return"
               ELSE IF record[i].tree THEN "own" ELSE "settle",
        next |-> None, host |-> None, token |-> record[i].token, took |-> FALSE]]
  /\ UNCHANGED <<lease, job, record, rebase, agent, tree>>

\* fence_cleanup_ownership: the recorded lease must still be there.
OwnCleanup(i) ==
  /\ At(i, "own")
  /\ IF Mine(i)
     THEN /\ job' = Reconciled
          /\ Fenced(i, JobsIn(Reconciled, i) # {})
          /\ Goto(i, IF tree[i] THEN "exit" ELSE "gone")
          /\ UNCHANGED record
     ELSE Incomplete(i) /\ UNCHANGED <<lease, job>>
  /\ UNCHANGED <<rebase, agent, tree>>

ExitAgent(i) ==
  /\ At(i, "exit")
  /\ \/ agent' = [agent EXCEPT ![i] = None] /\ Goto(i, "quiet") /\ UNCHANGED record
     \/ agent' \in {agent, [agent EXCEPT ![i] = None]} /\ Incomplete(i)
  /\ UNCHANGED <<lease, job, rebase, tree>>

AwaitQuiet(i) ==
  /\ At(i, "quiet")
  /\ \/ Workload(i) = {} /\ Goto(i, "verify") /\ UNCHANGED record
     \/ Incomplete(i)
  /\ UNCHANGED <<lease, job, rebase, agent, tree>>

VerifyNoJobs(i) ==
  /\ At(i, "verify")
  /\ job' = Reconciled
  /\ \/ JobsIn(Reconciled, i) = {} /\ Goto(i, "recheck") /\ UNCHANGED record
     \/ JobsIn(Reconciled, i) # {} /\ Incomplete(i)
  /\ UNCHANGED <<lease, rebase, agent, tree>>

\* The workload is read once more, and the removal's intent recorded.
Recheck(i) ==
  /\ At(i, "recheck")
  /\ \/ /\ Workload(i) = {}
        /\ record' = [record EXCEPT ![i].stage = "cleanup-incomplete"]
        /\ Goto(i, "remove")
     \/ Incomplete(i)
  /\ UNCHANGED <<lease, job, rebase, agent, tree>>

Remove(i) ==
  /\ At(i, "remove")
  /\ \/ tree' = [tree EXCEPT ![i] = FALSE] /\ Goto(i, "settle") /\ UNCHANGED record
     \/ tree' \in {tree, [tree EXCEPT ![i] = FALSE]} /\ Incomplete(i)
  /\ UNCHANGED <<lease, job, rebase, agent>>

\* A removal that an earlier finish prepared or recorded.
VerifyRemoved(i) ==
  /\ At(i, "gone")
  /\ job' = Reconciled
  /\ \/ /\ agent[i] = None /\ Workload(i) = {} /\ JobsIn(Reconciled, i) = {}
        /\ Goto(i, "settle")
        /\ UNCHANGED record
     \/ Incomplete(i)
  /\ UNCHANGED <<lease, rebase, agent, tree>>

\* The branch may be left.
Settle(i) ==
  /\ At(i, "settle")
  /\ \/ /\ record' = [record EXCEPT ![i].stage = "finished"]
        /\ Goto(i, "return")
     \/ Incomplete(i)
  /\ UNCHANGED <<lease, job, rebase, agent, tree>>

\* release_recorded_ownership: a lease already gone is fine.
Return(i) ==
  /\ At(i, "return")
  /\ IF Holds(i, record[i].token)
     THEN IF Busy(i, record[i].token)
          THEN job' = Reconciled /\ lease' = lease
          ELSE Released(i, record[i].token)
     ELSE UNCHANGED <<lease, job>>
  /\ Ends(i)
  /\ UNCHANGED <<record, rebase, agent, tree>>

-----------------------------------------------------------------------------
(* The engine: adoption, and the rebase of a queue's head. *)

\* A worker that reports runs, whatever its launch confirmed: the record says
\* so, and the lease too, unless it is moving.
Adopt(i) ==
  /\ cmd[i] = None
  /\ agent[i] # None
  /\ record[i].stage \in {"starting", "uncertain", "running"}
  /\ record' = [record EXCEPT ![i].stage = "running"]
  /\ lease' = IF /\ Holds(i, record[i].token)
                 /\ lease[i].stage \in {"starting", "uncertain"}
                 /\ lease[i].pending = None
              THEN [lease EXCEPT ![i].stage = "running"]
              ELSE lease
  /\ UNCHANGED <<job, cmd, rebase, agent, tree>>

Stages(i, stage) == lease' = [lease EXCEPT ![i].stage = stage]

RebaseTo(i, pc, token) == rebase' = [rebase EXCEPT ![i] = [pc |-> pc, token |-> token]]

\* The effects run one at a time.
Engaged == \E k \in Issues : rebase[k].pc \in {"due", "fenced", "replay", "lift"}

\* The effect is made for the worktree and the lease of a running record.
RebaseBegin(i) ==
  /\ rebase[i] = NoRebase
  /\ ~Engaged
  /\ record[i].stage = "running"
  /\ tree[i]
  /\ RebaseTo(i, "due", record[i].token)
  /\ UNCHANGED <<lease, job, record, cmd, agent, tree>>

\* The fence comes before the look at the jobs. It compares nothing: whatever
\* a launch or a finish of the issue wrote on the lease is written over.
RebaseFence(i) ==
  /\ rebase[i].pc = "due"
  /\ IF Holds(i, rebase[i].token)
     THEN Stages(i, "rebasing") /\ RebaseTo(i, "fenced", rebase[i].token)
     ELSE lease' = lease /\ RebaseTo(i, "no", None)
  /\ UNCHANGED <<job, record, cmd, agent, tree>>

RebaseCheck(i) ==
  /\ rebase[i].pc = "fenced"
  /\ job' = Reconciled
  /\ \/ JobsIn(Reconciled, i) = {} /\ RebaseTo(i, "replay", rebase[i].token)
     \/ JobsIn(Reconciled, i) # {} /\ RebaseTo(i, "lift", rebase[i].token)
  /\ UNCHANGED <<lease, record, cmd, agent, tree>>

\* The fence is lifted by its token, whatever the lease says.
RebaseEnds(i) ==
  /\ rebase[i].pc \in {"replay", "lift"}
  /\ RebaseTo(i, "no", None)
  /\ IF Holds(i, rebase[i].token) THEN Stages(i, "running") ELSE UNCHANGED lease
  /\ UNCHANGED <<job, record, cmd, agent, tree>>

RebaseCut(i) ==
  /\ rebase[i].pc \in {"due", "fenced", "replay", "lift"}
  /\ RebaseTo(i, "cut", None)
  /\ UNCHANGED <<lease, job, record, cmd, agent, tree>>

\* recover: the restarted engine aborts what it left under a fence that still
\* stands, then lifts it.
RebaseRecover(i) ==
  /\ rebase[i].pc = "cut"
  /\ ~Engaged
  /\ IF Holds(i, record[i].token) /\ lease[i].stage = "rebasing"
     THEN RebaseTo(i, "lift", record[i].token)
     ELSE RebaseTo(i, "no", None)
  /\ UNCHANGED <<lease, job, record, cmd, agent, tree>>

-----------------------------------------------------------------------------
(* Managed jobs. *)

Ask(j, i) ==
  /\ job[j] = NoJob
  /\ tree[i]
  /\ job' = [job EXCEPT ![j] = [NoJob EXCEPT !.pc = "asking", !.tree = i]]
  /\ UNCHANGED <<lease, record, cmd, rebase, agent, tree>>

\* acquire_lease, until the wait is over; a blocked worktree is not retried.
Admit(j) ==
  /\ job[j].pc = "asking"
  /\ \/ /\ ~Blocked(job[j].tree)
        /\ Cardinality({k \in Jobs : Reconciled[k].lease # "none"}) < MaxJobs
        /\ job' = [Reconciled EXCEPT ![j].pc = "leased", ![j].lease = "held"]
     \/ job' = [Reconciled EXCEPT ![j] = NoJob]
  /\ UNCHANGED <<lease, record, cmd, rebase, agent, tree>>

\* settle without a group: the lease goes.
GiveBack(j) ==
  /\ job[j].pc = "leased"
  /\ job' = [Reconciled EXCEPT ![j] = NoJob]
  /\ UNCHANGED <<lease, record, cmd, rebase, agent, tree>>

\* The group starts behind the go line.
Spawn(j) ==
  /\ job[j].pc = "leased"
  /\ tree[job[j].tree]
  /\ job' = [job EXCEPT ![j].pc = "spawned", ![j].group = "waiting"]
  /\ UNCHANGED <<lease, record, cmd, rebase, agent, tree>>

\* patch_lease; without a lease the group is ended.
RecordGroup(j) ==
  /\ job[j].pc = "spawned"
  /\ job' = IF job[j].lease = "none" THEN [job EXCEPT ![j] = NoJob]
            ELSE [job EXCEPT ![j].pc = "running", ![j].lease = "grouped"]
  /\ UNCHANGED <<lease, record, cmd, rebase, agent, tree>>

Go(j) ==
  /\ job[j].pc = "running"
  /\ job[j].group = "waiting"
  /\ job' = [job EXCEPT ![j].group = "working"]
  /\ UNCHANGED <<lease, record, cmd, rebase, agent, tree>>

GroupEnds(j) ==
  /\ job[j].group # "none"
  /\ job' = [job EXCEPT ![j].group = "none"]
  /\ UNCHANGED <<lease, record, cmd, rebase, agent, tree>>

\* settle and the runner's exit: a group that outlives its leader keeps the
\* lease.
SettleJob(j) ==
  /\ job[j].pc = "running"
  /\ job' = IF job[j].group = "none" THEN [Reconciled EXCEPT ![j] = NoJob]
            ELSE [job EXCEPT ![j].pc = "dead"]
  /\ UNCHANGED <<lease, record, cmd, rebase, agent, tree>>

\* A group that still waits reads the end of its input and leaves.
RunnerDies(j) ==
  /\ job[j].pc \in {"asking", "leased", "spawned", "running"}
  /\ job' = [job EXCEPT ![j].pc = "dead",
                        ![j].group = IF @ = "working" THEN @ ELSE "none"]
  /\ UNCHANGED <<lease, record, cmd, rebase, agent, tree>>

\* Another runner takes the place of one that left nothing.
Renew(j) ==
  /\ job[j].pc = "dead" /\ job[j].lease = "none" /\ job[j].group = "none"
  /\ job' = [job EXCEPT ![j] = NoJob]
  /\ UNCHANGED <<lease, record, cmd, rebase, agent, tree>>

-----------------------------------------------------------------------------
(* What happens around them. *)

AgentExits(i) ==
  /\ agent[i] # None
  /\ agent' = [agent EXCEPT ![i] = None]
  /\ UNCHANGED <<lease, job, record, cmd, rebase, tree>>

CommandDies(i) ==
  /\ cmd[i] # None
  /\ lease' = IF cmd[i].took /\ Mine(i) THEN [lease EXCEPT ![i].owned = FALSE] ELSE lease
  /\ Ends(i)
  /\ UNCHANGED <<job, record, rebase, agent, tree>>

\* A CLI's launch is over, or the engine restarts.
OwnerExits(i) ==
  /\ lease[i] # None
  /\ lease[i].owned
  /\ cmd[i] # None => ~cmd[i].took
  /\ lease' = [lease EXCEPT ![i].owned = FALSE]
  /\ UNCHANGED <<job, record, cmd, rebase, agent, tree>>

Launching(i) ==
  \/ \E h \in Hosts, verb \in {"launch", "replace"} : BeginLaunch(i, h, verb)
  \/ Patch(i) \/ Reclaim(i) \/ Acquire(i) \/ Reuse(i) \/ Prepared(i) \/ Refused(i)
  \/ Announce(i) \/ FenceSource(i) \/ StopSource(i) \/ VerifySource(i)
  \/ Confirm(i) \/ Move(i) \/ Initialize(i) \/ Prepare(i) \/ StartAgent(i)
  \/ Deliver(i) \/ ReleaseAttempt(i) \/ DropStage(i)

Finishing(i) ==
  \/ BeginFinish(i) \/ OwnCleanup(i) \/ ExitAgent(i) \/ AwaitQuiet(i)
  \/ VerifyNoJobs(i) \/ Recheck(i) \/ Remove(i) \/ VerifyRemoved(i)
  \/ Settle(i) \/ Return(i)

Rebasing(i) ==
  \/ Adopt(i) \/ RebaseBegin(i) \/ RebaseFence(i) \/ RebaseCheck(i) \/ RebaseEnds(i)
  \/ RebaseCut(i) \/ RebaseRecover(i)

Running(j) ==
  \/ \E i \in Issues : Ask(j, i)
  \/ Admit(j) \/ GiveBack(j) \/ Spawn(j) \/ RecordGroup(j) \/ Go(j)
  \/ GroupEnds(j) \/ SettleJob(j) \/ RunnerDies(j) \/ Renew(j)

Leaving(i) == AgentExits(i) \/ CommandDies(i) \/ OwnerExits(i)

Next ==
  \/ \E i \in Issues : Launching(i) \/ Finishing(i) \/ Rebasing(i) \/ Leaving(i)
  \/ \E j \in Jobs : Running(j)

Spec == Init /\ [][Next]_vars

-----------------------------------------------------------------------------
(* Properties. *)

\* The leases never exceed what the machine, an epic or a host has room for,
\* through reservations, refused and cut replacements, and reclaims: admit,
\* admit_agent and reserve each count something else.
WithinCaps ==
  /\ Cardinality(Agents) <= MaxAgents
  /\ Cardinality({j \in Jobs : job[j].lease # "none"}) <= MaxJobs
  /\ \A e \in Epics : Cardinality(InEpic(e)) <= EpicCap
  /\ \A h \in Hosts : Cardinality(OnHost(h)) <= HostCap[h]

\* What works is leased: a job's group reads the go line only once the lease
\* names it, so its runner may die at any time and the slot stays taken.
WorkIsLeased == \A j \in Jobs : job[j].group = "working" => job[j].lease = "grouped"

\* A launch that took its lease keeps it, on its host and as its owner, until
\* it ends: no other launch that frees the leases of the dead takes it, before
\* its agent is listed either.
LaunchKeepsItsLease ==
  \A i \in Issues :
    cmd[i] # None /\ cmd[i].took =>
      Mine(i) /\ lease[i].owned /\ lease[i].host = cmd[i].host

\* The fence of the worktree stands: jobs are refused.
Fences(i, stages) == lease[i] # None /\ lease[i].tree /\ lease[i].stage \in stages

WorksIn(i) == \E j \in Jobs : job[j].group = "working" /\ job[j].tree = i

\* A worktree whose fence stands never goes from under a working job: the fence
\* and the looks of the finish leave a job no moment to start, while rebases and
\* launches of other issues go on.
FencedRemovals ==
  [][\A i \in Issues :
       tree[i] /\ ~tree'[i] /\ Fences(i, {"cleaning", "cleanup-incomplete"}) => ~WorksIn(i)]_vars

\* No job works where the engine replays the branch, while its fence stands.
FencedReplays ==
  \A i \in Issues :
    rebase[i].pc = "replay" /\ Fences(i, {"rebasing"}) => ~WorksIn(i)

\* A running worker whose agent left is finished by the lease of its record:
\* the finish that comes to its fence finds it. False: the launch of any other
\* issue reclaims the lease of an agent that left (reclaim_dead_agents).
FinishFindsItsLease ==
  \A i \in Issues : At(i, "own") /\ record[i].stage = "running" => Mine(i)

=============================================================================
