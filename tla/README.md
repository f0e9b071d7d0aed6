# TLA+ models of the epic orchestrator

This project models the part of `toolu` that runs unattended: the resident
engine of `crates/epic-orchestrator`, which drives an epic's issues from launch
to merge and teardown, the lease file that says who may work on a machine, and the
lock every `toolu` process takes before it touches that file. TLC checks small
instances; TLAPS proves the safety of the merge queue, of the teardown, of the
recovery, of the leases and of the lock for every instance.

Paths below are relative to `crates/epic-orchestrator/src/` unless they say
otherwise.

## Inventory

The repository holds a family of tools. Most are one process making one decision
about its input (quality gates, hooks, the status line, skills, code review, the
CLI): they keep no state that outlives a call, and unit tests reach them well.
The engine is different: it keeps state for days, acts on GitHub, on panes and on
worktrees, and is told what happened by workers, polls, people and its own calls
in an order nobody controls.

| Part | State | Operations | Hard behaviour | What makes it correct |
|---|---|---|---|---|
| Merge queue (`queue*.rs`, `commit_queue.rs`, `disarm.rs`, `merge_bridge.rs`) | per issue: phase, stage, pending action, hold (`deferred`), `queued_at`, `auto_armed`, `disarm_due`, held prompt | report, check, event, pause/resume, step answer | answers that come after the issue changed; auto-merge that fires by itself; lost answers | an armed PR is queued or due a disarm; nothing is torn down before it merged; the next head is armed; what is owed gets done |
| Engine core (`server.rs`, `logic.rs`, `commit.rs`, `effect_thread.rs`) | outbox, pending actions, one effect slot | pump: write, call, commit; one effect at a time | messages handled while an effect runs | an answer finds the action it answers |
| Watches (`watch.rs`, `github_engine.rs`, `github_probe.rs`) | ETags, due times, budgets | one read per slot, base moved, immediate request | a 304 hides what was read and dropped; rate limits | every merge the engine watches is acted on |
| Recovery (`recover.rs`, `disk.rs`, `journal.rs`) | journal, issue records, status files | replay, reconcile, resume | crash between two writes, or between a call and its done line | no action twice unless idempotent, none lost |
| Finish (`finish.rs`, `dispatch_ops.rs`) | stage borrowed as `cleaning`, worktree, agent, record | begin, tear down in the CLI, end; heal | CLI dies in the middle; a report meanwhile | a stage is given back; no live agent is unregistered |
| Launch and refill (`launch/*`, `refill.rs`) | waves, batch outcomes, routes | form a batch, launch, adopt, relaunch | half a batch fails; a launch dies half way | members start once; see Leases |
| Attention and prompts (`attention*.rs`, `schedule.rs`) | open items, admitted answers, prompt queue | raise, answer, withdraw, flush, remind | an answer sent twice, or to a pane that changed | an answer reaches the worker at most once |
| Epics (`epics.rs`, `refresh.rs`, `graph.rs`) | members, graph, close pending | refresh, close, unregister | a refresh while a close is pending | an epic closes once, with all members settled |
| Surfaces (sockets, HTTP, dashboard, notify, trackers, hosts) | connections | translate I/O to messages | - | not modelled: they deliver the messages the models take as inputs |
| Resource home (`crates/core/engine/src/resources/lock.rs`, `store.rs`) | `state.lock`, `state.lock.reap`, `state.json` | take, reclaim and release the lock; read and write the state under it | every process of the machine may die at any file system operation | one owner at a time, no update undone |
| Leases (`leases.rs`, `transitions.rs`, `agents.rs`, `jobs.rs` there; `launch/*`, `finish/ownership.rs`, `rebase.rs`) | a lease per agent and per job: host, destination, worktree, stage, owner, group | reserve, move, fence, reclaim, release; admit a job, record its group | a launch, a finish, an engine or a runner dies between two updates; the world is looked at between two updates | caps hold; what works is leased; no job where a worktree goes or a branch is replayed |
| core/mux, core/state | panes, relay | relay between machines | - | not modelled |

How they interact: every input becomes a message of one channel; one *state
thread* handles a message to its end, then **pumps** until idle (writes journal
lines, starts a call). One *effect thread* runs at most one call (a merge step, a
cleanup, a checkpoint, a launch) and sends its answer back as another message.
GitHub, the workers, the CLI's own processes and people change the world at any
time in between.

`PROJECT.json` lists the hazards of this code line by line, those of the parts
still to be modelled included.

## Modules

| Module | Models |
|---|---|
| `MergeQueue` | the merge queue, the pump, the effect slot, the messages that touch the queue, and GitHub |
| `MCMergeQueue` | constants for TLC |
| `MergeQueueProofs` | the inductive invariant of `MergeQueue` and its theorems |
| `MergeQueueStepsProofs` | what no step of `MergeQueue` may do, on a stronger invariant |
| `FinishBracket` | `toolu epic finish` of one issue by CLIs and by the engine's cleanup, the engine's handlers and record writes meanwhile, relaunches, deaths and the refresh that heals |
| `FinishBracketProofs` | three inductive invariants of `FinishBracket`, each on the one before, and its theorems |
| `Recovery` | one issue, its three files, GitHub and its agent under an engine that dies anywhere and starts again |
| `RecoveryProofs` | the inductive invariant of `Recovery` and its theorems |
| `RecoveryFilesProofs` | what the files know, on a stronger invariant |
| `ResourceUpdates` | the abstract specification of an update of the resource state: atomic, one at a time |
| `ResourceLock` | the lock protocol and the update under it, one file system operation per step |
| `MCResourceLock` | constants for TLC |
| `ResourceLeases` | the lease file of a machine under launches, replacements, finishes, rebases and managed jobs |
| `MCResourceLeases` | constants and a bound for TLC |
| `ResourceLeasesProofs` | two inductive invariants of `ResourceLeases` and its theorems |
| `ResourceWorktreesProofs` | the worktrees of jobs and rebases, on a third invariant |
| `ResourceLockProofs` | mutual exclusion, and that `ResourceLock` implements `ResourceUpdates` |

The three models of the engine meet in the handlers of one pending action (`merged`,
`commit_cleanup`, the checkpoint's follow). `MergeQueue` takes a cleanup as one effect
that succeeds or not, and an engine that never dies; `FinishBracket` opens the
teardown up and takes the merge as an event; `Recovery` opens up the writes, takes a
merge step as one effect and a teardown as two, and lets the engine die between any
two steps.

### MergeQueue and the code

`issue[i]` is the queue's part of `World.issues`. The handlers are written as the
code has them, functions from a world to a world under the Rust functions' names
(`apply_report`, `note_phase`, `leave`, `merged`, `commit_merge`, ...), and an action
applies one message's handlers, all of them: `Check`, for example, is
`note_change`, then the babysit decision, then `arm_merge`, then `watch::sync`.

* A message is handled only when `~pumping`: `pump()` runs to idle before the
  state thread takes the next one. `ArmDisarm`, `StartCall` and `WriteDone` are the
  pump's steps; `turn` is its order (due disarms, then the first key).
* A merge step is two actions of the effect thread: `Assess` reads the PR once,
  an `Act...` uses what was read, so that GitHub may change between the two and
  messages may be handled at any moment of the step.
* `head` is fixed when the call starts (`Mode`); a step that is not the head's only
  disarms.
* `pr` and `auto` are GitHub. `AutoMerge` is the armed auto-merge firing on its own.
* `seen[i]` says the watch stored the settled PR's ETag: the next reads are 304 and
  report nothing; `watch::sync` forgets it with the watch.
* `local(i)` is an epic started with `--no-babysit`: no tick, a local gate, nothing
  is armed, and a `babysit` report counts as `ready`.

The data is abstracted to what the properties tell apart. "rebasing" stands for
every phase whose PR is not watched, "running" also for `awaiting_merge`; `ahead`
(who was ready before) replaces `queued_at_ms`; the gate's verdict, the outcome of
git and what the worker's pane shows are choices. Rebased, stale and busy are one
outcome, "kept": their commits differ only in notes. Refused is "uncertain": both
hold the head.

Operators named `<X>_<fault>` are `X` with one plausible fault. No action uses
them; they show that each property notices such a fault.

### FinishBracket and the code

One issue that was launched. `issue` is the engine's memory, `record` its file
`issues/<key>.json`, which four writers share: the engine (`write_issue_fields`,
without a lock), a launch on the effect thread, a teardown, and `toolu epic gate`, the
last three under the issue's launch lock.

| Code | Model |
|---|---|
| `dispatch_ops::begin`, `end` | `Begin(f, skip)`, `End(f)`: one message each |
| `finish::finish_issue` in a CLI and in `effects_cleanup` | `Finish(w)`, `w` a finish or `Engine`: `Passes`, `Refuse`, `Enter`, then `ExitAgent`, `WriteIntent`, `RemoveTree`, `WriteRemoved`, `DeleteBranch`, `Settle`, any of which may fail (`TeardownFails`) |
| `finish_retrying` | `Retry` |
| `snapshot::reload_epic` with `heal_cleaning` | `Refresh` |
| `disk::write_issue_fields` | a handler that owes a write reads the record (`saving`), `Save` writes it back with the engine's fields: other processes may write between the two |
| the effect thread's checkpoint and launch | `CheckpointDone`, `LaunchEnds`, `LaunchBegins`, `LaunchStarts`, `LaunchFails`; `EffectDone` commits |
| `schedule::gone`, `arm_checkpoint`, `refill::rearm`, `merge_bridge::merged`, `apply_report` | `Gone`, `Wave`, `Rearm`, `Merged`, `Report` |

`copy[w]` is the record a teardown or a launch read when it took the lock and writes
whole at each boundary. `pc[w]` is the next step of a finish; `"refused"` and
`"returned"` differ only in whether it tore anything down. A CLI may die at every
step (`Die`): its record, worktree and branch stay as they are, and the next finish
enters where `tear_down` finds them (`entry`). `Events` names what the environment may
do.

The launch lock is the directory lock that `ResourceLock` opens up; here a call takes it
in one step if it is free or its holder is dead (`obtainable`: the caller reclaims it by
the holder's pid). A death leaves the lock in the dead CLI's name; a death inside the
removal of a lock, the CLI's own (`"releasing"`) or a dead holder's, may also leave a
directory without a name, or a `.reap`, that no call passes again (`Jammed`; `Left` says
what may be left). `finish_holds` takes the lock too and gives it back in one step
(`Refresh`); a finish that tries meanwhile is refused (`probed`). That nobody else has a
living holder's lock is taken as given: `resource_lock_probe` shows the one way in which
it is false.

### Recovery and the code

One issue. The state thread keeps it in memory (`issue`) and writes three files one
after the other; `todo` are the steps it has decided on and not yet applied, so that a
`Crash` may come between any two.

| Code | Model |
|---|---|
| `server::pump`: `apply`, `write_intent`, `run`, `write_done` | `Write`, `WriteIntent`, `StartCall`, `WriteDone` |
| `recover::reconcile`, `snapshot::load` (`overlay_record`, `overlay_stages`, the journal's replay) | `Restart`: `loaded`, `resume`, `reconciled`, `loaded_stage`, `held` |
| `disk::write_issue`, `write_issue_fields` | `written` |
| `apply_report`, `merge_bridge::merged`, `gone`, `arm_checkpoint`, `disarm::arm` | `Report`, `Detect`, `Gone`, `Wave`, `ArmDisarm` |
| the effect thread: `queue_step`, `finish_issue`, the checkpoint, `launch_issue` | `MergeStep`, `Reconcile`, `Cleanup`, `Checkpoint`, `LaunchBegins`, `Replaces`, `Starts`, `Launched`, `LaunchFails` |
| `commit*`, `commit_reconcile` | `Commit...` |

`journal` is what replaying its lines rebuilds, kept up to date line by line: the open
intent, the stage the done lines give, an uncertain merge's hold; `"owed"` is the cleanup
that a merge's done line arms in the replay. `agents` counts the agents at work on the
issue, to say that there is never a second one. `doubt` is history: an uncertain merge
was journaled, and nothing was heard since.

Every phase but `ready` is "running", `awaiting-merge` included; a refused, or an
uncertain, merge and an uncertain rebase are one outcome, "uncertain"; a teardown is two
steps, the agent and the worktree, then the record. What the merge step reads and what
it does is one step here: `MergeQueue` splits it.

### ResourceLock and the code

`pc[c]` is the next file system operation of one call of `update_resources`. The steps
carry the code's order: `Exists` and `Gate` are the loop's first look, which gives way
to any `.reap`; `Look` and `Attempt` the second one and the rename; `Reap`, `Stale`, `Probe`,
`Unlink`, `Rmdir`, `Unreap` are `reclaim`, with the read of the owner's record and the
probe of its pid apart; `Release`, `Clear`, `Cleared` are `LockHandle::release`. A directory
is removed in two steps, its file and then itself, because `remove_dir_all` is not
atomic and a rename may replace an empty directory. `store` is the set of callers whose
update the state holds. Any process may die at any step (`Die`); its lock and its `.reap`
stay. `misled` is history: a reclaimer judged a process dead by a record that was not the
lock's any more (the owner released it and exited between the read of the record and the
probe of its pid). Such a reclaimer may remove a living owner's lock; `ExclusiveUnlessMisled`
and `AtomicUpdates` say that nothing else breaks exclusion.

`ResourceUpdates` has `Take`, `Update`, `Give`, `Reclaim`: the owner is whom the directory
names. `AtomicUpdates` is that specification under the refinement mapping, step by step
until a reclaimer is misled. It is what lets
every operation on leases, jobs and agents be thought of as one step.

### ResourceLeases and the code

The state is one machine's: `lease[i]` is the agent lease of issue `i` in `state.json`,
`job[j]` a runner of managed jobs with its process group and its lease, `record[i]` what
`issues/<key>.json` says of the lease, `cmd[i]` the launch or finish that holds
`launch-locks/<key>` and its next step, `rebase[i]` the engine's rebase of the issue's
branch, `agent[i]` the host whose agent runs, `tree[i]` the worktree. Each update of the
file is one step: that is what `ResourceLock` shows of `update_resources`. Between two
updates anything else may happen.

| Code | Model |
|---|---|
| `launch_issue`, `launch_reservation` | `BeginLaunch(i, h, verb)`, `Reclaim`, then `Acquire`, `Reuse`, `Prepared` or `Refused` |
| `migrate`: announce, `fence_worktree`, `shutdown_agent`, the look at the jobs, announce, `migrate_agent_lease` | `Announce`, `FenceSource`, `StopSource`, `VerifySource`, `Confirm`, `Move` |
| `Attempt::go` and `settle`: initialize, prepare, `ensure_agent`, deliver, release | `Initialize`, `Prepare`, `StartAgent`, `Deliver`, `ReleaseAttempt` then `DropStage`; `Fails` leaves the attempt `uncertain` |
| `persist_attempt`: record, then lease | `Persist`, then `Patch`: two writes, between which anything may happen |
| `finish`, `tear_down`, `Teardown::live` | `BeginFinish`, `OwnCleanup`, `ExitAgent`, `AwaitQuiet`, `VerifyNoJobs`, `Recheck`, `Remove`, `Settle`, `Return`; `VerifyRemoved` for a worktree already gone |
| `rebase`, `fence`, `recover` | `RebaseBegin` (the effect is made, and reads the token), `RebaseFence`, `RebaseCheck`, `RebaseEnds`, `RebaseCut`, `RebaseRecover` |
| `mirror_running` | `Adopt` |
| `run_managed_job_waiting` | `Ask`, `Admit`, `GiveBack`, `Spawn`, `RecordGroup`, `Go`, `GroupEnds`, `SettleJob` |
| deaths | `RunnerDies`, `CommandDies`, `OwnerExits`, `AgentExits` |

`owned` says that the process that took the lease lives (`ownerPid`); a CLI's launch
leaves it behind when it ends, the engine when it restarts. A lease's `tree` stands for
its worktree and pane, which `persist_attempt` writes together: without them nobody is
asked about the agent, and the lease is never reclaimed. `"waiting"` is a group whose
shell has not read the go line (`GO_SHELL`).

Pressure, a cooling host and every failure of git, of the multiplexer or of a session
are choices. `HostCap` is the smaller of the pool's and the policy's cap. The merge
itself, and the two terminal stages, are one stage `finished`, which is not launched
again. The launch lock is one issue's: commands on different issues, and on an issue the
engine rebases, overlap at every step. Only the rebases are one at a time (`Engaged`: they
run on the effect thread), and a rebase takes no lock at all: its fence, and its lift,
write over whatever the lease says.

## Runs

| Run | Instance | Shows |
|---|---|---|
| `queue_safety` | 2 issues of 2 epics in one repository, one epic without babysitting; closing by hand, checkpoints that fail | `TypeOK`, `ArmedOffQueueIsDue`, `CleanedOnlyMerged`, `AnswerMatchesPending`, `PushesAreUnarmed`, `StageNeverRegresses`, `NextHeadArmed` |
| `queue_liveness` | 1 issue; pause, merge and close elsewhere, checkpoints, lost arm answers | `DueIsDisarmed`, `MergedIsCleaned`, `HeldIsReleased` |
| `queue_removable` | 1 issue, no optional event | violates `MergedIsRemovable` |
| `queue_uncertain` | 1 issue, no optional event | violates `UncertainIsHeld` |
| `queue_unseen_merge` | 1 issue without babysitting | violates `MergedIsCleaned` |
| `bracket` | 1 finish by a CLI, the engine's own, every event | `TypeOK`, `TornOnlyMergedOrAsked`, `BranchGoneOnlyMerged`, `NoAgentWithoutTree`, `SettledIsTorn`, `MergedMeansMerged`, `LostFinishHeals` |
| `recovery` | 1 issue, every optional event, any number of crashes | `TypeOK`, `CleanedOnlyMerged`, `NoSecondAgent`, `RestartKnows`, `UncertainIsNotResent`, `MergeIsNotForgotten` |
| `recovery_disarm` | 1 issue, no optional event | violates `ArmedOffQueueIsDue` |
| `resource_lock` | 3 callers in 3 processes, each may die anywhere | `TypeOK`, `ExclusiveUnlessMisled`, `Debris`, `AtomicUpdates`, `DeadOwnerGivesWay` |
| `resource_lock_probe` | the same | violates `Exclusive` |
| `leases` | 2 issues of one epic, 2 hosts with room for one agent each, 1 runner; commands, rebases and jobs overlap, each may die anywhere | `TypeOK`, `WithinCaps`, `WorkIsLeased`, `LaunchKeepsItsLease`, `FencedRemovals`, `FencedReplays` |
| `leases_stranded` | the same | violates `FinishFindsItsLease` |

Bounds. The models have no counters: every run but `leases` is the complete state
space of its instance. Two issues are enough for the queue, whose properties relate a head to
one other issue: a third only lengthens the order. Liveness is checked with one
issue because the actions of two share nothing but the effect slot, which every
step gives back; the order in which the slot serves many keys is a listed hazard
that no run covers. `Events` names what the environment may do, so that each run
says what it assumes.

In the bracket, one CLI and the engine's cleanup already give two teardowns that
contend for the lock and take over each other's half-done work; the proofs hold for
any number. Each CLI runs one
finish, and the engine relaunches twice at most (`launches`, the code's own limit):
nothing else in the model counts. Deadlock is not checked there: a finished issue
may stop.

In the recovery nothing is bounded either: the engine may die any number of times. One
issue is enough: the files of two issues are different files, and a journal line names
its issue. What two issues share, the queue and the slot, is in `MergeQueue`.

Three callers are what a lock needs at least: an owner that dies, the one that
reclaims from it, and one that comes in between. Each makes one call; the proofs hold
for any number of callers and processes, and a process may run many calls.

In the leases, two issues and two hosts with one place each are the least in which a
replacement and a launch want the same place, and in which one issue's launch reclaims
the other's lease. Two tokens are enough for a lease to be another one than the record's.
`Bound` cuts the instance down: TLC goes no further from a state outside it. The runner
works while one issue has a history. Without jobs, another issue's launch looks at the
list of leases and reclaims in every state of the first issue and of its rebase; and
without a rebase either, both issues have histories, one of them short of a worktree.
Issues meet in the list of leases only, and a job meets an issue by its worktree, so that
what is cut off are products of histories that do not touch. The five safety properties
and `FencedRemovals` are proved without the bound.
One runner at a time is enough for the properties of one job; that the cap of jobs
holds among many is proved (`BoundsHold`).

`snapshot-fails` is left out of the liveness run on purpose: with it
`MergedIsCleaned` fails, because `fail_pending` drops the cleanup that a merge
attached to a failing checkpoint (a hazard in `PROJECT.json`). `merge` is left out of
the safety run because `AutoMerge` already merges a PR at any time it is armed and
the merge step at any other.

### Fairness

* `WF(Pump)`, `WF(Effect)`: `pump()` is a loop that runs to idle, and the effect
  thread runs its call to an answer (calls have timeouts).
* `SF(EffectDone)`, `SF(Checks(i))`, `SF(RetryDue(i))`: an answer, a watch's slot and a
  retry are messages; they wait in the channel while the pump is busy and are not
  lost, so a message that is enabled again and again is handled. A check has a
  fixed slot (`watch.rs`), a retry a fixed time (`disarm.rs`).
* `SF(Assess)`, `SF(ActDisarm)`: GitHub answers a read, and a disarm, once in a while.
  Without it every call may fail for ever and nothing can be promised. No fairness
  is assumed of merges, rebases, workers or people.

In `FinishBracket`, `WF(Save)` and `WF(EffectDone)` are the state thread doing what it has
begun, `WF(Finish(w))` a teardown that runs on unless its process dies (every wait in
it has a timeout), `SF(End(f))` a message that waits in the channel, and `SF(Refresh)` the
refresh poll, which comes round again whatever the engine does between. Launches,
checkpoints, reports, merges and people are not fair. `LostFinishHeals` needs the
refresh to find the launch lock obtainable, which it is once no finish lives, unless a
death jammed it: a stranded issue has no action pending, so no launch holds the lock, a
`cleaning` issue is given no new one, and a dead CLI's lock is reclaimed by the refresh
itself. With the lock jammed `finish_holds` answers true for ever, and the property
excludes it (see below).

In `Recovery`, `WF(Pump)`, `WF(Effect)` and `SF(EffectDone)` are as in the queue, and
`SF(Detect)` is the watch of a merged PR. `MergeIsNotForgotten` speaks of engines that in
the end stay up (`<>[]up`): nothing is promised of one that dies for ever. It says that a
merged issue is torn down, or needs a person, or is left `cleaning` without an action,
which the next start takes up (see below).

In `ResourceLock`, `WF(Step(c))`: a living process runs. `DeadOwnerGivesWay` does not
need the lock to be free of contention for ever, only during the one call it speaks of.

### Where the code does not do what the repository says

1. `MergedIsRemovable`. `auto_armed` and a held prompt stay on an issue whose PR
   merged, and `cleanup_state::safety` then refuses its epic for good.
2. `UncertainIsHeld`. The commit of an uncertain merge sets the hold and, when a
   finding was held during the step, drops it again in `release_held`.
3. `MergedIsCleaned` without babysitting. A merge the REST read showed while the
   merge step was pending is dropped, and the ETag keeps it from being seen again.
4. `ArmedOffQueueIsDue` under crashes. The design says that `disarm_due` is persisted.
   It is, in the issue record, which is the last of the three files: a crash after the
   step's done line, or after the status, and before the record leaves an armed PR off
   the queue whose restarted engine knows of nothing to disarm. Without a crash the
   property holds, as `queue_safety` shows.
5. `Exclusive` of the resource home. `stale` reads the owner's record and then probes its
   pid. If the owner releases and its process ends between the two, the reclaimer
   takes the *next* owner's lock away, and a third caller is let in. It is the only way:
   until a reclaimer is misled so, `resource_lock` finds the lock exclusive.
6. `FinishFindsItsLease`. A launch of any issue frees the leases of agents that left and
   whose owner's process ended. When the worker of a merged PR is one of them, its finish
   finds no lease under the record's token, is refused, writes `cleanup-incomplete`, and
   so is every later finish; no launch takes a record of that stage. The repository's
   own account of the case (`docs/epic-orchestrator/README.md`, "Finish recovery") is to
   retry the finish.

Not runs of their own:

* A second finish, refused at the launch lock, still tells the engine its end, and `end`
  adopts the record's stage. The record is live until the first finish writes its intent, so
  the engine has a running issue again and relaunches the agent being torn down, although
  `dispatch_ops.rs:144-145` says that the teardown arms no relaunch. The relaunch then
  fails on the lock or on the record's stage: `NoAgentWithoutTree` holds all the same.
* A worker's report inside the bracket writes the borrowed `cleaning` to the record. If
  the finish is refused, its end adopts that stage (`dispatch_ops.rs:206-216`): the worker
  lives and the engine ignores it. `heal_cleaning` cannot help, the record being no
  longer live.
* `dispatch_ops.rs:221-224` says that an issue a finish left `cleaning` is given back "once
  no finish holds its launch lock". A CLI that dies inside `remove_dir_all` of the lock
  (`lock.rs:99`), or between `.reap` and its removal (`lock.rs:141-153`), leaves what
  `acquire_lock` never passes; `finish_holds` counts it as held, and the issue stays
  `cleaning` until a person removes it. `LostFinishHeals` says `lock # Jammed` for that.
* "Durable launch ownership, reserved before any external mutation"
  (`launch/admission.rs:1`) is true of the lease a launch takes (`LaunchKeepsItsLease`), not
  of one it reuses: that one keeps the pid of the process that took it. A launch dies once
  its record is written; the next launch of the issue reuses the lease and patches its
  worktree; another issue's launch finds the owner dead and no agent listed, and reclaims
  the lease before the agent starts. The agent then runs without a lease.
* "cleanup fences a worktree before shutdown so no new job starts in it"
  (`transitions.rs:4-5` of the resource home) holds while the fence stands
  (`FencedRemovals`). Two things take it down. The finish has exited the agent, so that
  another issue's launch reclaims the fenced lease when its owner has ended; and the engine's
  rebase, which compares nothing (`set_stage`, `rebase.rs:233-239`), writes `rebasing` over
  `cleaning` and `running` when it ends. A job is then admitted between the finish's last
  look and the removal.
* "Stop new managed jobs in `worktree`, then refuse while one still runs" (`rebase.rs:214`)
  holds while that fence stands (`FencedReplays`). A launch of the issue holds a lock the
  rebase does not know: it writes its record, the rebase fences and looks, and the second
  half of `persist_attempt` writes `running`, or a relaunch `starting`, over `rebasing`. A job
  is then admitted during the replay. TLC finds these last three in the instance of
  `leases`, with the agents', the removals' and the replays' property stated without the
  condition.
* `reconcile_jobs` and `reconcile_agent_leases` drain the list before they probe, and a
  probe that fails returns out of the loop (`leases.rs:111-112`, `agents.rs:46-47`).
  `update_resources` writes the state back after an error too (`store.rs:199-201`): the
  leases are then lost. The model assumes that a probe answers.
* A reserved destination stays reserved when the replacement fails before its move:
  `cancel_agent_migration` has no caller but tests. The next replacement to the same host
  takes the reservation over; one to another host is refused for good.
* `finish --abandon` of a queued issue whose PR is armed for auto-merge tears its worktree
  down, and nothing disarms the PR.
* A queued issue armed as head and then overtaken, or whose epic is paused, merges
  from behind the head. The order of merges is then not the queue's.
* `disk.rs` says that a settled record keeps its stage, but checks it on the copy it
  read. With the window of `saving`, the engine's write may put an older record back
  over a finish's last one. The window is short in the code.
* A relaunch that died after its record said `starting` is closed as applied at the
  next start: `overlay_stages` prefers the journal's `running`, whose rank is higher
  (`recover.rs:137`, `snapshot.rs:215`). The engine then finds no agent and relaunches
  by way of `gone`, so no second agent comes of it.
* The action that follows a checkpoint (a cleanup, a relaunch) is in no file. A crash,
  or a failed snapshot, leaves an issue whose PR merged `cleaning` with no action; the
  next start gives it its cleanup (`remembered`).
* The journal's tail of two days keeps the line of an uncertain merge, and a restart
  holds the issue again although a report released it.
* A report of the same phase sets `disarm_due` in memory only.
* A recovered step that was to disarm runs as the head's merge if the worker was
  adopted meanwhile: `is_head` does not look at the hold. `UncertainIsNotResent`
  therefore lifts the doubt at an adopted report too.

## Proofs

### MergeQueueProofs

For every set of issues, epics, repositories, graph and optional events:

| Theorem | Property |
|---|---|
| `TypeCorrect` | `TypeOK` |
| `NothingUnmergedIsCleaned` | `CleanedOnlyMerged` |
| `AnswersMatch` | `AnswerMatchesPending` |
| `ArmedIsDisarmedLater` | `ArmedOffQueueIsDue`, if `"lost-arm" \notin Events` |
| `PushesUnarmed` | `PushesAreUnarmed` |

The argument. `IInv` is the inductive invariant: the types, `Sound(issue, pr, told)`,
`AnswerMatchesPending`, and what the effect thread knows of its PR (`CallInv`,
`GitHubInv`). `SoundRecord` is the heart. None of the properties is inductive
alone: `CleanedOnlyMerged` needs that a pending cleanup, a checkpoint's follow, and a
merge waiting for its done line all stand for a merged PR; `ArmedOffQueueIsDue` needs
that the engine *knows* (`auto_armed`) of every armed PR but the one being
committed, and that a known one off the ready phase is due. `told` is GitHub's view
cut down to what the engine was told.

The proof follows the code: one lemma per handler says that it preserves `Sound`
for any world and any PR states (and `Kept`: it leaves a pending action in place,
which is why an answer finds its action); the lemmas compose as the handlers do
(`leave` from `note_phase` and `arm_ready`, `commit_merge` from `close`, `outcome` and
`release_held`). `WorldStep`, `EffectStep` and `AnswerStep` then turn them into one
short step per action. The assumptions are `QueueConstants` only, and for
`ArmedIsDisarmedLater` that no answer to an arm is lost, which the code cannot
repair: it has no other way to know.

### MergeQueueStepsProofs

For every set of issues, epics, repositories, graph and optional events, from
`QueueConstants`:

| Theorem | Property |
|---|---|
| `StagesGoForward` | `StageNeverRegresses` |
| `TheNextHeadIsArmed` | `NextHeadArmed` |

Both speak of steps. `SInv` is `IInv` and two parts more:

* `Tearing`: a cleanup that is pending, or follows a checkpoint, belongs to an issue
  whose stage is `cleaning`, so that its answer, which writes the stage without
  looking, finds no other one.
* `Headed`: a step that may merge works an issue that was the head when its call
  started, and that is still running, or was closed meanwhile. "Merged" is the
  answer that could revive an issue; it comes from such a step only.

Messages take an issue's stage only `Onward`, and under a pending merge step no further
than closed. For the next head, `Steps` says of a commit that either the order of the
queue is what it was (`SameQueue`), and then the head is too, or `arm_ready` ran
after the last change, and every head is armed or held (`HeadsArmed`).

This proof found a mistake of the model: the `CASE` of `Assess` had two guards that
may hold together (the step is not the head's, the PR is not open), and TLA+ then
takes either. The code tests the head first; `Assess` is now three implications.
TLC takes the first guard, so that no run could tell.

### FinishBracketProofs

For any number of finishes and any optional events, from `BracketConstants` alone
(the run has one CLI):

| Theorem | Property |
|---|---|
| `TypeCorrect` | `TypeOK` |
| `WorktreesGoForAReason` | `TornOnlyMergedOrAsked` |
| `AbandonedKeepsItsBranch` | `BranchGoneOnlyMerged` |
| `AgentsKeepTheirTrees` | `NoAgentWithoutTree` |
| `MergedIsTrue` | `MergedMeansMerged` |
| `SettledMeansTorn` | `SettledIsTorn` |

`IInv` is the types and four parts, each of which the next needs:

* `Exclusive`: who tears down, or launches, holds the lock until it gives it back, so that
  it cannot be had and nobody else moves the agent, the worktree or the branch.
* `Quiet`: past `ExitAgent` the agent is gone and stays gone until the lock can be had:
  only a launch starts one, and it takes the same lock.
* `Licensed`: a teardown that runs without the abandon flag does so for a merged PR,
  and one with it was asked for, or took over a record that says `abandoned`; so does
  whoever takes over a half-done one.
* `Known`: every place from which a stage may come back (the record, the copies, what
  the state thread read, an outcome on its way, what `begin` answered) says `merged`
  only of a merged PR and `abandoned` only if somebody asked, and a cleanup waits for
  merged work only. It is what makes the lock-free writes harmless for these
  properties: they bring back an old record, never an untrue one.

`SettledIsTorn` needs more than that a stage was true when somebody read it: no launch
may bring agent, worktree and branch back while *anybody* still holds a settled stage
that a lock-free write, an end or a refresh can put into the record. Two invariants
say so, each proved from the one before.

* `LaunchInv` is about the engine alone. No launch is asked for, nor in flight, while an
  agent runs, until it has answered; and while one is in flight the state thread owes no
  write, because the one handler that owes a write then is a report, and reports come
  from an agent. `Relaunches` is what this rests on: a relaunch owed to a running agent
  is either just being committed or is never asked for again.
* `SealInv` says where a settled stage may be held (`heldElsewhere`: memory, the
  outcome on its way, what `begin` answered, the record a write has read) and that in
  each such state no launch can begin, for one of four reasons. The record is at rest
  (`atRest`, `proven`): it proves its cleanup and nobody works on it, so that a launch
  ends and a finish finds it complete. The issue is `over`: nothing is pending, and
  neither memory nor the record has a stage a launch starts from. The engine's own
  cleanup has answered (`cleaned`). Or the engine is `writing` that answer.
  `HoldersTorn` and `Cuts` say that what is held is true of the world and that a record
  with a cut branch is a proof.

The second reason is the subtle one. A stale write may take a settled record back to
`cleaning`; the next finish then enters again and finds nothing left to remove, and
until it has settled the record the stage alone keeps launches out.

### RecoveryProofs

For every set of optional events, from `RecoveryConstants` and `NoneIsNoAction`:

| Theorem | Property |
|---|---|
| `TypeCorrect` | `TypeOK` |
| `NothingUnmergedIsTornDown` | `CleanedOnlyMerged` |
| `OneAgent` | `NoSecondAgent` |

`IInv` adds to the types:

* `OneAction`: a call, or its answer, belongs to the pending action, which has its intent
  written. `Recovered` and `Intent`: what the journal says is open is that action, and no
  done line is owed while one is pending. They tie what a crash loses to what it keeps.
* `OnlyMerged`: while the PR is open, nothing a teardown could come from exists: no
  stage of one in memory, in the record, in the copy a call took or in what the journal
  rebuilds, no cleanup pending, chained or owed, and no answer that leads to one. The
  property speaks of the stages only and is not inductive: a restart makes the stage of
  a merge out of a done line.
* `Agents`: an agent is started only when the last one was stopped, or the record never
  had a stage; and no write takes the stage of a record away while a launch runs. The
  second half is about the state thread's writes, which happen during the launch.

### RecoveryFilesProofs

For every set of optional events, from `RecoveryConstants` and `NoneIsNoAction`:

| Theorem | Property |
|---|---|
| `FilesKnow` | `RestartKnows` |
| `UncertainStays` | `UncertainIsNotResent` |

`RestartKnows` speaks of the moments between two messages; its invariant has to speak of
every moment between two writes. `FInv` says of each field in which file it is right
already, or which of the steps still in `todo` makes it right:

* `Fields`: the phase, the armed flag and the hold are in the files what they are in
  memory, or their write is among the steps to come; and the copy of the record that a
  teardown or a launch will write back agrees.
* `Stages`: the stage a restart takes, the further one of the record's and the
  journal's, is memory's, unless the record's write is due or the action in flight writes
  it itself. The stages of a teardown come to memory before any file and to the record
  before the journal. A launch that is open in the journal is in flight, or the line
  that ends it is the last step due.
* `Doubts`: while a merge is in doubt, its hold is in the journal and in memory; while a
  merge is in flight, or open, the issue is not queued a second time.

`UncertainStays` follows from the last: a step of the head that merges is asked for by
a queue that does not hold the issue, or by the replay of an open intent, and doubt
excludes both.

### ResourceLockProofs

For any callers and processes, from `LockConstants`:

| Theorem | Property |
|---|---|
| `TypeCorrect` | `TypeOK` |
| `OnlyDeathsLeaveDebris` | `Debris` |
| `LockIsExclusive` | `ExclusiveUnlessMisled` |
| `UpdatesAreAtomic` | `AtomicUpdates` |

The invariant says whose removal an ownerless directory is and that one reclaimer at a time
is past `.reap` (`Tidy`, always); and, until a reclaimer is misled, that whom a reclaimer
found dead is still the owner the directory names (`Judged`) and that a living caller
writes over the state it read (`Fresh`). No assumption is made about processes: an owner
may exit at any moment, and the theorems say that the probe of a withdrawn record is the
one way to lose exclusion. `resource_lock_probe` shows that it is a way.

### ResourceLeasesProofs

For any issues, epics, hosts, runners and caps, from `LeaseConstants` and
`NoneIsNoLease`:

| Theorem | Property |
|---|---|
| `TypeCorrect` | `TypeOK` |
| `BoundsHold` | `WithinCaps` |
| `JobsWorkLeased` | `WorkIsLeased` |
| `LaunchesKeepTheirLease` | `LaunchKeepsItsLease` |

All hold of commands and rebases that overlap as they will. `IInv` is the types,
`WithinCaps`, `Hosted` (a launch under way knows its host), `Due` (a patch that is due
repeats a stage a launch persists) and `JobShape`, which says of
each point of a runner what its group and its lease may be; it is what makes the death of
a runner harmless. Nearly every step is *ordinary*: it adds no lease and no
reservation, so that the sets the caps count can only shrink. `Acquire` and `Prepared`
are the two that add to them, and for each the room it was given is for the very set that
grows, counted without the issue itself.

`LaunchesKeepTheirLease` rests on a second invariant, `KInv`: `Taken(i)` says that a launch
that took its lease is past the reservation, and that the lease it named is there, under its
token, owned and on the host it asked for. A reclaim spares it because its owner lives; a
finish or another launch of the issue is kept out by the launch lock; a rebase changes a
lease's stage only. The death of the launch ends the promise, and the lease is the next
launch's to reuse.

### ResourceWorktreesProofs

For any issues, epics, hosts, runners and caps, and every overlap:

| Theorem | Property |
|---|---|
| `RemovalsAreFenced` | `FencedRemovals` |
| `ReplaysAreFenced` | `FencedReplays` |

A finish looks at the jobs twice and a rebase once, several steps before they touch the
worktree, while runners, launches and rebases go on. `WInv` carries the looks over those
steps: before a finish removes its worktree (`Clear`), and while a rebase replays
(`Replays`), no job holds a lease in the worktree as long as the fence stands. Both need a
fact about steps, `Steady`: a fence that stands after a step stood before it, or the step is
one of the three that raise it. A fence therefore never comes back unseen: where it stands,
it has stood since the look, and no job was admitted meanwhile. With `WorkIsLeased`, a job
that works has its lease, which the look would have found.

### Model-checked only

Every safety property and every action property of the passing runs is a theorem, and
so is the lock's refinement. What stays with TLC are the liveness properties
(`DueIsDisarmed`, `MergedIsCleaned`, `HeldIsReleased`, `LostFinishHeals`,
`MergeIsNotForgotten`, `DeadOwnerGivesWay`): with fairness and ENABLED they are out of the
prover's reach. No module declares a RECURSIVE operator, and nothing is proved
by induction over data.

## Not modelled

In the merge queue: the loss and relaunch of an agent during a merge step
(`schedule::gone`), the rate-limit hold and drain of the watches, a panic inside the
merge step, the phase `pr-open`, and two issues that become ready in the same
millisecond (the code then orders them by key). The launch action, which also uses the effect slot, is left out:
it delays a step and touches none of the queue's fields.

In the bracket: the engine's restart (`Recovery` has it, around a teardown by the engine),
a finish while no engine runs, a dry run, a
record that never made a worktree or has no workspace id, hc terminals, the
coupling hold and the reroute of a launch, the `needs-human` outcome (a failed
launch with another judgment), the death of a `toolu epic gate`, and `begin` refused while a
merge is pending. The
lease and the tracker item follow the record and are left out.

In the recovery: the order of the queue, pauses, a held prompt, a PR closed unmerged,
`finish --abandon`, a replacement a person asked for, the relaunch's wait and budget, the
outcomes a settled launch keeps in the record, and the age of a journal line.

In the leases: hc terminals, relays and remote machines, dry runs, the wait and the poll
of a job, heartbeats, logs, the sample of the pressure, probes that fail, and the launch of
an issue that was settled, which a person may ask for. Adoption is one step and takes place only while no command holds the lock.
The lease of a record older than leases (`ownership::adopt`) is left out, and so is a
record that has a resource root and no token, which a finish refuses.

In the lock: a plain file at the lock's path, an owner record that does not parse, the
directories prepared for a rename and never renamed, and a pid the system gave to another
process.

Elsewhere: the rows of the inventory without a module; `PROJECT.json` gives the
reason for each component.

## Plan

In order of importance; modules to be proved about have no RECURSIVE operator.

1. Done: `MergeQueue`, `FinishBracket`, `Recovery`, `ResourceLock`, `ResourceLeases`, their
   proofs.
2. `AttentionQueue`: admit, deliver, recall and refuse an answer across restarts;
   safety: an answer is delivered at most once.
3. `LaunchRefill`: waves, routes and batches on top of `ResourceLeases`; safety: no member
   starts twice or is dropped.
4. `WatchSlots`: slots, immediate requests, gaps and budgets; liveness: every request
   is served.
5. `EpicClose`: refresh against a pending close.
6. Proofs: done for the safety and action properties of the runs. Next, with every new
   module, its type invariant and its safety property; and a theorem that needs no run:
   what a complete finish leaves behind.
