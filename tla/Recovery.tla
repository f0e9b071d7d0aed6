------------------------------- MODULE Recovery -------------------------------
(***************************************************************************)
(* What an engine that dies anywhere and starts again makes of one issue     *)
(* (crates/epic-orchestrator).  The state thread keeps the issue in memory    *)
(* and writes three files, one after the other: the status (the phase), the   *)
(* issue record (stage, hold, auto-merge), and the journal, an intent line    *)
(* before each action and a done line after it.  The effect thread calls       *)
(* GitHub, starts and stops the agent and writes the record's stage itself.    *)
(* A crash may come between any two writes; a restart loads the files,         *)
(* replays the journal and decides the action that was in flight.              *)
(*                                                                         *)
(* The journal is kept as what its replay rebuilds, line by line.             *)
(* An operator named <X>_<fault> is X with one plausible fault; no action     *)
(* uses it.                                                                  *)
(***************************************************************************)
EXTENDS Naturals, Sequences

CONSTANTS
  None,       \* no action, no hold, no pending
  Events      \* the optional events of the environment that may happen

OptionalEvents == {"checkpoint", "snapshot-fails", "pane-dies", "launch-fails",
                   "fix", "uncertain", "merge-elsewhere"}

ASSUME RecoveryConstants ==
  /\ Events \subseteq OptionalEvents
  /\ None \notin {"merge", "cleanup", "checkpoint", "launch", "owed"}

VARIABLES
  journal,    \* what replaying the journal's tail rebuilds
  record,     \* issues/<key>.json: the engine's fields
  status,     \* status/<key>.json: the phase
  up,         \* whether the engine runs
  issue,      \* World.issues[key]
  todo,       \* the steps the state thread still has to apply
  call,       \* the effect thread: Engine.running, or its answer
  pr,         \* GitHub: whether the PR merged
  auto,       \* GitHub: whether auto-merge is armed on it
  agents,     \* how many agents work on the issue
  tree,       \* whether its worktree exists
  doubt       \* history: an uncertain merge was journaled, and nothing since

files == <<journal, record, status>>
memory == <<issue, todo, call>>
world == <<pr, auto, agents, tree>>
vars == <<files, up, memory, world, doubt>>

-----------------------------------------------------------------------------
(* State. *)

Action == {"merge", "cleanup", "checkpoint", "launch"}

\* "running" is every phase but `ready'.
Phase == {"", "running", "ready"}

Stage == {"", "starting", "running", "replacing", "uncertain",
          "cleaning", "cleanup-incomplete", "merged"}

\* `deferred': the head of the queue is held, or the launch is.
Hold == {None, "merge", "launch"}

Pending ==
  [action : Action, phase : 0 .. 2, recovered : BOOLEAN,
   follow : {None, "cleanup", "launch"}]

ASSUME NoneIsNoAction == None \notin Pending

Issue ==
  [phase : Phase, stage : Stage, deferred : Hold, armed : BOOLEAN, due : BOOLEAN,
   pending : Pending \cup {None}]

Document == [stage : Stage, deferred : Hold, armed : BOOLEAN, due : BOOLEAN]

\* "owed": the cleanup a merge's done line armed, whose intent is not written.
Replay == [pending : Action \cup {"owed", None}, stage : Stage, deferred : {None, "merge"}]

\* A step: write the status, write the record, or append the line that ends
\* `action' with an outcome in its note.
Step == [write : {"status", "record", "kept", "held"}, action : Action \cup {None}]

Status == [write |-> "status", action |-> None]
Record == [write |-> "record", action |-> None]
Kept(action) == [write |-> "kept", action |-> action]
Held == [write |-> "held", action |-> "merge"]

Working == {"merge", "reconcile", "cleanup", "torn", "checkpoint",
            "launch", "replacing", "starting", "started"}

Answer == {"merged", "waiting", "unarmed", "kept", "fix", "uncertain", "disarmed", "error",
           "is merged", "is open", "is unknown",
           "cleaned", "incomplete", "snapped", "no snapshot", "launched", "not launched"}

\* head: the step's mode; copy: the record a teardown or a launch read and
\* writes whole.
Call == [at : Working \cup Answer \cup {"none"}, head : BOOLEAN, copy : Document]

Blank == [stage |-> "", deferred |-> None, armed |-> FALSE, due |-> FALSE]

Idle == [at |-> "none", head |-> FALSE, copy |-> Blank]

fresh(action) == [action |-> action, phase |-> 0, recovered |-> FALSE, follow |-> None]

Unloaded == [phase |-> "", stage |-> "", deferred |-> None, armed |-> FALSE,
             due |-> FALSE, pending |-> None]

Init ==
  /\ journal = [pending |-> None, stage |-> "", deferred |-> None]
  /\ record = Blank /\ status = ""
  /\ up = TRUE
  /\ issue = Unloaded /\ todo = <<>> /\ call = Idle
  /\ pr = "open" /\ auto = FALSE /\ agents = 0 /\ tree = FALSE
  /\ doubt = FALSE

queued(s) == s.phase = "ready" /\ s.stage = "running"

at(s, n) == s.pending # None /\ s.pending.phase = n

doing(s, action) == s.pending # None /\ s.pending.action = action

armable(s) == queued(s) /\ s.pending = None /\ s.deferred = None

arm_merge(s) == IF armable(s) THEN [s EXCEPT !.pending = fresh("merge")] ELSE s

\* The state thread takes a message when the pump is idle.
idle == up /\ todo = <<>> /\ (issue.pending = None \/ call.at # "none")

-----------------------------------------------------------------------------
(* What a restart rebuilds. *)

rank(stage) ==
  CASE stage = "" -> 0
    [] stage = "starting" -> 1
    [] stage = "running" -> 2
    [] stage = "cleaning" -> 3
    [] OTHER -> 4

\* The stage a done line gives, `finish_action', and the action it chains.
finished(stage, action) ==
  CASE action = "merge" -> "cleaning"
    [] action = "cleanup" -> "merged"
    [] action = "launch" -> "running"
    [] OTHER -> stage

\* One more line is replayed: an intent, a done line, one with a note.
intended(j, action) == [j EXCEPT !.pending = action]

done(j) ==
  IF j.pending = None THEN j
  ELSE [j EXCEPT !.stage = finished(j.stage, j.pending),
                 !.pending = IF j.pending = "merge" THEN "owed" ELSE None]

noted(j, step) ==
  [j EXCEPT !.pending = None,
            !.deferred = IF step.write = "held" THEN "merge" ELSE @]

\* overlay_stages: the record's stage wins unless the journal's is further.
loaded_stage ==
  IF rank(record.stage) >= rank(journal.stage) THEN record.stage ELSE journal.stage

held_record == record.deferred

\* overlay_record, then the replay of an uncertain merge.
held == IF journal.deferred # None THEN journal.deferred ELSE record.deferred

\* The launch that may have started an agent.
Unsure == {"starting", "uncertain", "replacing"}

unsure == journal.pending = "launch" /\ loaded_stage \in Unsure

resumed(action, phase) == [fresh(action) EXCEPT !.phase = phase]

\* resume_action: a launch by the record's stage, cleanup and checkpoint again,
\* a merge asks GitHub.
resume ==
  CASE journal.pending = None -> None
    [] journal.pending = "owed" -> fresh("cleanup")
    [] journal.pending = "merge" -> [resumed("merge", 1) EXCEPT !.recovered = TRUE]
    [] unsure -> None
    [] journal.pending = "launch" /\ ~unsure ->
         resumed("launch", IF loaded_stage = "" THEN 1 ELSE 2)
    [] OTHER -> resumed(journal.pending, 1)

\* reconcile_one: a merge that already moved the stage only needs its done
\* line; a cleaning issue without an action is cleaned up.
reconciled(pending) ==
  IF loaded_stage # "cleaning" THEN pending
  ELSE IF pending = None THEN fresh("cleanup")
  ELSE IF pending.action = "merge" THEN [pending EXCEPT !.phase = 2, !.recovered = FALSE]
  ELSE pending

\* snapshot::load, but for arm_ready.
loaded ==
  [phase |-> status, stage |-> loaded_stage, deferred |-> held,
   armed |-> record.armed, due |-> record.due, pending |-> reconciled(resume)]

Crash ==
  /\ up
  /\ up' = FALSE
  /\ issue' = Unloaded /\ todo' = <<>> /\ call' = Idle
  /\ UNCHANGED <<files, world, doubt>>

\* The done line of a launch that stays uncertain is owed.
Restart ==
  /\ ~up
  /\ up' = TRUE
  /\ issue' = arm_merge(loaded)
  /\ todo' = IF unsure THEN <<Kept("launch")>> ELSE <<>>
  /\ UNCHANGED <<files, call, world, doubt>>

-----------------------------------------------------------------------------
(* The pump: apply the steps, then the pending action. *)

\* write_issue_fields: a settled record keeps its stage; write_issue: an
\* issue with nothing to record is not written.
written ==
  IF issue.stage = "" /\ issue.deferred = None /\ issue.phase # "ready" THEN record
  ELSE [stage |-> IF issue.stage = "" \/ record.stage = "merged" THEN record.stage
                  ELSE issue.stage,
        deferred |-> issue.deferred, armed |-> issue.armed, due |-> issue.due]

Write ==
  /\ up /\ todo # <<>>
  /\ todo' = Tail(todo)
  /\ LET step == Head(todo) IN
       \/ /\ step.write = "status"
          /\ status' = issue.phase
          /\ UNCHANGED <<journal, record, doubt>>
       \/ /\ step.write = "record"
          /\ record' = written
          /\ UNCHANGED <<journal, status, doubt>>
       \/ /\ step.write \in {"kept", "held"}
          /\ journal' = noted(journal, step)
          /\ doubt' = (doubt \/ step.write = "held")
          /\ UNCHANGED <<record, status>>
  /\ UNCHANGED <<up, issue, call, world>>

\* Nothing is left to apply; pending is the issue's action in flight.
pumping(phase) == up /\ todo = <<>> /\ at(issue, phase)

WriteIntent ==
  /\ pumping(0)
  /\ journal' = intended(journal, issue.pending.action)
  /\ issue' = [issue EXCEPT !.pending.phase = 1]
  /\ UNCHANGED <<record, status, up, todo, call, world, doubt>>

closed_unfollowed(s) ==
  [s EXCEPT !.stage = finished(s.stage, s.pending.action),
            !.pending = fresh(IF @.action = "merge" THEN "cleanup" ELSE @.follow)]

\* finish_action: the stage, then the action it chains.
closed(s) ==
  LET follow == IF s.pending.action = "merge" THEN "cleanup" ELSE s.pending.follow
  IN [s EXCEPT !.stage = finished(s.stage, s.pending.action),
               !.pending = IF follow = None THEN None ELSE fresh(follow)]

WriteDone ==
  /\ pumping(2)
  /\ journal' = done(journal)
  /\ issue' = closed(issue)
  /\ todo' = <<Record>>
  /\ UNCHANGED <<record, status, up, call, world, doubt>>

\* A recovered merge asks GitHub; any other runs.  `head' is the merge's mode.
StartCall ==
  /\ pumping(1) /\ call.at = "none"
  /\ call' = [at |-> IF issue.pending.recovered THEN "reconcile" ELSE issue.pending.action,
              head |-> queued(issue), copy |-> Blank]
  /\ UNCHANGED <<files, up, issue, todo, world, doubt>>

\* disarm::arm: the auto-merge of an issue that left the queue.
ArmDisarm ==
  /\ idle /\ issue.pending = None
  /\ issue.due /\ ~queued(issue)
  /\ issue' = [issue EXCEPT !.pending = fresh("merge")]
  /\ UNCHANGED <<files, up, todo, call, world, doubt>>

\* refill: an issue that was never launched.
ArmLaunch ==
  /\ idle /\ issue.pending = None
  /\ issue.stage = "" /\ issue.deferred = None
  /\ issue' = [issue EXCEPT !.pending = fresh("launch")]
  /\ UNCHANGED <<files, up, todo, call, world, doubt>>

-----------------------------------------------------------------------------
(* Messages. *)

\* apply_report: the phase, the queue's fields, and the stage of a worker
\* nobody recorded.
noted_phase(s, phase) ==
  [s EXCEPT !.phase = phase, !.due = phase # "ready" /\ (@ \/ s.armed)]

adopted(s) == s.stage \in {""} \cup Unsure /\ ~doing(s, "launch")

reported(s, phase) ==
  LET moved == IF adopted(s) THEN [s EXCEPT !.stage = "running"] ELSE s
      kept == IF s.phase # phase THEN [moved EXCEPT !.deferred = None] ELSE moved
      new == noted_phase(kept, phase)
  IN IF phase = "ready" THEN arm_merge(new) ELSE new

Report(phase) ==
  /\ idle /\ agents > 0
  /\ issue' = reported(issue, phase)
  /\ todo' = IF adopted(issue) \/ issue.phase # phase THEN <<Status, Record>> ELSE <<Status>>
  /\ doubt' = (doubt /\ issue.phase = phase /\ ~adopted(issue))
  /\ UNCHANGED <<files, up, call, world>>

\* A check of the head: arm_merge.
Check ==
  /\ idle /\ armable(issue)
  /\ issue' = arm_merge(issue)
  /\ UNCHANGED <<files, up, todo, call, world, doubt>>

\* merge_bridge::merged: the detector saw the PR merged.
merged(s) ==
  [s EXCEPT !.stage = "cleaning", !.deferred = None,
            !.pending = IF @ = None THEN fresh("cleanup")
                        ELSE [@ EXCEPT !.follow = "cleanup"]]

detects(s) == s.stage = "running" /\ (s.pending = None \/ doing(s, "checkpoint"))

Detect_unsaved ==
  /\ idle /\ pr = "merged" /\ detects(issue)
  /\ issue' = merged(issue)
  /\ doubt' = FALSE
  /\ UNCHANGED <<files, up, todo, call, world>>

Detect ==
  /\ idle /\ pr = "merged" /\ detects(issue)
  /\ issue' = merged(issue)
  /\ todo' = <<Record>>
  /\ doubt' = FALSE
  /\ UNCHANGED <<files, up, call, world>>

\* arm_checkpoint: the periodic wave.
Wave ==
  /\ "checkpoint" \in Events
  /\ idle /\ issue.pending = None /\ issue.stage = "running"
  /\ issue' = [issue EXCEPT !.pending = fresh("checkpoint")]
  /\ UNCHANGED <<files, up, todo, call, world, doubt>>

\* gone: the agent is not listed; a checkpoint, then a relaunch.
Gone ==
  /\ idle /\ agents = 0 /\ issue.stage = "running"
  /\ issue.pending = None \/ (doing(issue, "checkpoint") /\ issue.pending.follow = None)
  /\ issue' = [issue EXCEPT !.pending =
       [(IF @ = None THEN fresh("checkpoint") ELSE @) EXCEPT !.follow = "launch"]]
  /\ UNCHANGED <<files, up, todo, call, world, doubt>>

-----------------------------------------------------------------------------
(* The effect thread.  Each action changes GitHub, the agent or the record    *)
(* and moves the call on; its answer waits for the state thread.              *)

answer(a) == call' = [at |-> a, head |-> FALSE, copy |-> Blank]

\* A teardown or a launch reads the record once, when it has the lock.
reads(step) == call' = [call EXCEPT !.at = step, !.copy = record]

proceeds(step) == call' = [call EXCEPT !.at = step]

persist(copy, stage) == record' = [copy EXCEPT !.stage = stage]

outside == <<journal, status, up, issue, todo, doubt>>

\* The queue's step: it merges the head, arms its auto-merge, disarms it for a
\* push, or leaves it.
MergeStep ==
  /\ call.at = "merge"
  /\ \/ /\ call.head /\ answer("merged")
        /\ pr' = "merged" /\ auto' = FALSE
     \/ /\ call.head /\ pr = "open" /\ answer("waiting")
        /\ auto' = TRUE /\ UNCHANGED pr
     \/ /\ call.head /\ pr = "open" /\ ~auto /\ answer("unarmed")
        /\ UNCHANGED <<pr, auto>>
     \/ /\ call.head /\ pr = "open" /\ answer("kept")
        /\ auto' \in {auto, FALSE} /\ UNCHANGED pr
     \/ /\ "fix" \in Events
        /\ call.head /\ pr = "open" /\ answer("fix")
        /\ auto' = FALSE /\ UNCHANGED pr
     \/ /\ "uncertain" \in Events
        /\ call.head /\ pr = "open" /\ answer("uncertain")
        /\ pr' \in {"open", "merged"}
        /\ auto' = (auto /\ pr' = "open")
     \/ /\ ~call.head /\ answer("disarmed")
        /\ auto' = FALSE /\ UNCHANGED pr
     \/ /\ answer("error") /\ UNCHANGED <<pr, auto>>
  /\ UNCHANGED <<outside, record, agents, tree>>

Reconcile_merged ==
  /\ call.at = "reconcile"
  /\ answer("is merged")
  /\ UNCHANGED <<outside, record, world>>

\* queue_step::reconcile: only asks.
Reconcile ==
  /\ call.at = "reconcile"
  /\ \/ answer(IF pr = "merged" THEN "is merged" ELSE "is open")
     \/ answer("is unknown")
  /\ UNCHANGED <<outside, record, world>>

Cleanup_settled_first ==
  /\ \/ /\ call.at = "cleanup" /\ record.stage = "merged"
        /\ answer("cleaned") /\ UNCHANGED <<record, agents, tree>>
     \/ /\ call.at = "cleanup" /\ record.stage # "merged" /\ pr = "merged"
        /\ reads("torn") /\ persist(record, "merged") /\ UNCHANGED <<agents, tree>>
     \/ /\ call.at = "torn"
        /\ answer("cleaned") /\ agents' = 0 /\ tree' = FALSE /\ UNCHANGED record
     \/ /\ call.at = "cleanup"
        /\ answer("incomplete") /\ UNCHANGED <<record, agents, tree>>
  /\ UNCHANGED <<outside, pr, auto>>

\* finish::finish_issue, in two steps: the agent and the worktree go, then the
\* record says so.  It may stop short, or find all done.
Cleanup ==
  /\ \/ /\ call.at = "cleanup" /\ record.stage = "merged"
        /\ answer("cleaned") /\ UNCHANGED <<record, agents, tree>>
     \/ /\ call.at = "cleanup" /\ record.stage # "merged" /\ pr = "merged"
        /\ reads("torn") /\ agents' = 0 /\ tree' = FALSE /\ UNCHANGED record
     \/ /\ call.at = "torn"
        /\ answer("cleaned") /\ persist(call.copy, "merged")
        /\ UNCHANGED <<agents, tree>>
     \/ /\ call.at = "torn"
        /\ answer("incomplete") /\ persist(call.copy, "cleanup-incomplete")
        /\ UNCHANGED <<agents, tree>>
     \/ /\ call.at = "cleanup"
        /\ answer("incomplete") /\ UNCHANGED <<record, agents, tree>>
  /\ UNCHANGED <<outside, pr, auto>>

Checkpoint ==
  /\ call.at = "checkpoint"
  /\ \/ answer("snapped")
     \/ "snapshot-fails" \in Events /\ answer("no snapshot")
  /\ UNCHANGED <<outside, record, world>>

LaunchBegins_unsaved ==
  /\ call.at = "launch"
  /\ \/ /\ record.stage \in {"", "running"}
        /\ reads(IF record.stage = "" THEN "starting" ELSE "replacing") /\ UNCHANGED record
     \/ /\ record.stage \notin {"", "running"} \/ "launch-fails" \in Events
        /\ answer("not launched") /\ UNCHANGED record
  /\ UNCHANGED <<outside, world>>

\* launch_issue: fresh for a record without a stage, a replacement for a
\* running one; any other refuses.  The record is written whole at each step.
LaunchBegins ==
  /\ call.at = "launch"
  /\ \/ /\ record.stage = ""
        /\ reads("starting") /\ persist(record, "starting")
     \/ /\ record.stage = "running"
        /\ reads("replacing") /\ persist(record, "replacing")
     \/ /\ record.stage \notin {"", "running"} \/ "launch-fails" \in Events
        /\ answer("not launched") /\ UNCHANGED record
  /\ UNCHANGED <<outside, world>>

\* The old agent is stopped before the record says `starting'.
Replaces ==
  /\ call.at = "replacing"
  /\ proceeds("starting") /\ persist(call.copy, "starting") /\ agents' = 0
  /\ UNCHANGED <<outside, pr, auto, tree>>

Starts ==
  /\ call.at = "starting"
  /\ proceeds("started") /\ agents' = agents + 1 /\ tree' = TRUE
  /\ UNCHANGED <<outside, record, pr, auto>>

Launched ==
  /\ call.at = "started"
  /\ answer("launched") /\ persist(call.copy, "running")
  /\ UNCHANGED <<outside, world>>

\* settle: what provably started nothing drops its stage, the rest is uncertain.
LaunchFails ==
  /\ "launch-fails" \in Events
  /\ \/ call.at = "starting" /\ persist(call.copy, "")
     \/ call.at \in {"replacing", "starting", "started"} /\ persist(call.copy, "uncertain")
  /\ answer("not launched")
  /\ UNCHANGED <<outside, world>>

-----------------------------------------------------------------------------
(* The answer is committed. *)

Commits(a, s, steps) ==
  /\ up /\ todo = <<>>
  /\ call.at = a
  /\ call' = Idle
  /\ issue' = s
  /\ todo' = steps
  /\ UNCHANGED <<files, up, world>>

\* applied: the stage moves with the answer, the done line follows.
applied(s, stage) == [s EXCEPT !.stage = stage, !.pending.phase = 2]

\* close: the step ends without a merge.
open(s) == [s EXCEPT !.pending = None]

set_armed(s, on) == [s EXCEPT !.armed = on, !.due = @ \/ (on /\ ~queued(s))]

\* The record is due when a queue field changed.
noting(new) == IF new.armed # issue.armed \/ new.due # issue.due THEN <<Record>> ELSE <<>>

CommitMerged == Commits("merged", applied(issue, "cleaning"), <<Record>>) /\ UNCHANGED doubt

CommitWaiting ==
  \E a \in {"waiting", "unarmed"} :
    LET new == set_armed(open(issue), a = "waiting")
    IN Commits(a, new, <<Kept("merge")>> \o noting(new)) /\ UNCHANGED doubt

CommitKept ==
  \E a \in {"kept", "error"} :
    Commits(a, open(issue), <<Kept("merge")>>) /\ UNCHANGED doubt

CommitFix ==
  LET off == set_armed(open(issue), FALSE)
  IN /\ Commits("fix", [noted_phase(off, "running") EXCEPT !.deferred = None],
                <<Kept("merge")>> \o noting(off) \o <<Status, Record>>)
     /\ doubt' = FALSE

CommitUncertain ==
  Commits("uncertain", [open(issue) EXCEPT !.deferred = "merge"], <<Held, Record>>)
    /\ UNCHANGED doubt

CommitDisarmed ==
  Commits("disarmed", [open(issue) EXCEPT !.armed = FALSE, !.due = FALSE],
          <<Kept("merge"), Record>>) /\ UNCHANGED doubt

\* commit_reconcile.
CommitReconcile ==
  /\ \/ Commits("is merged",
                [issue EXCEPT !.pending = [@ EXCEPT !.phase = 2, !.recovered = FALSE],
                              !.stage = IF @ = "merged" THEN @ ELSE "cleaning"],
                <<Record>>)
     \/ Commits("is open", [issue EXCEPT !.pending.recovered = FALSE], <<>>)
     \/ Commits("is unknown", open(issue), <<>>)
  /\ UNCHANGED doubt

CommitCleanup ==
  /\ \/ Commits("cleaned", [issue EXCEPT !.pending.phase = 2], <<Record>>)
     \/ Commits("incomplete", [open(issue) EXCEPT !.stage = "cleanup-incomplete"], <<Record>>)
  /\ UNCHANGED doubt

\* fail_pending drops the action, and what it would have chained.
CommitCheckpoint ==
  /\ \/ Commits("snapped", [issue EXCEPT !.pending.phase = 2], <<Record>>)
     \/ Commits("no snapshot", open(issue), <<>>)
  /\ UNCHANGED doubt

CommitLaunch ==
  /\ \/ Commits("launched", applied(issue, "running"), <<Record>>)
     \/ Commits("not launched",
                [open(issue) EXCEPT !.deferred = "launch",
                                    !.stage = IF record.stage = "" THEN @ ELSE record.stage],
                <<Record, Kept("launch")>>)
  /\ UNCHANGED doubt

-----------------------------------------------------------------------------
(* GitHub, and the worker's pane. *)

environment == <<files, up, memory, doubt>>

AutoMerge ==
  /\ auto
  /\ pr' = "merged" /\ auto' = FALSE
  /\ UNCHANGED <<environment, agents, tree>>

MergeElsewhere ==
  /\ "merge-elsewhere" \in Events
  /\ pr = "open" /\ tree
  /\ pr' = "merged" /\ auto' = FALSE
  /\ UNCHANGED <<environment, agents, tree>>

PaneDies ==
  /\ "pane-dies" \in Events
  /\ agents > 0
  /\ agents' = 0
  /\ UNCHANGED <<environment, pr, auto, tree>>

-----------------------------------------------------------------------------

Pump == Write \/ WriteIntent \/ WriteDone \/ StartCall

Message ==
  \/ ArmDisarm \/ ArmLaunch \/ Check \/ Detect \/ Wave \/ Gone
  \/ \E phase \in {"running", "ready"} : Report(phase)

Effect ==
  \/ MergeStep \/ Reconcile \/ Cleanup \/ Checkpoint
  \/ LaunchBegins \/ Replaces \/ Starts \/ Launched \/ LaunchFails

EffectDone ==
  \/ CommitMerged \/ CommitWaiting \/ CommitKept \/ CommitFix \/ CommitUncertain
  \/ CommitDisarmed \/ CommitReconcile \/ CommitCleanup \/ CommitCheckpoint \/ CommitLaunch

Environment == AutoMerge \/ MergeElsewhere \/ PaneDies

Next == Crash \/ Restart \/ Pump \/ Message \/ Effect \/ EffectDone \/ Environment

Spec == Init /\ [][Next]_vars

\* The state thread and the effect thread run on; an answer and what a watch
\* saw wait in the channel until they are taken.
Fairness == WF_vars(Pump) /\ WF_vars(Effect) /\ SF_vars(EffectDone) /\ SF_vars(Detect)

FairSpec == Spec /\ Fairness

-----------------------------------------------------------------------------
(* Properties. *)

\* The type invariant.
TypeOK ==
  /\ journal \in Replay /\ record \in Document /\ status \in Phase
  /\ up \in BOOLEAN
  /\ issue \in Issue /\ call \in Call
  /\ todo \in Seq(Step)
  /\ pr \in {"open", "merged"} /\ auto \in BOOLEAN
  /\ agents \in Nat /\ tree \in BOOLEAN /\ doubt \in BOOLEAN

Torn == {"cleaning", "cleanup-incomplete", "merged"}

\* No crash and no replay tears down what did not merge: the stages of a
\* teardown, in memory, in the record or in what the journal rebuilds, belong
\* to a merged PR, and so does a cleanup that runs (recover.rs).
CleanedOnlyMerged ==
  pr = "open" =>
    /\ \A stage \in {issue.stage, record.stage, journal.stage} : stage \notin Torn
    /\ call.at \notin {"cleanup", "torn"}
    /\ journal.pending \notin {"cleanup", "owed"}

\* A restart never starts a second agent (recover.rs:2-4).
NoSecondAgent == agents <= 1

\* Between two messages the files know what the memory knows: a crash now and
\* a restart give back the phase and the action in flight and, unless that
\* action writes the record itself, the armed flag, that it is held, and the stage or
\* the teardown's last one
\* (disk.rs:126-192, recover.rs).
RestartKnows ==
  idle =>
    /\ status = issue.phase
    /\ issue.pending # None => journal.pending = issue.pending.action
    /\ ~doing(issue, "launch") /\ ~doing(issue, "cleanup") =>
         /\ loaded_stage = issue.stage \/ (loaded_stage = "merged" /\ issue.stage \in Torn)
         /\ record.armed = issue.armed
         /\ issue.deferred # None => held # None

\* A merge whose outcome is uncertain is not sent again, whatever restarts,
\* until a report changes the phase or brings the worker back, or the detector
\* says more (commit_queue.rs:124).
UncertainIsNotResent == doubt => ~(call.at = "merge" /\ call.head)

\* What is left of a merged issue when nothing is in flight: another start of
\* the engine takes it up.
remembered == issue.stage = "cleaning" /\ issue.pending = None

\* The worktree is gone, or a judgment asks a person to look.
Settles ==
  \/ ~tree
  \/ issue.stage \in {"cleanup-incomplete"} \cup Unsure
  \/ issue.stage = "" /\ issue.deferred # None

\* Once the engine stays up, an issue whose PR merged is torn down, needs a
\* person, or is left to the next start: no crash makes the files forget it.
MergeIsNotForgotten ==
  <>[]up => ((pr = "merged" /\ issue.stage \in {"running", "cleaning"})
               ~> (Settles \/ remembered))

\* An auto-merge left armed on an issue out of the queue is due a disarm
\* (docs/toolu/specs/2026-10-12-epic-merge-queue-design.md: disarm_due is
\* persisted).
ArmedOffQueueIsDue ==
  (idle /\ issue.pending = None /\ issue.phase # "" /\ auto /\ ~queued(issue)
     /\ issue.stage = "running") => issue.due
=============================================================================
