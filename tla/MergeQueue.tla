----------------------------- MODULE MergeQueue -----------------------------
(***************************************************************************)
(* The resident engine's merge queue (crates/epic-orchestrator): one state  *)
(* thread that handles a message and then pumps until idle, one effect      *)
(* thread that runs one call at a time, and GitHub, which also acts on its   *)
(* own (an armed auto-merge fires, somebody merges or closes a PR).          *)
(*                                                                         *)
(* `issue' is the part of the engine's World the queue uses.  The handlers  *)
(* are written, as in the code, as functions from a world w to a world.     *)
(*                                                                         *)
(* An operator named <X>_<fault> is X with one plausible fault; no action    *)
(* uses it.  Each shows that a property notices the fault.                  *)
(***************************************************************************)
EXTENDS Naturals

CONSTANTS
  Issue,      \* issue keys, numbers: the engine's maps iterate in key order
  Epic,       \* epics
  EpicOf,     \* the epic of an issue
  RepoOf,     \* the repository of an issue's pull request
  Unblocks,   \* how many issues transitively wait on an issue
  NoBabysit,  \* the epics started with --no-babysit
  Events      \* the optional events of the environment that may happen

\* What the environment may do beside the ordinary: pause an epic, merge or
\* close a PR outside the queue, a checkpoint wave, a snapshot that fails, an
\* arm request GitHub applied but whose answer was lost.
OptionalEvents ==
  {"pause", "merge", "close", "checkpoint", "snapshot-fails", "lost-arm"}

ASSUME QueueConstants ==
  /\ Issue \subseteq Nat
  /\ EpicOf \in [Issue -> Epic]
  /\ Unblocks \in [Issue -> Nat]
  /\ NoBabysit \subseteq Epic
  /\ Events \subseteq OptionalEvents

VARIABLES
  issue,      \* World.issues
  paused,     \* World.paused
  running,    \* Engine.running, with what the effect thread knows of the call
  pr,         \* GitHub: the state of each pull request
  auto,       \* GitHub: whether auto-merge is armed on it
  seen        \* whether the issue's watch holds the settled PR's ETag

vars == <<issue, paused, running, pr, auto, seen>>

-----------------------------------------------------------------------------
(* State. *)

\* "rebasing" stands for every phase whose PR nobody watches.
Phase == {"rebasing", "babysit", "ready"}

\* A launched issue: "running" also stands for awaiting_merge.
Stage == {"running", "closed", "cleaning", "cleanup-incomplete", "merged"}

Act == {"merge", "cleanup", "checkpoint"}

\* applied: the answer came, the done line is due (the pending's phase 2; its
\* phases 0 and 1 differ only for a restart).  cleanup: a checkpoint's follow.
Pending == [act : Act \cup {"none"}, applied : BOOLEAN, cleanup : BOOLEAN]

fresh(act) == [act |-> act, applied |-> FALSE, cleanup |-> FALSE]

NoPending == fresh("none")

Record ==
  [phase : Phase, stage : Stage, pending : Pending,
   deferred : {"none", "merge", "rebase"},
   ahead : SUBSET Issue,   \* the ready issues with an earlier queued_at
   auto_armed : BOOLEAN, disarm_due : BOOLEAN,
   cooling : BOOLEAN,      \* now_ms < disarm_at_ms
   held : BOOLEAN]

\* The gate's verdict; "disarm" is the step that only disarms.
Verdict == {"merged", "closed", "fix", "rebase", "wait", "merge", "disarm"}

\* "kept" stands for rebased, stale and busy; "uncertain" for refused too; "armed"
\* and "unarmed" for waiting, by its auto_merge text; a local gate's owed evidence
\* is committed as "fix".  A checkpoint or a cleanup is applied or failed.
MergeOutcome ==
  {"merged", "closed", "kept", "armed", "unarmed", "disarmed", "error",
   "rebase-uncertain", "handoff", "fix", "uncertain"}

Outcome == MergeOutcome \cup {"applied", "failed"}

\* head: the step works the queue's head (Mode::Head).
Call ==
  [key : Issue, act : Act, head : BOOLEAN, verdict : Verdict \cup {"none"},
   armed : BOOLEAN, outcome : Outcome \cup {"none"}]

NoCall == [act |-> "none"]

TypeOK ==
  /\ issue \in [Issue -> Record]
  /\ paused \subseteq Epic
  /\ running \in Call \cup {NoCall}
  /\ pr \in [Issue -> {"open", "merged", "closed"}]
  /\ auto \in [Issue -> BOOLEAN]
  /\ seen \in [Issue -> BOOLEAN]

-----------------------------------------------------------------------------
(* The queue. *)

queued(w, i) == w[i].phase = "ready" /\ w[i].stage = "running"

before(w, i, j) ==
  \/ Unblocks[i] > Unblocks[j]
  \/ Unblocks[i] = Unblocks[j] /\ i \in w[j].ahead

is_head(w, p, i) ==
  /\ queued(w, i)
  /\ EpicOf[i] \notin p
  /\ \A j \in Issue \ {i} :
       RepoOf[j] = RepoOf[i] /\ queued(w, j) /\ EpicOf[j] \notin p => ~before(w, j, i)

armable(w, p, i) ==
  /\ w[i].pending = NoPending
  /\ w[i].deferred = "none"
  /\ is_head(w, p, i)

arm_merge(w, i) ==
  IF armable(w, paused, i) THEN [w EXCEPT ![i].pending = fresh("merge")] ELSE w

arm_ready(w, p) ==
  [i \in Issue |-> IF armable(w, p, i) THEN [w[i] EXCEPT !.pending = fresh("merge")] ELSE w[i]]

note_phase_neverDue(w, i, phase) ==
  [j \in Issue |->
    IF j = i
    THEN [w[i] EXCEPT !.phase = phase,
                      !.ahead = IF phase # "ready" THEN {}
                                ELSE IF w[i].phase = "ready" THEN @
                                ELSE {k \in Issue : w[k].phase = "ready"}]
    ELSE [w[j] EXCEPT !.ahead = IF phase = "ready" THEN @ ELSE @ \ {i}]]

\* i's phase becomes `phase' (note_phase): a ready issue joins the queue behind
\* the ready ones, any other phase leaves it.
note_phase(w, i, phase) ==
  LET readied == {j \in Issue : w[j].phase = "ready"}
      joined  == IF w[i].phase = "ready" THEN w[i].ahead ELSE readied
  IN IF phase = "ready"
     THEN [w EXCEPT ![i].phase = phase, ![i].ahead = joined, ![i].disarm_due = FALSE]
     ELSE [j \in Issue |->
            IF j = i
            THEN [w[i] EXCEPT !.phase = phase, !.ahead = {},
                              !.disarm_due = @ \/ w[i].auto_armed]
            ELSE [w[j] EXCEPT !.ahead = @ \ {i}]]

leave_noNextHead(w, i, phase) ==
  [note_phase(w, i, phase) EXCEPT ![i].deferred = "none"]

leave(w, i, phase) ==
  arm_ready([note_phase(w, i, phase) EXCEPT ![i].deferred = "none"], paused)

-----------------------------------------------------------------------------
(* Handlers of the state thread, as functions from a world to a world. *)

\* Nothing ticks a babysit report of a --no-babysit epic to ready: it is one.
local(i) == EpicOf[i] \in NoBabysit

local_ready(i, phase) == IF local(i) /\ phase = "babysit" THEN "ready" ELSE phase

apply_report(w, i, phase) ==
  LET changed == w[i].phase # phase
      noted   == note_phase(w, i, phase)
      after   == IF changed THEN [noted EXCEPT ![i].deferred = "none"] ELSE noted
  IN IF phase = "ready" THEN arm_merge(after, i) ELSE after

merged_overPending(w, i) ==
  IF w[i].stage = "running"
  THEN [w EXCEPT ![i].stage = "cleaning", ![i].deferred = "none",
                 ![i].pending = fresh("cleanup")]
  ELSE w

merged_anyStage(w, i) ==
  IF w[i].pending.act = "none"
  THEN [w EXCEPT ![i].stage = "cleaning", ![i].deferred = "none",
                 ![i].pending = fresh("cleanup")]
  ELSE w

merged_noFollow(w, i) ==
  IF w[i].stage = "running" /\ w[i].pending.act \in {"none", "checkpoint"}
  THEN [w EXCEPT ![i].stage = "cleaning", ![i].deferred = "none",
                 ![i].pending = IF @.act = "checkpoint" THEN @ ELSE fresh("cleanup")]
  ELSE w

\* The PR merged, somebody says.  A merge step in flight keeps the message out.
merged(w, i) ==
  IF w[i].stage = "running" /\ w[i].pending.act \in {"none", "checkpoint"}
  THEN [w EXCEPT ![i].stage = "cleaning",
                 ![i].deferred = "none",
                 ![i].pending = IF @.act = "checkpoint"
                                THEN [@ EXCEPT !.cleanup = TRUE]
                                ELSE fresh("cleanup")]
  ELSE w

\* A finding for the worker: held while a merge step is pending or running.
prompt(w, i) ==
  IF w[i].pending.act = "merge" THEN [w EXCEPT ![i].held = TRUE]
  ELSE IF queued(w, i) THEN leave(w, i, "babysit")
  ELSE w

babysit(w, i, next) ==
  CASE next = "merged" -> merged(w, i)
    [] next = "merge-queue" /\ w[i].phase # "ready" -> note_phase(w, i, "ready")
    [] next = "prompt" -> prompt(w, i)
    [] OTHER -> w

set_armed(w, i, armed) ==
  [w EXCEPT ![i].auto_armed = armed,
            ![i].disarm_due = @ \/ (armed /\ ~queued(w, i))]

release_held(w, i) ==
  LET taken == [w EXCEPT ![i].held = FALSE]
  IN IF w[i].held /\ queued(w, i) THEN leave(taken, i, "babysit") ELSE taken

handoff(w, i) ==
  [leave(set_armed(w, i, FALSE), i, "rebasing") EXCEPT ![i].held = FALSE]

fix(w, i) == leave(set_armed(w, i, FALSE), i, "babysit")

closed(w, i) == arm_ready([w EXCEPT ![i].stage = "closed"], paused)

disarmed_stillDue(w, i) == [w EXCEPT ![i].auto_armed = FALSE]

disarmed(w, i) ==
  [w EXCEPT ![i].auto_armed = FALSE, ![i].disarm_due = FALSE]

disarm_failed(w, i) ==
  IF w[i].disarm_due /\ ~queued(w, i) THEN [w EXCEPT ![i].cooling = TRUE] ELSE w

\* What the outcome document of i's merge step does, its pending step closed.
outcome(w, i, out) ==
  CASE out = "armed"                   -> set_armed(w, i, TRUE)
    [] out = "unarmed"                 -> set_armed(w, i, FALSE)
    [] out = "disarmed"                -> disarmed(w, i)
    [] out = "error"                   -> disarm_failed(w, i)
    [] out = "rebase-uncertain"        -> [w EXCEPT ![i].deferred = "rebase"]
    [] out = "handoff"                 -> handoff(w, i)
    [] out = "fix"                     -> fix(w, i)
    [] out = "closed"                  -> closed(w, i)
    [] out = "uncertain"               -> [w EXCEPT ![i].deferred = "merge"]
    [] OTHER                           -> w

close(w, i) == [w EXCEPT ![i].pending = NoPending]

commit_merge_trusting(w, i, out) ==
  IF out \in {"merged", "uncertain"}
  THEN arm_ready([w EXCEPT ![i].pending.applied = TRUE, ![i].stage = "cleaning"], paused)
  ELSE release_held(outcome(close(w, i), i, out), i)

commit_merge_keepsHeld(w, i, out) ==
  IF out = "merged"
  THEN arm_ready([w EXCEPT ![i].pending.applied = TRUE, ![i].stage = "cleaning"], paused)
  ELSE outcome(close(w, i), i, out)

commit_merge(w, i, out) ==
  IF out = "merged"
  THEN arm_ready([w EXCEPT ![i].pending.applied = TRUE, ![i].stage = "cleaning"], paused)
  ELSE LET committed == outcome(close(w, i), i, out)
       IN IF out = "rebase-uncertain" THEN committed ELSE release_held(committed, i)

commit_cleanup_misspelt(w, i, out) ==
  IF out = "applied"
  THEN [w EXCEPT ![i].pending.applied = TRUE]
  ELSE [close(w, i) EXCEPT ![i].stage = "incomplete"]

commit_cleanup(w, i, out) ==
  IF out = "applied"
  THEN [w EXCEPT ![i].pending.applied = TRUE]
  ELSE [close(w, i) EXCEPT ![i].stage = "cleanup-incomplete"]

commit_checkpoint(w, i, out) ==
  IF out = "applied" THEN [w EXCEPT ![i].pending.applied = TRUE] ELSE close(w, i)

commit_effect(w, i, act, out) ==
  CASE act = "merge"      -> commit_merge(w, i, out)
    [] act = "cleanup"    -> commit_cleanup(w, i, out)
    [] act = "checkpoint" -> commit_checkpoint(w, i, out)

\* The done line of i's action was written.
finish_action(w, i) ==
  LET done == w[i].pending
  IN CASE done.act = "merge" ->
            [w EXCEPT ![i].stage = "cleaning", ![i].pending = fresh("cleanup")]
       [] done.act = "cleanup" ->
            [w EXCEPT ![i].stage = "merged", ![i].pending = NoPending]
       [] done.act = "checkpoint" ->
            [w EXCEPT ![i].pending = IF done.cleanup THEN fresh("cleanup") ELSE NoPending]

-----------------------------------------------------------------------------
(* The pump. *)

disarmable(i) ==
  /\ issue[i].disarm_due
  /\ issue[i].pending = NoPending
  /\ ~queued(issue, i)
  /\ ~issue[i].cooling
  /\ EpicOf[i] \notin paused

steppable(i) ==
  /\ EpicOf[i] \notin paused
  /\ issue[i].pending # NoPending
  /\ issue[i].pending.applied \/ running = NoCall

pumping == \E i \in Issue : disarmable(i) \/ steppable(i)

\* The pump serves the first issue, in key order, that has a step to take.
turn(i) ==
  /\ \A j \in Issue : ~disarmable(j)
  /\ steppable(i)
  /\ \A j \in Issue : steppable(j) => i <= j

ArmDisarm ==
  /\ \E i \in Issue : disarmable(i)
  /\ issue' = [i \in Issue |->
       IF disarmable(i) THEN [issue[i] EXCEPT !.pending = fresh("merge")] ELSE issue[i]]
  /\ UNCHANGED <<paused, running, pr, auto, seen>>

StartCall(i) ==
  /\ turn(i)
  /\ ~issue[i].pending.applied
  /\ running' = [key |-> i, act |-> issue[i].pending.act,
                 head |-> issue[i].pending.act = "merge" /\ is_head(issue, paused, i),
                 verdict |-> "none", armed |-> FALSE, outcome |-> "none"]
  /\ UNCHANGED <<issue, paused, pr, auto, seen>>

WriteDone(i) ==
  /\ turn(i)
  /\ issue[i].pending.applied
  /\ issue' = finish_action(issue, i)
  /\ UNCHANGED <<paused, running, pr, auto, seen>>

\* The effect thread's answer: committed, and its slot is free.
EffectDone ==
  /\ ~pumping
  /\ running # NoCall
  /\ running.outcome # "none"
  /\ issue' = commit_effect(issue, running.key, running.act, running.outcome)
  /\ running' = NoCall
  /\ UNCHANGED <<paused, pr, auto, seen>>
-----------------------------------------------------------------------------
(* The effect thread: a merge step reads GitHub once (assess), then acts. *)

Stepping == running # NoCall /\ running.act = "merge" /\ running.outcome = "none"

\* What the call knew is gone once it answers.
Answer(out) ==
  running' = [running EXCEPT !.outcome = out, !.verdict = "none", !.armed = FALSE,
                             !.head = FALSE]

GitHubUnchanged == UNCHANGED <<pr, auto>>

EngineUnchanged == UNCHANGED <<issue, paused, seen>>

Assess ==
  /\ Stepping /\ running.verdict = "none"
  /\ \E verdict \in Verdict :
       /\ ~running.head => verdict = "disarm"
       /\ running.head /\ pr[running.key] # "open" => verdict = pr[running.key]
       /\ running.head /\ pr[running.key] = "open"
            => verdict \in {"fix", "rebase", "wait", "merge"}
       /\ running' = [running EXCEPT !.verdict = verdict, !.armed = auto[running.key]]
  /\ GitHubUnchanged /\ EngineUnchanged

AssessFails ==
  /\ Stepping /\ running.verdict = "none"
  /\ Answer("error")
  /\ GitHubUnchanged /\ EngineUnchanged

Acting(verdict) == Stepping /\ running.verdict = verdict

\* disable auto-merge, if it was armed when assessed.
Disarm(outs) ==
  /\ running.armed => pr[running.key] = "open"
  /\ \E out \in outs : Answer(out)
  /\ auto' = [auto EXCEPT ![running.key] = @ /\ ~running.armed]
  /\ UNCHANGED pr /\ EngineUnchanged

ActDisarm == Acting("disarm") /\ Disarm({"disarmed"})

ActFix == Acting("fix") /\ Disarm({"fix"})

ActRebase_armed ==
  /\ Acting("rebase")
  /\ \E out \in {"kept", "handoff", "rebase-uncertain"} : Answer(out)
  /\ GitHubUnchanged /\ EngineUnchanged

\* Whether the worker is parked, and how git ends, is left open.
ActRebase == Acting("rebase") /\ Disarm({"kept", "handoff", "rebase-uncertain"})

\* GitHub refused the disarm, or applied it and its answer was lost.
DisarmFails ==
  /\ Acting("disarm") \/ Acting("fix") \/ Acting("rebase")
  /\ running.armed
  /\ Answer("error")
  /\ auto' \in {auto, [auto EXCEPT ![running.key] = FALSE]}
  /\ UNCHANGED pr /\ EngineUnchanged

ActSettled ==
  /\ Acting("merged") \/ Acting("closed")
  /\ Answer(running.verdict)
  /\ GitHubUnchanged /\ EngineUnchanged

\* Under a local gate nothing arms; evidence the worker owes goes back to it.
ActWaitLocal ==
  /\ Acting("wait") /\ local(running.key)
  /\ \E out \in {"unarmed", "fix"} : Answer(out)
  /\ GitHubUnchanged /\ EngineUnchanged

ActWait ==
  /\ Acting("wait") /\ ~local(running.key)
  /\ \/ running.armed /\ Answer("armed") /\ UNCHANGED auto
     \/ /\ ~running.armed /\ pr[running.key] = "open"
        /\ auto' = [auto EXCEPT ![running.key] = TRUE]
        /\ \/ Answer("armed")
           \/ "lost-arm" \in Events /\ Answer("unarmed")
     \/ ~running.armed /\ (Answer("unarmed") \/ Answer("error")) /\ UNCHANGED auto
  /\ UNCHANGED pr
  /\ EngineUnchanged

\* One PUT pinned to the head: a merge seen, a merge GitHub has not shown yet or
\* whose answer was lost, or none.
ActMerge ==
  /\ Acting("merge")
  /\ \/ /\ pr[running.key] = "open"
        /\ pr' = [pr EXCEPT ![running.key] = "merged"]
        /\ auto' = [auto EXCEPT ![running.key] = FALSE]
        /\ \E out \in {"merged", "uncertain"} : Answer(out)
     \/ /\ \E out \in {"kept", "uncertain", "error"} : Answer(out)
        /\ GitHubUnchanged
  /\ EngineUnchanged

ActCleanup ==
  /\ running # NoCall /\ running.act = "cleanup" /\ running.outcome = "none"
  /\ \/ pr[running.key] = "merged" /\ Answer("applied")
     \/ Answer("failed")
  /\ GitHubUnchanged /\ EngineUnchanged

ActCheckpoint ==
  /\ running # NoCall /\ running.act = "checkpoint" /\ running.outcome = "none"
  /\ Answer("applied") \/ ("snapshot-fails" \in Events /\ Answer("failed"))
  /\ GitHubUnchanged /\ EngineUnchanged

Effect ==
  \/ Assess \/ AssessFails \/ ActDisarm \/ ActFix \/ ActRebase \/ DisarmFails
  \/ ActSettled \/ ActWaitLocal \/ ActWait \/ ActMerge \/ ActCleanup \/ ActCheckpoint

-----------------------------------------------------------------------------
(* Messages the state thread handles once the pump is idle. *)

watched(w, i) ==
  /\ w[i].phase \in {"babysit", "ready"}
  /\ w[i].stage \notin {"cleaning", "merged", "closed"}

\* watch::sync drops a watch nobody waits for, its ETags with it.
Synced(w, read) == [i \in Issue |-> read[i] /\ watched(w, i)]

\* A worker reports; a settled issue has none.
Report(i, phase) ==
  /\ ~pumping
  /\ issue[i].stage # "merged"
  /\ issue' = apply_report(issue, i, local_ready(i, phase))
  /\ seen' = Synced(issue', seen)
  /\ UNCHANGED <<paused, running, pr, auto>>

\* One check of i's PR: what the REST read shows anew, then the babysit tick of
\* an epic that has one, then the queue.
Check(i, next) ==
  LET unread  == pr[i] # "open" /\ ~seen[i]
      changed ==
        CASE unread /\ pr[i] = "merged" -> merged(issue, i)
          [] unread /\ pr[i] = "closed" -> [issue EXCEPT ![i].stage = "closed"]
          [] OTHER -> issue
      ticks   == watched(changed, i) /\ ~local(i)
      decided == IF ticks THEN babysit(changed, i, next) ELSE changed
  IN /\ ~pumping
     /\ watched(issue, i)
     /\ ticks => (next = "merged" <=> pr[i] = "merged")
     /\ ~ticks => next = "keep-going"
     /\ issue' = arm_merge(decided, i)
     /\ seen' = Synced(issue', [seen EXCEPT ![i] = pr[i] # "open"])
     /\ UNCHANGED <<paused, running, pr, auto>>

\* `toolu epic gate --merge --key' tells the engine of its own merge.
EventMerged(i) ==
  /\ ~pumping
  /\ pr[i] = "merged"
  /\ issue' = merged(issue, i)
  /\ UNCHANGED <<paused, running, pr, auto, seen>>

\* The base branch moved: the head is gated again.
BaseMoved(i) ==
  /\ ~pumping
  /\ is_head(issue, paused, i)
  /\ issue' = arm_merge(issue, i)
  /\ UNCHANGED <<paused, running, pr, auto, seen>>

Pause(e) ==
  /\ ~pumping /\ "pause" \in Events
  /\ paused' = paused \cup {e}
  /\ UNCHANGED <<issue, running, pr, auto, seen>>

Resume(e) ==
  /\ ~pumping /\ e \in paused
  /\ paused' = paused \ {e}
  /\ issue' = arm_ready(issue, paused')
  /\ UNCHANGED <<running, pr, auto, seen>>

\* The fixed interval after a failed disarm has passed.
RetryDue(i) ==
  /\ ~pumping
  /\ issue[i].cooling
  /\ issue' = [issue EXCEPT ![i].cooling = FALSE]
  /\ UNCHANGED <<paused, running, pr, auto, seen>>

ArmCheckpoint(i) ==
  /\ ~pumping /\ "checkpoint" \in Events
  /\ \A j \in Issue : issue[j].pending = NoPending
  /\ issue[i].stage = "running"
  /\ issue' = [issue EXCEPT ![i].pending = fresh("checkpoint")]
  /\ UNCHANGED <<paused, running, pr, auto, seen>>

-----------------------------------------------------------------------------
(* GitHub and its users. *)

Settle(i, state) ==
  /\ pr[i] = "open"
  /\ pr' = [pr EXCEPT ![i] = state]
  /\ auto' = [auto EXCEPT ![i] = FALSE]
  /\ UNCHANGED <<issue, paused, running, seen>>

AutoMerge(i) == auto[i] /\ Settle(i, "merged")

MergeElsewhere(i) == "merge" \in Events /\ Settle(i, "merged")

CloseElsewhere(i) == "close" \in Events /\ Settle(i, "closed")

-----------------------------------------------------------------------------
Init ==
  /\ issue = [i \in Issue |->
       [phase |-> "rebasing", stage |-> "running", pending |-> NoPending,
        deferred |-> "none", ahead |-> {}, auto_armed |-> FALSE, disarm_due |-> FALSE,
        cooling |-> FALSE, held |-> FALSE]]
  /\ paused = {}
  /\ running = NoCall
  /\ pr = [i \in Issue |-> "open"]
  /\ auto = [i \in Issue |-> FALSE]
  /\ seen = [i \in Issue |-> FALSE]

Pump == ArmDisarm \/ \E i \in Issue : StartCall(i) \/ WriteDone(i)

Checks(i) == \E next \in {"keep-going", "merge-queue", "prompt", "merged"} : Check(i, next)

GitHub == \E i \in Issue : AutoMerge(i) \/ MergeElsewhere(i) \/ CloseElsewhere(i)

Messages ==
  \/ \E i \in Issue :
       \/ \E phase \in Phase : Report(i, phase)
       \/ Checks(i) \/ EventMerged(i) \/ BaseMoved(i) \/ RetryDue(i) \/ ArmCheckpoint(i)
  \/ \E e \in Epic : Pause(e) \/ Resume(e)

Next == Pump \/ EffectDone \/ Effect \/ Messages \/ GitHub

\* The engine pumps, and its effect ends.  A message waits in the state thread's
\* channel until the pump is idle, so an answer, a check at its fixed slot and a
\* retry are all handled in the end.  GitHub answers a read, and a disarm, once in
\* a while.
Fairness ==
  /\ WF_vars(Pump) /\ WF_vars(Effect)
  /\ SF_vars(Assess) /\ SF_vars(ActDisarm)
  /\ SF_vars(EffectDone)
  /\ \A i \in Issue : SF_vars(Checks(i)) /\ SF_vars(RetryDue(i))

Spec == Init /\ [][Next]_vars

FairSpec == Spec /\ Fairness
-----------------------------------------------------------------------------
(* Safety. *)

\* The step on i's PR armed auto-merge, and its answer is not committed yet.
arming(i) == running # NoCall /\ running.key = i /\ running.outcome = "armed"

\* A PR on which GitHub's auto-merge is armed is either still queued, or its
\* issue is due a disarm, whichever report, finding or hand-off took it out
\* (note_phase, set_armed), or the answer that says so is about to be committed.
ArmedOffQueueIsDue ==
  \A i \in Issue : auto[i] /\ ~queued(issue, i) => issue[i].disarm_due \/ arming(i)

\* Nothing is cleaned up before its PR merged, and only a closed PR closes its
\* issue, whoever saw it: the step's answer, a check, or the gate's event.
CleanedOnlyMerged ==
  \A i \in Issue :
    /\ issue[i].stage \in {"cleaning", "cleanup-incomplete", "merged"} => pr[i] = "merged"
    /\ issue[i].pending.act = "cleanup" => pr[i] = "merged"
    /\ issue[i].stage = "closed" => pr[i] = "closed"

\* The effect's answer is committed against the action it was called for: no
\* message that arrived meanwhile replaced the pending action (merged, hold).
AnswerMatchesPending ==
  running # NoCall =>
    /\ issue[running.key].pending.act = running.act
    /\ ~issue[running.key].pending.applied

\* Auto-merge is disarmed before the engine or the worker pushes to the branch
\* because of the gate's verdict (gate/auto.rs): it cannot merge a half-done fix.
PushesAreUnarmed ==
  running # NoCall /\ running.outcome \in {"fix", "handoff", "rebase-uncertain"}
    => ~auto[running.key]

-----------------------------------------------------------------------------
(* Steps. *)

\* A stage is never taken back: no late message (a check, an event, the answer
\* of a disarm) brings a closed, cleaned or settled issue back to an earlier one.
StageNeverRegresses ==
  [][\A i \in Issue :
       LET stage == issue[i].stage
           next  == issue'[i].stage
       IN stage # next =>
            \/ stage = "running"
            \/ stage = "cleaning" /\ next \in {"cleanup-incomplete", "merged"}]_vars

\* The answer that takes the head out of its queue arms the next head in the same
\* step, unless that one is held: the queue never waits for a slot (arm_ready).
NextHeadArmed ==
  [][\A i, j \in Issue :
       /\ EffectDone /\ running.key = i
       /\ is_head(issue, paused, i) /\ ~is_head(issue', paused, i)
       /\ RepoOf[j] = RepoOf[i] /\ is_head(issue', paused, j)
       => issue'[j].pending # NoPending \/ issue'[j].deferred # "none"]_vars

-----------------------------------------------------------------------------
(* Liveness, of FairSpec. *)

stopped(i) == EpicOf[i] \in paused

\* An auto-merge due a disarm is disarmed, or the issue is queued again: failed
\* disarms are retried, and a step in flight when it fell due does not lose it.
DueIsDisarmed ==
  \A i \in Issue : issue[i].disarm_due ~> ~issue[i].disarm_due \/ stopped(i)

\* A merged PR the engine watches is cleaned up, whichever message told it and
\* whatever step was pending when it came (merge_bridge::merged).
MergedIsCleaned ==
  \A i \in Issue :
    pr[i] = "merged"
      ~> \/ issue[i].stage \in {"cleanup-incomplete", "merged"}
         \/ issue[i].phase = "rebasing" \/ stopped(i)

\* A prompt held during a merge step goes out when the step ends, unless the step
\* merged the PR or left an uncertain push behind.
HeldIsReleased ==
  \A i \in Issue :
    issue[i].held /\ issue[i].pending.act = "merge"
      ~> \/ ~issue[i].held \/ stopped(i)
         \/ issue[i].deferred = "rebase" \/ issue[i].stage # "running"
-----------------------------------------------------------------------------
(* What the repository says and the code does not do. *)

\* cleanup_state::safety finds nothing of i that keeps its epic registered.
cleanup_safe(i) ==
  /\ issue[i].pending = NoPending /\ issue[i].deferred = "none"
  /\ ~issue[i].auto_armed /\ ~issue[i].disarm_due /\ ~issue[i].held
  /\ issue[i].stage \notin {"cleaning", "cleanup-incomplete", "running"}

\* `toolu epic cleanup' unregisters locally finished epics: once an issue is torn
\* down, nothing of it keeps its epic registered for good.
MergedIsRemovable ==
  \A i \in Issue : issue[i].stage = "merged" ~> cleanup_safe(i)

\* "A merge that may have happened, or was refused for another reason, is never
\* resent: the head is held for a human or the PR detector" (commit_queue.rs).
UncertainIsHeld ==
  [][EffectDone /\ running.outcome = "uncertain"
       => issue'[running.key].deferred = "merge"]_vars

=============================================================================
