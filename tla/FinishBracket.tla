---------------------------- MODULE FinishBracket ----------------------------
(***************************************************************************)
(* `toolu epic finish' of one launched issue, against the resident engine    *)
(* (crates/epic-orchestrator).  The CLI tells the engine the finish begins,   *)
(* tears the issue down in its own process, holding the issue's launch lock,  *)
(* and tells it the end.  Meanwhile the engine handles the teardown's own      *)
(* events, the worker's reports and its refreshes, runs a checkpoint, a        *)
(* relaunch or a cleanup on its effect thread, and writes its fields of the    *)
(* same record without the lock.  A CLI may die at any step.                   *)
(*                                                                         *)
(* `issue' is what the engine holds in memory, `record' is issues/<key>.json. *)
(* An operator named <X>_<fault> is X with one plausible fault; no action     *)
(* uses it.                                                                  *)
(***************************************************************************)
EXTENDS Naturals

CONSTANTS
  Finisher,   \* the processes that run `toolu epic finish', each once
  Engine,     \* the effect thread's cleanup, a finish too
  Free,       \* nobody holds the launch lock
  Jammed,     \* the launch lock, or its .reap, is nobody's and never given up
  Events      \* the optional events of the environment that may happen

OptionalEvents ==
  {"report", "refresh", "checkpoint", "gate", "no-capacity", "pane-dies", "cli-dies"}

ASSUME BracketConstants ==
  /\ Engine \notin Finisher
  /\ Free \notin Finisher \cup {Engine}
  /\ Jammed \notin Finisher \cup {Engine, Free}
  /\ Events \subseteq OptionalEvents

VARIABLES
  issue,      \* World.issues[key]
  saving,     \* {}, or {the record} the state thread read to write its fields
  effect,     \* Engine.running: the call of the effect thread, or its outcome
  record,     \* issues/<key>.json
  lock,       \* launch-locks/<key>, a directory that names its holder
  pc,         \* where each finish stands
  copy,       \* the record a teardown or a launch read, and writes whole
  abandon,    \* whether a finish skips the merge check
  previous,   \* the stage `begin' answered
  agent,      \* whether the worker's agent runs
  tree,       \* whether the worktree exists
  branch,     \* whether the local branch exists
  merged      \* whether GitHub merged the PR

thread == <<issue, saving>>
world == <<agent, tree, branch, merged>>
vars == <<issue, saving, effect, record, lock, pc, copy, abandon, previous, world>>

-----------------------------------------------------------------------------
(* State. *)

Worker == Finisher \cup {Engine}

\* "": never launched, or a launch that provably started nothing.
Stage == {"", "starting", "running", "awaiting_merge", "replacing", "uncertain",
          "cleaning", "cleanup-incomplete", "merged", "abandoned"}

Settled == {"merged", "abandoned"}

\* The record: the engine's fields, and a teardown's evidence.
Document ==
  [stage : Stage, relaunch : BOOLEAN, deferred : BOOLEAN,
   intent : BOOLEAN, removed : BOOLEAN, cut : BOOLEAN]

Blank == [stage |-> "", relaunch |-> FALSE, deferred |-> FALSE,
          intent |-> FALSE, removed |-> FALSE, cut |-> FALSE]

\* follow: what a checkpoint arms when it is done.
Issue ==
  [stage : Stage, relaunch : BOOLEAN, deferred : BOOLEAN, launches : 0 .. 2,
   pending : {"none", "checkpoint", "launch", "cleanup"},
   follow : {"none", "launch", "cleanup"}]

\* A call, then its outcome; stage is the record's stage an outcome carries.
Effect ==
  [at : {"none", "checkpoint", "launch", "launching", "cleanup",
         "applied", "wait", "settled", "failed"},
   stage : Stage]

Nothing == [at |-> "none", stage |-> ""]

Returned(at) == [at |-> at, stage |-> ""]

\* idle, told, through the teardown, to what the CLI has left to say.
Step == {"idle", "begun", "owner", "exited", "prepared", "gone", "removed",
         "releasing", "refused", "returned", "ended", "dead"}

\* The steps a finish takes holding the launch lock.
Tearing == {"owner", "exited", "prepared", "gone", "removed"}

Acting == Tearing \cup {"begun", "releasing", "refused", "returned"}

\* acquire_lock: nobody has the launch lock, or who has it is dead; then it is
\* reclaimed by the very call.
obtainable == lock = Free \/ (lock \in Finisher /\ pc[lock] = "dead")

\* The state thread finished its last write.
ready == saving = {}

rank(stage) ==
  CASE stage = "" -> 0
    [] stage = "starting" -> 1
    [] stage = "running" -> 2
    [] stage = "cleaning" -> 3
    [] OTHER -> 4

Init ==
  /\ issue = [stage |-> "running", relaunch |-> FALSE, deferred |-> FALSE,
              launches |-> 0, pending |-> "none", follow |-> "none"]
  /\ saving = {}
  /\ effect = Nothing
  /\ record = [Blank EXCEPT !.stage = "running"]
  /\ lock = Free
  /\ pc = [w \in Worker |-> "idle"]
  /\ copy = [w \in Worker |-> Blank]
  /\ abandon = [w \in Worker |-> FALSE]
  /\ previous = [f \in Finisher |-> ""]
  /\ agent = TRUE /\ tree = TRUE /\ branch = TRUE /\ merged = FALSE

-----------------------------------------------------------------------------
(* The CLI's two messages to the engine, and the refresh that heals. *)

begin(s) == [s EXCEPT !.stage = "cleaning", !.relaunch = FALSE, !.follow = "none"]

\* `toolu epic finish [--abandon]': refused only while the engine cleans up.
Begin(f, skip) ==
  /\ ready
  /\ pc[f] = "idle"
  /\ issue.pending # "cleanup"
  /\ issue' = begin(issue)
  /\ pc' = [pc EXCEPT ![f] = "begun"]
  /\ previous' = [previous EXCEPT ![f] = issue.stage]
  /\ abandon' = [abandon EXCEPT ![f] = skip]
  /\ UNCHANGED <<saving, effect, record, lock, copy, world>>

\* The end adopts the record's stage, without one the stage before the finish.
End(f) ==
  /\ ready
  /\ pc[f] \in {"refused", "returned"}
  /\ issue' = [issue EXCEPT
       !.stage = IF record.stage # "" THEN record.stage ELSE previous[f]]
  /\ pc' = [pc EXCEPT ![f] = "ended"]
  /\ previous' = [previous EXCEPT ![f] = ""]
  /\ UNCHANGED <<saving, effect, record, lock, copy, abandon, world>>

\* load_issue and overlay_stages: the record's fields, and its stage unless
\* the engine's own is further.
overlay(s, doc) ==
  [s EXCEPT !.relaunch = doc.relaunch, !.deferred = doc.deferred,
            !.stage = IF rank(doc.stage) >= rank(@) THEN doc.stage ELSE @]

\* Only a launch nobody confirmed is given back.
stale_unconfirmed(s) ==
  /\ s.stage = "cleaning"
  /\ s.pending = "none"
  /\ record.stage \in {"starting", "uncertain"}
  /\ obtainable

\* A finish that died before it wrote anything left the record live.
stale(s) ==
  /\ s.stage = "cleaning"
  /\ s.pending = "none"
  /\ record.stage \in {"starting", "uncertain", "running"}
  /\ obtainable

heal_cleaning(s) == IF stale(s) THEN [s EXCEPT !.stage = record.stage] ELSE s

\* finish_holds takes the lock it can have, and gives it back.
Refresh ==
  /\ "refresh" \in Events
  /\ ready
  /\ issue' = heal_cleaning(overlay(issue, record))
  /\ lock' = IF stale(overlay(issue, record)) THEN Free ELSE lock
  /\ UNCHANGED <<saving, effect, record, pc, copy, abandon, previous, world>>

\* Who tries while finish_holds has the lock is refused.
probed == "refresh" \in Events /\ stale(issue)

-----------------------------------------------------------------------------
(* The engine's other messages. *)

\* A handler left the issue as s; if it owes a write it has read the record.
Handled(s, owes) ==
  /\ ready
  /\ issue' = s
  /\ saving' = IF owes THEN {record} ELSE {}
  /\ UNCHANGED <<effect, record, lock, pc, copy, abandon, previous, world>>

\* A report adopts a worker whose launch nobody confirmed.
adopts(s) ==
  /\ s.pending # "launch"
  /\ s.stage \in {"", "starting", "uncertain", "replacing"}

adopt(s) == IF adopts(s) THEN [s EXCEPT !.stage = "running"] ELSE s

Report(changed) ==
  /\ "report" \in Events
  /\ agent
  /\ Handled([adopt(issue) EXCEPT !.deferred = @ /\ ~changed],
             changed \/ adopts(issue))

\* The agent's pane or worktree is not there: checkpoint what it left, then
\* launch it again, twice at most.
Gone ==
  /\ ~agent
  /\ issue.stage = "running"
  /\ ~issue.relaunch
  /\ issue.pending = "none" \/ (issue.pending = "checkpoint" /\ issue.follow = "none")
  /\ issue.launches < 2
  /\ Handled([issue EXCEPT !.pending = "checkpoint", !.follow = "launch",
                           !.launches = @ + 1], FALSE)

\* The engine sees that the PR merged.
Merged ==
  /\ merged
  /\ issue.stage \in {"running", "awaiting_merge"}
  /\ issue.pending \in {"none", "checkpoint"}
  /\ LET s == [issue EXCEPT !.stage = "cleaning", !.deferred = FALSE, !.relaunch = FALSE]
     IN  Handled(IF issue.pending = "none" THEN [s EXCEPT !.pending = "cleanup"]
                                           ELSE [s EXCEPT !.follow = "cleanup"], TRUE)

\* The checkpoint wave reaches the issue.
Wave ==
  /\ "checkpoint" \in Events
  /\ issue.stage = "running"
  /\ issue.pending = "none"
  /\ Handled([issue EXCEPT !.pending = "checkpoint"], FALSE)

\* A relaunch that waited for capacity.
Rearm ==
  /\ issue.stage = "running"
  /\ issue.relaunch
  /\ issue.pending = "none"
  /\ ~issue.deferred
  /\ Handled([issue EXCEPT !.pending = "launch"], FALSE)

\* write_issue_fields, the write: the map it read, with the engine's fields; a
\* settled record keeps its stage.  No lock is taken.
engine_fields(doc) ==
  [doc EXCEPT
     !.stage = IF doc.stage \in Settled \/ issue.stage = "" THEN @ ELSE issue.stage,
     !.relaunch = issue.relaunch,
     !.deferred = issue.deferred]

Save ==
  /\ \E doc \in saving : record' = engine_fields(doc)
  /\ saving' = {}
  /\ UNCHANGED <<issue, effect, lock, pc, copy, abandon, previous, world>>

-----------------------------------------------------------------------------
(* The effect thread: a checkpoint, a launch, and the cleanup's beginning.   *)

StartCall ==
  /\ ready
  /\ effect = Nothing
  /\ issue.pending # "none"
  /\ effect' = Returned(issue.pending)
  /\ UNCHANGED <<thread, record, lock, pc, copy, abandon, previous, world>>

CheckpointDone ==
  /\ effect.at = "checkpoint"
  /\ \E at \in {"applied", "failed"} : effect' = Returned(at)
  /\ UNCHANGED <<thread, record, lock, pc, copy, abandon, previous, world>>

\* run and with_launch_ownership: what ends a launch before it begins.
NoLaunch(outcome) ==
  /\ effect.at = "launch"
  /\ effect' = outcome
  /\ UNCHANGED <<thread, record, lock, pc, copy, abandon, previous, world>>

\* The record's stages a launch may start from.
launchable(stage) == stage \in {"", "running", "awaiting_merge"}

LaunchEnds ==
  IF record.stage \in Settled
  THEN NoLaunch([at |-> "settled", stage |-> record.stage])
  ELSE \/ "no-capacity" \in Events /\ NoLaunch(Returned("wait"))
       \/ /\ ~obtainable \/ ~launchable(record.stage)
          /\ NoLaunch([at |-> "failed", stage |-> record.stage])

LaunchBegins_unlocked ==
  /\ effect.at = "launch"
  /\ launchable(record.stage)
  /\ effect' = Returned("launching")
  /\ lock' = Engine
  /\ record' = [record EXCEPT !.stage = "starting"]
  /\ copy' = [copy EXCEPT ![Engine] = record']
  /\ UNCHANGED <<thread, pc, abandon, previous, world>>

\* The reserved attempt is recorded before anything is started.
LaunchBegins ==
  /\ effect.at = "launch"
  /\ obtainable
  /\ launchable(record.stage)
  /\ effect' = Returned("launching")
  /\ lock' = Engine
  /\ record' = [record EXCEPT !.stage = "starting"]
  /\ copy' = [copy EXCEPT ![Engine] = record']
  /\ UNCHANGED <<thread, pc, abandon, previous, world>>

\* The attempt returns: its record is written whole, the lock given back.
LaunchReturns(at, stage) ==
  /\ effect.at = "launching"
  /\ effect' = [at |-> at, stage |-> stage]
  /\ lock' = Free
  /\ record' = [copy[Engine] EXCEPT !.stage = stage]
  /\ copy' = [copy EXCEPT ![Engine] = Blank]
  /\ UNCHANGED <<thread, pc, abandon, previous, merged>>

LaunchStarts ==
  /\ LaunchReturns("applied", "running")
  /\ agent' = TRUE /\ tree' = TRUE /\ branch' = TRUE

\* An uncertain attempt may have started the agent, in its worktree.
LaunchFails ==
  \/ /\ \E stage \in {"", "replacing", "uncertain"} : LaunchReturns("failed", stage)
     /\ UNCHANGED <<agent, tree, branch>>
  \/ /\ LaunchReturns("failed", "uncertain")
     /\ agent' = TRUE /\ tree' = TRUE /\ branch' = TRUE

\* commit_launch, and the done line of an applied launch.
commit_launch(s, out) ==
  LET t == [s EXCEPT !.pending = "none", !.relaunch = FALSE]
  IN  CASE out.at = "applied" -> [t EXCEPT !.stage = "running"]
        [] out.at = "wait" -> [t EXCEPT !.relaunch = s.relaunch \/ s.stage # ""]
        [] out.at = "settled" -> [t EXCEPT !.stage = out.stage]
        [] OTHER -> [t EXCEPT !.deferred = TRUE,
                              !.stage = IF out.stage = "" THEN @ ELSE out.stage]

\* applied and finish_action, or fail_pending, which drops what follows.
commit_checkpoint(s, out) ==
  [s EXCEPT !.pending = IF out.at = "applied" THEN s.follow ELSE "none",
            !.follow = "none"]

commit_cleanup_misspelt(s, out) ==
  [s EXCEPT !.pending = "none",
            !.stage = IF out.at = "applied" THEN "merged" ELSE "cleanup_incomplete"]

commit_cleanup(s, out) ==
  [s EXCEPT !.pending = "none",
            !.stage = IF out.at = "applied" THEN "merged" ELSE "cleanup-incomplete"]

commit_effect(s, out) ==
  CASE s.pending = "launch" -> commit_launch(s, out)
    [] s.pending = "checkpoint" -> commit_checkpoint(s, out)
    [] OTHER -> commit_cleanup(s, out)

\* Whether the commit writes the record.
owes(s, out) ==
  CASE s.pending = "launch" -> out.at \in {"applied", "failed"} \/ (out.at = "wait" /\ s.stage # "")
    [] s.pending = "checkpoint" -> out.at = "applied"
    [] OTHER -> TRUE

EffectDone ==
  /\ ready
  /\ effect.at \in {"applied", "wait", "settled", "failed"}
  /\ issue' = commit_effect(issue, effect)
  /\ saving' = IF owes(issue, effect) THEN {record} ELSE {}
  /\ effect' = Nothing
  /\ UNCHANGED <<record, lock, pc, copy, abandon, previous, world>>

-----------------------------------------------------------------------------
(* The teardown: finish_issue, in a CLI or on the effect thread. *)

due(w) == IF w = Engine THEN pc[w] = "idle" /\ effect.at = "cleanup"
                        ELSE pc[w] = "begun"

terminal == record.stage \in Settled

\* A terminal record that proves its cleanup.
complete ==
  /\ terminal
  /\ record.removed /\ ~tree
  /\ record.stage = "abandoned" \/ record.cut

skips(w) == abandon[w] \/ record.stage = "abandoned"

incomplete(doc) == [doc EXCEPT !.stage = "cleanup-incomplete"]

\* w's finish_issue returned, having left the record as doc: a CLI still has to
\* tell the end, a cleanup answers the state thread.
Return(w, step, doc) ==
  /\ pc' = [pc EXCEPT ![w] = IF w = Engine THEN "idle" ELSE step]
  /\ effect' = IF w # Engine THEN effect
               ELSE Returned(IF doc.stage = "merged" THEN "applied" ELSE "failed")
  /\ copy' = [copy EXCEPT ![w] = Blank]
  /\ abandon' = IF w = Engine THEN [abandon EXCEPT ![w] = FALSE] ELSE abandon
  /\ UNCHANGED <<thread, previous, agent, merged>>

\* The lock is held, or the record is already complete.
Passes(w) ==
  /\ due(w)
  /\ \/ /\ ~obtainable \/ probed
        /\ lock' = lock
        /\ Return(w, "refused", incomplete(record))
     \/ /\ obtainable /\ complete
        /\ lock' = Free
        /\ Return(w, "returned", record)
  /\ UNCHANGED <<record, tree, branch>>

\* precheck: an unproved terminal record is incomplete, whatever follows.
prechecked == IF terminal THEN incomplete(record) ELSE record

Refuse(w) ==
  /\ due(w)
  /\ obtainable
  /\ ~complete
  /\ record.stage = "" \/ ~(skips(w) \/ merged)
  /\ lock' = Free
  /\ record' = prechecked
  /\ Return(w, "refused", prechecked)
  /\ UNCHANGED <<tree, branch>>

\* tear_down's three ways in: after a removal, after its intent, or from a live
\* worktree.
entry(doc) ==
  CASE ~tree /\ doc.removed -> "removed"
    [] ~tree /\ ~doc.removed /\ doc.intent -> "gone"
    [] OTHER -> "owner"

Enter_unchecked(w) ==
  /\ due(w)
  /\ obtainable
  /\ ~complete
  /\ record.stage # ""
  /\ lock' = w
  /\ abandon' = [abandon EXCEPT ![w] = skips(w)]
  /\ record' = prechecked
  /\ copy' = [copy EXCEPT ![w] = prechecked]
  /\ pc' = [pc EXCEPT ![w] = entry(record)]
  /\ UNCHANGED <<thread, effect, previous, world>>

Enter(w) ==
  /\ due(w)
  /\ obtainable
  /\ ~complete
  /\ record.stage # ""
  /\ skips(w) \/ merged
  /\ lock' = w
  /\ abandon' = [abandon EXCEPT ![w] = skips(w)]
  /\ record' = prechecked
  /\ copy' = [copy EXCEPT ![w] = prechecked]
  /\ pc' = [pc EXCEPT ![w] = entry(record)]
  /\ UNCHANGED <<thread, effect, previous, world>>

\* w goes on to step, having written doc.
Advance(w, step, doc) ==
  /\ pc' = [pc EXCEPT ![w] = step]
  /\ copy' = [copy EXCEPT ![w] = doc]
  /\ record' = doc
  /\ UNCHANGED <<thread, effect, lock, abandon, previous, world>>

ExitAgent(w) ==
  /\ pc[w] = "owner"
  /\ pc' = [pc EXCEPT ![w] = "exited"]
  /\ agent' = FALSE
  /\ UNCHANGED <<thread, effect, record, lock, copy, abandon, previous, tree, branch, merged>>

\* The durable boundary before the worktree goes.
WriteIntent(w) ==
  /\ pc[w] = "exited"
  /\ Advance(w, "prepared", [incomplete(copy[w]) EXCEPT !.intent = TRUE])

RemoveTree(w) ==
  /\ pc[w] = "prepared"
  /\ pc' = [pc EXCEPT ![w] = "gone"]
  /\ tree' = FALSE
  /\ UNCHANGED <<thread, effect, record, lock, copy, abandon, previous, agent, branch, merged>>

\* verify_prepared refuses a live agent.
WriteRemoved(w) ==
  /\ pc[w] = "gone"
  /\ ~agent
  /\ Advance(w, "removed", [incomplete(copy[w]) EXCEPT !.removed = TRUE, !.cut = FALSE])

DeleteBranch_abandoned(w) ==
  /\ pc[w] = "removed"
  /\ ~copy[w].cut
  /\ branch' = FALSE
  /\ UNCHANGED <<thread, effect, record, lock, pc, copy, abandon, previous, agent, tree, merged>>

\* An abandoned branch is kept.
DeleteBranch(w) ==
  /\ pc[w] = "removed"
  /\ ~abandon[w] /\ ~copy[w].cut
  /\ branch' = FALSE
  /\ UNCHANGED <<thread, effect, record, lock, pc, copy, abandon, previous, agent, tree, merged>>

\* A worktree that was kept settles an abandoned issue.
settled_kept(w, removed) ==
  [copy[w] EXCEPT
     !.removed = removed,
     !.cut = @ \/ (removed /\ ~abandon[w] /\ ~branch),
     !.stage = CASE abandon[w] -> "abandoned"
                 [] ~abandon[w] /\ removed /\ ~branch -> "merged"
                 [] OTHER -> "cleanup-incomplete"]

\* What is done is merged.
settled_merged(w, removed) ==
  [copy[w] EXCEPT
     !.removed = removed,
     !.cut = @ \/ (removed /\ ~abandon[w] /\ ~branch),
     !.stage = IF removed /\ (abandon[w] \/ ~branch) THEN "merged"
                                                    ELSE "cleanup-incomplete"]

\* settle, of a teardown that removed the worktree or kept it.
settled(w, removed) ==
  LET cut == copy[w].cut \/ (removed /\ ~abandon[w] /\ ~branch)
      done == removed /\ (abandon[w] \/ cut)
  IN  [copy[w] EXCEPT
         !.removed = removed,
         !.cut = cut,
         !.intent = @ /\ ~done,
         !.stage = CASE done /\ abandon[w] -> "abandoned"
                     [] done /\ ~abandon[w] -> "merged"
                     [] OTHER -> "cleanup-incomplete"]

\* The engine outlives its cleanup; a CLI may die in the release of its lock.
GivesBack(w) == lock' = IF w = Engine THEN Free ELSE lock

Settle(w) ==
  /\ pc[w] \in {"prepared", "removed"}
  /\ record' = settled(w, pc[w] = "removed")
  /\ Return(w, "releasing", settled(w, pc[w] = "removed"))
  /\ GivesBack(w)
  /\ UNCHANGED <<tree, branch>>

\* Any other step may fail: the reason is recorded.
TeardownFails(w) ==
  /\ pc[w] \in Tearing \ {"prepared"}
  /\ record' = incomplete(copy[w])
  /\ Return(w, "releasing", incomplete(copy[w]))
  /\ GivesBack(w)
  /\ UNCHANGED <<tree, branch>>

Release(w) ==
  /\ pc[w] = "releasing"
  /\ pc' = [pc EXCEPT ![w] = "returned"]
  /\ lock' = Free
  /\ UNCHANGED <<thread, effect, record, copy, abandon, previous, world>>

\* The cleanup tries again while the agent is still exiting.
Retry ==
  /\ pc[Engine] \in {"owner", "exited"}
  /\ pc' = [pc EXCEPT ![Engine] = "idle"]
  /\ lock' = Free
  /\ record' = incomplete(copy[Engine])
  /\ copy' = [copy EXCEPT ![Engine] = Blank]
  /\ abandon' = [abandon EXCEPT ![Engine] = FALSE]
  /\ UNCHANGED <<thread, effect, previous, world>>

-----------------------------------------------------------------------------
(* The environment. *)

\* The lock when f dies: f may have taken it and written nothing yet; a removal
\* cut short, of its own lock or of a dead holder's, leaves a directory without
\* a name or a .reap.
Left(f) ==
  CASE pc[f] = "begun" /\ obtainable -> {lock, f, Jammed}
    [] pc[f] = "releasing" -> {lock, Jammed}
    [] OTHER -> {lock}

Die(f) ==
  /\ "cli-dies" \in Events
  /\ pc[f] \in Acting
  /\ pc' = [pc EXCEPT ![f] = "dead"]
  /\ lock' \in Left(f)
  /\ copy' = [copy EXCEPT ![f] = Blank]
  /\ previous' = [previous EXCEPT ![f] = ""]
  /\ UNCHANGED <<thread, effect, record, abandon, world>>

PaneDies ==
  /\ "pane-dies" \in Events
  /\ agent' = FALSE
  /\ UNCHANGED <<thread, effect, record, lock, pc, copy, abandon, previous, tree, branch, merged>>

MergePR ==
  /\ merged' = TRUE
  /\ UNCHANGED <<thread, effect, record, lock, pc, copy, abandon, previous, agent, tree, branch>>

\* `toolu epic gate': parks a worker's record, or takes it back, under the lock.
Gate ==
  /\ "gate" \in Events
  /\ obtainable
  /\ lock' = Free
  /\ record.stage \in {"", "running", "awaiting_merge"}
  /\ \E stage \in {"running", "awaiting_merge"} : record' = [record EXCEPT !.stage = stage]
  /\ UNCHANGED <<thread, effect, pc, copy, abandon, previous, world>>

-----------------------------------------------------------------------------
(* The specification. *)

StateThread ==
  \/ Refresh \/ Gone \/ Merged \/ Wave \/ Rearm \/ Save \/ StartCall \/ EffectDone
  \/ \E changed \in BOOLEAN : Report(changed)

EffectThread ==
  CheckpointDone \/ LaunchEnds \/ LaunchBegins \/ LaunchStarts \/ LaunchFails \/ Retry

Finish(w) ==
  \/ Passes(w) \/ Refuse(w) \/ Enter(w) \/ ExitAgent(w) \/ WriteIntent(w)
  \/ RemoveTree(w) \/ WriteRemoved(w) \/ DeleteBranch(w) \/ Settle(w) \/ TeardownFails(w)
  \/ Release(w)

Tell(f) == End(f) \/ \E skip \in BOOLEAN : Begin(f, skip)

Environment == (\E f \in Finisher : Die(f)) \/ PaneDies \/ MergePR \/ Gate

Next ==
  \/ StateThread
  \/ EffectThread
  \/ \E w \in Worker : Finish(w)
  \/ \E f \in Finisher : Tell(f)
  \/ Environment

\* The state thread handles what waits, a CLI that lives goes on, and the
\* engine refreshes now and then.
Fairness ==
  /\ WF_vars(Save)
  /\ WF_vars(EffectDone)
  /\ SF_vars(Refresh)
  /\ \A w \in Worker : WF_vars(Finish(w))
  /\ \A f \in Finisher : SF_vars(End(f))

Spec == Init /\ [][Next]_vars

FairSpec == Spec /\ Fairness
-----------------------------------------------------------------------------
(* Properties. *)

\* Every variable has its type.
TypeOK ==
  /\ issue \in Issue
  /\ saving \in SUBSET Document
  /\ effect \in Effect
  /\ record \in Document
  /\ lock \in Worker \cup {Free, Jammed}
  /\ pc \in [Worker -> Step]
  /\ copy \in [Worker -> Document]
  /\ abandon \in [Worker -> BOOLEAN]
  /\ previous \in [Finisher -> Stage]
  /\ agent \in BOOLEAN /\ tree \in BOOLEAN /\ branch \in BOOLEAN /\ merged \in BOOLEAN

\* Somebody ran `finish --abandon'.
asked == \E f \in Finisher : abandon[f]

\* No worktree is removed unless the PR merged or a person asked for it:
\* require_merged holds whoever tears down, after any death, retry or relaunch.
TornOnlyMergedOrAsked == ~tree => merged \/ asked

\* Abandoned work keeps its branch: delete_branch runs for merged work only,
\* although another finish may take over a half-done teardown.
BranchGoneOnlyMerged == ~branch => merged

\* An agent always has its worktree: no teardown removes it under an agent a
\* relaunch or an uncertain launch started meanwhile.
NoAgentWithoutTree == agent => tree

\* A record says merged or abandoned only of an issue that is torn down, and
\* merged only once its branch is gone, whoever wrote the record last.
SettledIsTorn ==
  record.stage \in Settled =>
    ~tree /\ ~agent /\ (record.stage = "merged" => ~branch)

\* Neither the engine nor the record calls an issue merged whose PR is not.
MergedMeansMerged == record.stage = "merged" \/ issue.stage = "merged" => merged

Live == {"starting", "uncertain", "running"}

\* A finish that is over left the issue `cleaning' and its record live.
stranded ==
  /\ issue.stage = "cleaning" /\ issue.pending = "none"
  /\ record.stage \in Live
  /\ \A w \in Worker : pc[w] \notin Acting

\* heal_cleaning: no issue stays `cleaning' because a finish died before it
\* wrote anything, its lock still in its name, unless a death jammed the lock:
\* finish_holds then answers true for ever.
LostFinishHeals == stranded /\ lock # Jammed ~> ~stranded

=============================================================================
