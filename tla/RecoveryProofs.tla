----------------------------- MODULE RecoveryProofs -----------------------------
(***************************************************************************)
(* The theorems of Recovery, for every set of optional events: types, that     *)
(* no crash and no replay tears down what did not merge, and that no restart    *)
(* starts a second agent.                                                     *)
(***************************************************************************)
EXTENDS Recovery, TLAPS

-----------------------------------------------------------------------------
(* Types. *)

LEMMA FreshType ==
  ASSUME NEW a \in Action
  PROVE  /\ fresh(a) \in Pending
         /\ fresh(a).action = a /\ fresh(a).phase = 0 /\ fresh(a).follow = None
BY DEF fresh, Pending

LEMMA ResumedType ==
  ASSUME NEW a \in Action, NEW n \in {1, 2}
  PROVE  /\ resumed(a, n) \in Pending
         /\ resumed(a, n).action = a /\ resumed(a, n).phase = n
         /\ resumed(a, n).recovered = FALSE /\ resumed(a, n).follow = None
<1>1. n \in 0 .. 2
  OBVIOUS
<1> QED
  BY <1>1 DEF resumed, fresh, Pending

LEMMA ConstantTypes ==
  /\ Blank \in Document /\ Idle \in Call /\ Unloaded \in Issue
  /\ Status \in Step /\ Record \in Step /\ Held \in Step
  /\ \A a \in Action : Kept(a) \in Step
<1>1. Blank \in Document
  BY DEF Blank, Document, Stage, Hold
<1>2. Idle \in Call
  BY <1>1 DEF Idle, Call
<1>3. Unloaded \in Issue
  BY DEF Unloaded, Issue, Phase, Stage, Hold
<1>4. Status \in Step /\ Record \in Step /\ Held \in Step
  BY DEF Status, Record, Held, Step, Action
<1>5. \A a \in Action : Kept(a) \in Step
  BY DEF Kept, Step
<1> QED
  BY <1>1, <1>2, <1>3, <1>4, <1>5

LEMMA ArmMergeType ==
  ASSUME NEW s \in Issue
  PROVE  arm_merge(s) \in Issue
BY FreshType DEF arm_merge, armable, Issue, Action

LEMMA ReportedType ==
  ASSUME NEW s \in Issue, NEW phase \in Phase
  PROVE  reported(s, phase) \in Issue
<1> DEFINE moved == IF adopted(s) THEN [s EXCEPT !.stage = "running"] ELSE s
<1> DEFINE kept == IF s.phase # phase THEN [moved EXCEPT !.deferred = None] ELSE moved
<1>1. moved \in Issue
  BY DEF Issue, Stage
<1>2. kept \in Issue
  BY <1>1 DEF Issue, Hold
<1> HIDE DEF moved, kept
<1>3. noted_phase(kept, phase) \in Issue
  BY <1>2 DEF noted_phase, Issue
<1> QED
  BY <1>3, ArmMergeType DEF reported, moved, kept

LEMMA LoadedType ==
  ASSUME TypeOK
  PROVE  loaded \in Issue
<1>1. loaded_stage \in Stage
  BY DEF TypeOK, loaded_stage, Document, Replay
<1>2. journal.pending \in Action \cup {"owed", None}
  BY DEF TypeOK, Replay
<1>3. \A a \in Action, n \in 0 .. 2 : resumed(a, n) \in Pending
  BY DEF resumed, fresh, Pending
<1>4. \A p \in Pending : [p EXCEPT !.recovered = TRUE] \in Pending
  BY DEF Pending
<1>5. resume \in Pending \cup {None}
  <2>1. CASE journal.pending = None
    BY <2>1, RecoveryConstants DEF resume, unsure
  <2>2. CASE journal.pending # None
    <3>1. journal.pending \in {"owed", "merge", "cleanup", "checkpoint", "launch"}
      BY <1>2, <2>2 DEF Action
    <3>2. fresh("cleanup") \in Pending
      BY FreshType DEF Action
    <3>3. /\ resumed("merge", 1) \in Pending /\ resumed("cleanup", 1) \in Pending
          /\ resumed("checkpoint", 1) \in Pending
          /\ resumed("launch", 1) \in Pending /\ resumed("launch", 2) \in Pending
      BY <1>3 DEF Action
    <3>4. [resumed("merge", 1) EXCEPT !.recovered = TRUE] \in Pending
      BY <1>4, <3>3
    <3> HIDE DEF Pending
    <3> QED
      BY <2>2, <3>1, <3>2, <3>3, <3>4 DEF resume, unsure
  <2> QED
    BY <2>1, <2>2
<1>6. ASSUME NEW p \in Pending
      PROVE  [p EXCEPT !.phase = 2, !.recovered = FALSE] \in Pending
  <2>1. 2 \in 0 .. 2
    OBVIOUS
  <2> QED
    BY <2>1 DEF Pending
<1>7. reconciled(resume) \in Pending \cup {None}
  BY <1>5, <1>6, FreshType DEF reconciled, Action
<1>8. held \in Hold
  BY DEF TypeOK, held, Hold, Replay, Document
<1> QED
  BY <1>1, <1>7, <1>8 DEF TypeOK, loaded, Issue, Document

LEMMA WrittenType ==
  ASSUME TypeOK
  PROVE  written \in Document
BY DEF TypeOK, written, Document, Issue

LEMMA InitType == Init => TypeOK
<1> SUFFICES ASSUME Init PROVE TypeOK
  OBVIOUS
<1>1. journal \in Replay
  BY DEF Init, Replay, Stage
<1>2. status \in Phase
  BY DEF Init, Phase
<1>3. todo \in Seq(Step)
  <2>1. todo = <<>>
    BY DEF Init
  <2> QED
    BY <2>1
<1> QED
  BY <1>1, <1>2, <1>3, ConstantTypes DEF Init, TypeOK

\* The steps of the state thread, none of them an answer.
LEMMA EngineType ==
  ASSUME TypeOK, Crash \/ Restart \/ Pump \/ Message
  PROVE  TypeOK'
<1> USE DEF TypeOK, files, memory, world
<1>1. CASE Crash
  <2>1. todo' \in Seq(Step)
    BY <1>1 DEF Crash
  <2> QED
    BY <1>1, <2>1, ConstantTypes DEF Crash
<1>2. CASE Restart
  BY <1>2, ConstantTypes, LoadedType, ArmMergeType DEF Restart, Action
<1>3. CASE Write
  <2>1. Head(todo) \in Step /\ Tail(todo) \in Seq(Step)
    BY <1>3 DEF Write
  <2>2. noted(journal, Head(todo)) \in Replay
    BY DEF noted, Replay
  <2> QED
    BY <1>3, <2>1, <2>2, WrittenType DEF Write, Issue
<1>4. CASE WriteIntent
  BY <1>4 DEF WriteIntent, pumping, at, intended, Replay, Issue, Pending
<1>5. CASE WriteDone
  <2>1. done(journal) \in Replay
    BY DEF done, finished, Replay, Stage
  <2>2. closed(issue) \in Issue
    BY <1>5, FreshType DEF WriteDone, pumping, at, closed, finished, Issue, Pending, Stage, Action
  <2> QED
    BY <1>5, <2>1, <2>2, ConstantTypes DEF WriteDone
<1>6. CASE StartCall
  <2>1. issue.pending \in Pending
    BY <1>6 DEF StartCall, pumping, at, Issue
  <2>2. (IF issue.pending.recovered THEN "reconcile" ELSE issue.pending.action) \in Working
    BY <2>1 DEF Pending, Action, Working
  <2>3. queued(issue) \in BOOLEAN
    BY DEF queued
  <2> QED
    BY <1>6, <2>2, <2>3, ConstantTypes DEF StartCall, Call
<1>7. CASE ArmDisarm
  BY <1>7, FreshType DEF ArmDisarm, Issue, Action
<1>8. CASE ArmLaunch
  BY <1>8, FreshType DEF ArmLaunch, Issue, Action
<1>9. ASSUME NEW phase \in {"running", "ready"}, Report(phase)
      PROVE  TypeOK'
  <2>1. reported(issue, phase) \in Issue
    BY ReportedType DEF Phase
  <2> QED
    BY <1>9, <2>1, ConstantTypes DEF Report
<1>10. CASE Check
  BY <1>10, ArmMergeType DEF Check
<1>11. CASE Detect
  <2>1. merged(issue) \in Issue
    BY FreshType DEF merged, Issue, Pending, Stage, Hold, Action
  <2> QED
    <3>1. todo' \in Seq(Step)
      BY <1>11, ConstantTypes DEF Detect
    <3> QED
      BY <1>11, <2>1, <3>1 DEF Detect
<1>12. CASE Wave
  BY <1>12, FreshType DEF Wave, Issue, Action
<1>13. CASE Gone
  BY <1>13, FreshType DEF Gone, Issue, Action, Pending
<1> QED
  BY <1>1, <1>2, <1>3, <1>4, <1>5, <1>6, <1>7, <1>8, <1>9, <1>10, <1>11, <1>12, <1>13
     DEF Pump, Message

\* The effect thread, and the environment.
LEMMA EffectType ==
  ASSUME TypeOK, Effect \/ Environment
  PROVE  TypeOK'
<1> USE DEF TypeOK, outside, environment, files, memory, world
<1>1. ASSUME NEW a \in Working \cup Answer, answer(a)
      PROVE  call' \in Call
  BY <1>1, ConstantTypes DEF answer, Call
<1>2. ASSUME NEW step \in Working, reads(step)
      PROVE  call' \in Call
  BY <1>2 DEF reads, Call
<1>3. ASSUME NEW step \in Working, proceeds(step)
      PROVE  call' \in Call
  BY <1>3 DEF proceeds, Call
<1>4. ASSUME NEW copy \in Document, NEW stage \in Stage, persist(copy, stage)
      PROVE  record' \in Document
  BY <1>4 DEF persist, Document
<1>5. call.copy \in Document
  BY DEF Call
<1>6. CASE MergeStep
  BY <1>6, <1>1 DEF MergeStep, Answer
<1>7. CASE Reconcile
  BY <1>7, <1>1 DEF Reconcile, Answer
<1>8. CASE Cleanup
  <2>1. CASE call.at = "cleanup" /\ answer("cleaned") /\ UNCHANGED <<record, agents, tree>>
    BY <1>8, <2>1, <1>1 DEF Cleanup, Answer
  <2>2. CASE reads("torn") /\ agents' = 0 /\ tree' = FALSE /\ UNCHANGED record
    BY <1>8, <2>2, <1>2 DEF Cleanup, Working
  <2>3. CASE answer("cleaned") /\ persist(call.copy, "merged") /\ UNCHANGED <<agents, tree>>
    BY <1>8, <2>3, <1>1, <1>4, <1>5 DEF Cleanup, Answer, Stage
  <2>4. CASE answer("incomplete") /\ persist(call.copy, "cleanup-incomplete")
               /\ UNCHANGED <<agents, tree>>
    BY <1>8, <2>4, <1>1, <1>4, <1>5 DEF Cleanup, Answer, Stage
  <2>5. CASE answer("incomplete") /\ UNCHANGED <<record, agents, tree>>
    BY <1>8, <2>5, <1>1 DEF Cleanup, Answer
  <2> QED
    BY <1>8, <2>1, <2>2, <2>3, <2>4, <2>5 DEF Cleanup
<1>9. CASE Checkpoint
  BY <1>9, <1>1 DEF Checkpoint, Answer
<1>10. CASE LaunchBegins
  BY <1>10, <1>1, <1>2, <1>4 DEF LaunchBegins, Answer, Working, Stage
<1>11. CASE Replaces
  BY <1>11, <1>3, <1>4, <1>5 DEF Replaces, Working, Stage
<1>12. CASE Starts
  BY <1>12, <1>3 DEF Starts, Working
<1>13. CASE Launched
  BY <1>13, <1>1, <1>4, <1>5 DEF Launched, Answer, Stage
<1>14. CASE LaunchFails
  BY <1>14, <1>1, <1>4, <1>5 DEF LaunchFails, Answer, Stage
<1>15. CASE Environment
  <2>1. CASE AutoMerge
    BY <2>1 DEF AutoMerge
  <2>2. CASE MergeElsewhere
    BY <2>2 DEF MergeElsewhere
  <2>3. CASE PaneDies
    BY <2>3 DEF PaneDies
  <2> QED
    BY <1>15, <2>1, <2>2, <2>3 DEF Environment
<1> QED
  BY <1>6, <1>7, <1>8, <1>9, <1>10, <1>11, <1>12, <1>13, <1>14, <1>15 DEF Effect

-----------------------------------------------------------------------------
(* The action in flight. *)

\* The action a call, or its answer, belongs to.
Kind(a) ==
  IF a \in {"cleanup", "torn", "cleaned", "incomplete"} THEN "cleanup"
  ELSE IF a \in {"checkpoint", "snapped", "no snapshot"} THEN "checkpoint"
  ELSE IF a \in {"launch", "replacing", "starting", "started", "launched", "not launched"}
       THEN "launch"
  ELSE "merge"

\* A call runs, or its answer waits, for the pending action.
OneAction ==
  call.at # "none" =>
    up /\ issue.pending # None /\ issue.pending.phase = 1
       /\ issue.pending.action = Kind(call.at)

\* Only a merge is recovered by asking GitHub.
Recovered ==
  issue.pending # None /\ issue.pending.recovered => issue.pending.action = "merge"

\* No line that ends an action is among the steps.
Quiet(steps) == \A n \in 1 .. Len(steps) : steps[n].write \notin {"kept", "held"}

\* The journal's open intent is the pending action's, and a line that ends an
\* action outside the pump is written when none is pending.
Intent ==
  /\ issue.pending # None /\ issue.pending.phase # 0 => journal.pending = issue.pending.action
  /\ issue.pending # None => Quiet(todo)

\* No teardown in an issue: neither its stage nor its pending action is one.
CleanIssue(s) ==
  /\ s.stage \notin Torn
  /\ s.pending # None =>
       /\ s.pending.action # "cleanup" /\ s.pending.follow # "cleanup"
       /\ ~(s.pending.action = "merge" /\ s.pending.phase = 2)

CleanFiles ==
  /\ record.stage \notin Torn /\ journal.stage \notin Torn
  /\ journal.pending \notin {"cleanup", "owed"}

CleanCall ==
  /\ call.copy.stage \notin Torn
  /\ call.at \notin {"cleanup", "torn", "merged", "is merged", "cleaned", "incomplete"}

\* What a teardown needs is nowhere while the PR is open: not in the issue, not
\* in the files, not in an answer.
Clean == CleanIssue(issue) /\ CleanFiles /\ CleanCall

OnlyMerged == pr = "open" => Clean

\* An agent is started only after the last one was stopped, or before the record
\* of the issue ever had a stage, and the record has one from before it starts.
Agents ==
  /\ agents \in {0, 1}
  /\ call.at = "starting" \/ record.stage = "" => agents = 0
  /\ call.at \in {"replacing", "starting", "started"} => record.stage # ""

\* What an answer commits to.
LEMMA CommitsType ==
  ASSUME TypeOK, NEW a, NEW s \in Issue, NEW steps \in Seq(Step), Commits(a, s, steps),
         doubt' \in BOOLEAN
  PROVE  TypeOK'
BY ConstantTypes DEF TypeOK, Commits, files, world

LEMMA AppliedType ==
  ASSUME NEW s \in Issue, s.pending \in Pending, NEW stage \in Stage
  PROVE  /\ applied(s, stage) \in Issue
         /\ [s EXCEPT !.pending.phase = 2] \in Issue
         /\ [s EXCEPT !.pending = [@ EXCEPT !.phase = 2, !.recovered = FALSE],
                      !.stage = stage] \in Issue
         /\ [s EXCEPT !.pending.recovered = FALSE] \in Issue
<1>1. 2 \in 0 .. 2
  OBVIOUS
<1>2. /\ [s.pending EXCEPT !.phase = 2] \in Pending
      /\ [s.pending EXCEPT !.phase = 2, !.recovered = FALSE] \in Pending
      /\ [s.pending EXCEPT !.recovered = FALSE] \in Pending
  BY <1>1 DEF Pending
<1> HIDE DEF Pending
<1> QED
  BY <1>2 DEF applied, Issue

LEMMA OpenType ==
  ASSUME NEW s \in Issue
  PROVE  /\ open(s) \in Issue
         /\ \A on \in BOOLEAN : set_armed(open(s), on) \in Issue
         /\ noting(s) \in Seq(Step)
<1>1. open(s) \in Issue
  BY DEF open, Issue
<1>2. ASSUME NEW on \in BOOLEAN PROVE set_armed(open(s), on) \in Issue
  BY <1>1 DEF set_armed, Issue
<1>3. noting(s) \in Seq(Step)
  BY ConstantTypes DEF noting
<1> QED
  BY <1>1, <1>2, <1>3

LEMMA AnswerType ==
  ASSUME TypeOK, OneAction, EffectDone
  PROVE  TypeOK'
<1>1. call.at \in Answer
  BY DEF EffectDone, CommitMerged, CommitWaiting, CommitKept, CommitFix, CommitUncertain,
         CommitDisarmed, CommitReconcile, CommitCleanup, CommitCheckpoint, CommitLaunch,
         Commits, Answer
<1>2. issue.pending \in Pending /\ issue \in Issue
  BY <1>1 DEF OneAction, TypeOK, Issue, Answer
<1>3. doubt' \in BOOLEAN
  BY DEF TypeOK, EffectDone, CommitMerged, CommitWaiting, CommitKept, CommitFix, CommitUncertain,
         CommitDisarmed, CommitReconcile, CommitCleanup, CommitCheckpoint, CommitLaunch
<1>4. Kept("merge") \in Step /\ Kept("launch") \in Step
  BY ConstantTypes DEF Action
<1>5. /\ <<Kept("merge")>> \in Seq(Step) /\ <<Record>> \in Seq(Step)
      /\ <<Kept("merge"), Record>> \in Seq(Step) /\ <<Held, Record>> \in Seq(Step)
      /\ <<Record, Kept("launch")>> \in Seq(Step) /\ <<Status, Record>> \in Seq(Step)
      /\ <<>> \in Seq(Step)
  BY <1>4, ConstantTypes
<1>6. open(issue) \in Issue
  BY <1>2, OpenType
<1>7. CASE CommitMerged
  <2>1. applied(issue, "cleaning") \in Issue
    BY <1>2, AppliedType DEF Stage
  <2>2. Commits("merged", applied(issue, "cleaning"), <<Record>>)
    BY <1>7 DEF CommitMerged
  <2> QED
    BY <1>3, <1>5, <2>1, <2>2, CommitsType
<1>8. CASE CommitWaiting
  <2>1. PICK w \in {"waiting", "unarmed"} :
          Commits(w, set_armed(open(issue), w = "waiting"),
                  <<Kept("merge")>> \o noting(set_armed(open(issue), w = "waiting")))
    BY <1>8 DEF CommitWaiting
  <2> DEFINE new == set_armed(open(issue), w = "waiting")
  <2>2. new \in Issue
    BY <1>2, OpenType
  <2> HIDE DEF new
  <2>3. <<Kept("merge")>> \o noting(new) \in Seq(Step)
    BY <1>5, <2>2, OpenType
  <2>4. Commits(w, new, <<Kept("merge")>> \o noting(new))
    BY <2>1 DEF new
  <2> QED
    BY <1>3, <2>2, <2>3, <2>4, CommitsType
<1>9. CASE CommitKept
  <2>1. PICK a \in {"kept", "error"} : Commits(a, open(issue), <<Kept("merge")>>)
    BY <1>9 DEF CommitKept
  <2> QED
    BY <1>3, <1>5, <1>6, <2>1, CommitsType
<1>10. CASE CommitFix
  <2> DEFINE off == set_armed(open(issue), FALSE)
  <2> DEFINE new == [noted_phase(off, "running") EXCEPT !.deferred = None]
  <2> DEFINE steps == <<Kept("merge")>> \o noting(off) \o <<Status, Record>>
  <2>1. Commits("fix", new, steps)
    BY <1>10 DEF CommitFix
  <2>2. off \in Issue
    BY <1>2, OpenType
  <2> HIDE DEF off
  <2>3. noted_phase(off, "running") \in Issue
    BY <2>2 DEF noted_phase, Issue, Phase
  <2>4. new \in Issue
    BY <2>3 DEF Issue, Hold
  <2>5. steps \in Seq(Step)
    BY <1>5, <2>2, OpenType
  <2> HIDE DEF new, steps
  <2> QED
    BY <1>3, <2>1, <2>4, <2>5, CommitsType
<1>11. CASE CommitUncertain
  <2>1. [open(issue) EXCEPT !.deferred = "merge"] \in Issue
    BY <1>6 DEF Issue, Hold
  <2>2. Commits("uncertain", [open(issue) EXCEPT !.deferred = "merge"], <<Held, Record>>)
    BY <1>11 DEF CommitUncertain
  <2> QED
    BY <1>3, <1>5, <2>1, <2>2, CommitsType
<1>12. CASE CommitDisarmed
  <2>1. [open(issue) EXCEPT !.armed = FALSE, !.due = FALSE] \in Issue
    BY <1>6 DEF Issue
  <2>2. Commits("disarmed", [open(issue) EXCEPT !.armed = FALSE, !.due = FALSE],
                <<Kept("merge"), Record>>)
    BY <1>12 DEF CommitDisarmed
  <2> QED
    BY <1>3, <1>5, <2>1, <2>2, CommitsType
<1>13. CASE CommitReconcile
  <2> DEFINE stage == IF issue.stage = "merged" THEN issue.stage ELSE "cleaning"
  <2> DEFINE new == [issue EXCEPT !.pending = [@ EXCEPT !.phase = 2, !.recovered = FALSE],
                                  !.stage = stage]
  <2>1. stage \in Stage
    BY DEF Stage
  <2>2. CASE Commits("is merged", new, <<Record>>)
    <3> HIDE DEF stage
    <3>1. new \in Issue
      BY <1>2, <2>1, AppliedType
    <3> HIDE DEF new
    <3> QED
      BY <1>3, <1>5, <2>2, <3>1, CommitsType
  <2>3. CASE Commits("is open", [issue EXCEPT !.pending.recovered = FALSE], <<>>)
    <3>1. [issue EXCEPT !.pending.recovered = FALSE] \in Issue
      BY <1>2, <2>1, AppliedType
    <3> QED
      BY <1>3, <1>5, <2>3, <3>1, CommitsType
  <2>4. CASE Commits("is unknown", open(issue), <<>>)
    BY <1>3, <1>5, <1>6, <2>4, CommitsType
  <2> QED
    BY <1>13, <2>2, <2>3, <2>4 DEF CommitReconcile
<1>14. CASE CommitCleanup
  <2>1. CASE Commits("cleaned", [issue EXCEPT !.pending.phase = 2], <<Record>>)
    <3>1. [issue EXCEPT !.pending.phase = 2] \in Issue
      BY <1>2, AppliedType DEF Stage
    <3> QED
      BY <1>3, <1>5, <2>1, <3>1, CommitsType
  <2>2. CASE Commits("incomplete", [open(issue) EXCEPT !.stage = "cleanup-incomplete"],
                     <<Record>>)
    <3>1. [open(issue) EXCEPT !.stage = "cleanup-incomplete"] \in Issue
      BY <1>6 DEF Issue, Stage
    <3> QED
      BY <1>3, <1>5, <2>2, <3>1, CommitsType
  <2> QED
    BY <1>14, <2>1, <2>2 DEF CommitCleanup
<1>15. CASE CommitCheckpoint
  <2>1. CASE Commits("snapped", [issue EXCEPT !.pending.phase = 2], <<Record>>)
    <3>1. [issue EXCEPT !.pending.phase = 2] \in Issue
      BY <1>2, AppliedType DEF Stage
    <3> QED
      BY <1>3, <1>5, <2>1, <3>1, CommitsType
  <2>2. CASE Commits("no snapshot", open(issue), <<>>)
    BY <1>3, <1>5, <1>6, <2>2, CommitsType
  <2> QED
    BY <1>15, <2>1, <2>2 DEF CommitCheckpoint
<1>16. CASE CommitLaunch
  <2>1. CASE Commits("launched", applied(issue, "running"), <<Record>>)
    <3>1. applied(issue, "running") \in Issue
      BY <1>2, AppliedType DEF Stage
    <3> QED
      BY <1>3, <1>5, <2>1, <3>1, CommitsType
  <2> DEFINE stage == IF record.stage = "" THEN open(issue).stage ELSE record.stage
  <2> DEFINE new == [open(issue) EXCEPT !.deferred = "launch", !.stage = stage]
  <2>2. CASE Commits("not launched", new, <<Record, Kept("launch")>>)
    <3>1. stage \in Stage
      BY <1>6 DEF TypeOK, Document, Issue
    <3> HIDE DEF stage
    <3>2. new \in Issue
      BY <1>6, <3>1 DEF Issue, Hold
    <3> HIDE DEF new
    <3> QED
      BY <1>3, <1>5, <2>2, <3>2, CommitsType
  <2> QED
    BY <1>16, <2>1, <2>2 DEF CommitLaunch
<1> QED
  BY <1>7, <1>8, <1>9, <1>10, <1>11, <1>12, <1>13, <1>14, <1>15, <1>16 DEF EffectDone

\* A report leaves the action in flight alone.
LEMMA ReportedPending ==
  ASSUME NEW s \in Issue, NEW phase \in Phase, s.pending # None
  PROVE  reported(s, phase).pending = s.pending
<1> DEFINE moved == IF adopted(s) THEN [s EXCEPT !.stage = "running"] ELSE s
<1> DEFINE kept == IF s.phase # phase THEN [moved EXCEPT !.deferred = None] ELSE moved
<1>1. moved \in Issue /\ moved.pending = s.pending
  BY DEF Issue, Stage
<1>2. kept \in Issue /\ kept.pending = s.pending
  BY <1>1 DEF Issue, Hold
<1> HIDE DEF moved, kept
<1>3. noted_phase(kept, phase) \in Issue /\ noted_phase(kept, phase).pending = s.pending
  BY <1>2 DEF noted_phase, Issue
<1> QED
  BY <1>3 DEF reported, moved, kept, arm_merge, armable

LEMMA ReportedNone ==
  ASSUME NEW s \in Issue, NEW phase \in Phase, s.pending = None
  PROVE  reported(s, phase).pending \in {None, fresh("merge")}
<1> DEFINE moved == IF adopted(s) THEN [s EXCEPT !.stage = "running"] ELSE s
<1> DEFINE kept == IF s.phase # phase THEN [moved EXCEPT !.deferred = None] ELSE moved
<1>1. moved \in Issue /\ moved.pending = None
  BY DEF Issue, Stage
<1>2. kept \in Issue /\ kept.pending = None
  BY <1>1 DEF Issue, Hold
<1> HIDE DEF moved, kept
<1>3. noted_phase(kept, phase) \in Issue /\ noted_phase(kept, phase).pending = None
  BY <1>2 DEF noted_phase, Issue
<1> DEFINE new == noted_phase(kept, phase)
<1>4. arm_merge(new).pending \in {None, fresh("merge")}
  BY <1>3 DEF arm_merge, Issue
<1> QED
  BY <1>3, <1>4 DEF reported, moved, kept

\* The effect thread leaves the state thread's part alone.
LEMMA EffectKeeps ==
  ASSUME Effect
  PROVE  UNCHANGED <<journal, status, up, issue, todo, doubt>>
<1>1. UNCHANGED outside
  BY DEF Effect, MergeStep, Reconcile, Cleanup, Checkpoint, LaunchBegins, Replaces, Starts,
         Launched, LaunchFails
<1> QED
  BY <1>1 DEF outside

\* A call goes on with the action it was started for.
LEMMA EffectKind ==
  ASSUME TypeOK, Effect
  PROVE  call.at # "none" /\ Kind(call'.at) = Kind(call.at)
<1> USE DEF Kind
<1>0. /\ \A a : answer(a) => call'.at = a
      /\ \A step : reads(step) \/ proceeds(step) => call'.at = step
  <2>1. ASSUME NEW a, answer(a) PROVE call'.at = a
    BY <2>1 DEF answer
  <2>2. ASSUME NEW step, reads(step) \/ proceeds(step) PROVE call'.at = step
    BY <2>2 DEF TypeOK, Call, reads, proceeds
  <2> QED
    BY <2>1, <2>2
<1>1. CASE MergeStep
  <2>1. call.at = "merge"
    BY <1>1 DEF MergeStep
  <2>2. PICK a \in {"merged", "waiting", "unarmed", "kept", "fix", "uncertain", "disarmed",
                    "error"} : answer(a)
    BY <1>1 DEF MergeStep
  <2> QED
    BY <1>0, <2>1, <2>2
<1>2. CASE Reconcile
  <2>1. call.at = "reconcile"
    BY <1>2 DEF Reconcile
  <2>2. PICK a \in {"is merged", "is open", "is unknown"} : answer(a)
    BY <1>2 DEF Reconcile
  <2> QED
    BY <1>0, <2>1, <2>2
<1>3. CASE Cleanup
  <2>1. call.at \in {"cleanup", "torn"}
    BY <1>3 DEF Cleanup
  <2>2. (\E a \in {"cleaned", "incomplete"} : answer(a)) \/ reads("torn")
    BY <1>3 DEF Cleanup
  <2>3. call'.at \in {"cleaned", "incomplete", "torn"}
    BY <1>0, <2>2
  <2> QED
    BY <2>1, <2>3
<1>4. CASE Checkpoint
  <2>1. call.at = "checkpoint" /\ (answer("snapped") \/ answer("no snapshot"))
    BY <1>4 DEF Checkpoint
  <2> QED
    BY <1>0, <2>1
<1>5. CASE LaunchBegins
  <2>1. call.at = "launch"
    BY <1>5 DEF LaunchBegins
  <2>2. answer("not launched") \/ reads("starting") \/ reads("replacing")
    BY <1>5 DEF LaunchBegins
  <2>3. call'.at \in {"not launched", "starting", "replacing"}
    BY <1>0, <2>2
  <2> QED
    BY <2>1, <2>3
<1>6. CASE Replaces \/ Starts
  <2>1. call.at \in {"replacing", "starting"} /\ (proceeds("starting") \/ proceeds("started"))
    BY <1>6 DEF Replaces, Starts
  <2>2. call'.at \in {"starting", "started"}
    BY <1>0, <2>1
  <2> QED
    BY <1>0, <2>1, <2>2
<1>7. CASE Launched \/ LaunchFails
  <2>1. /\ call.at \in {"replacing", "starting", "started"}
        /\ answer("launched") \/ answer("not launched")
    BY <1>7 DEF Launched, LaunchFails
  <2> QED
    BY <1>0, <2>1
<1> QED
  BY <1>1, <1>2, <1>3, <1>4, <1>5, <1>6, <1>7 DEF Effect

LEMMA OneActionStep ==
  ASSUME TypeOK, OneAction, Recovered, Next
  PROVE  OneAction'
<1> USE DEF OneAction
<1>1. CASE Crash \/ EffectDone
  <2>1. call' = Idle
    BY <1>1 DEF Crash, EffectDone, CommitMerged, CommitWaiting, CommitKept, CommitFix,
                CommitUncertain, CommitDisarmed, CommitReconcile, CommitCleanup,
                CommitCheckpoint, CommitLaunch, Commits
  <2> QED
    BY <2>1 DEF Idle
<1>2. CASE Restart
  BY <1>2 DEF Restart
<1>3. CASE Pump
  <2>1. CASE Write
    BY <2>1 DEF Write
  <2>2. CASE WriteIntent \/ WriteDone
    <3>1. call.at = "none" /\ UNCHANGED call
      BY <2>2 DEF WriteIntent, WriteDone, pumping, at
    <3> QED
      BY <3>1
  <2>3. CASE StartCall
    <3>1. issue.pending \in Pending /\ issue.pending # None /\ issue.pending.phase = 1 /\ up
      BY <2>3 DEF StartCall, pumping, at, TypeOK, Issue
    <3>2. call'.at = IF issue.pending.recovered THEN "reconcile" ELSE issue.pending.action
      BY <2>3 DEF StartCall
    <3>3. issue.pending.recovered => issue.pending.action = "merge"
      BY <3>1 DEF Recovered
    <3>4. Kind(call'.at) = issue.pending.action
      BY <3>1, <3>2, <3>3 DEF Kind, Pending, Action
    <3> QED
      BY <2>3, <3>1, <3>4 DEF StartCall
  <2> QED
    BY <1>3, <2>1, <2>2, <2>3 DEF Pump
<1>4. CASE ArmDisarm \/ ArmLaunch \/ Check \/ Wave
  BY <1>4 DEF ArmDisarm, ArmLaunch, Check, Wave, armable
<1>5. CASE Detect
  <2>1. CASE call.at = "none"
    BY <1>5, <2>1 DEF Detect
  <2>2. CASE call.at # "none"
    <3>1. issue \in Issue /\ issue.pending \in Pending
      BY <2>2 DEF TypeOK, Issue
    <3>2. issue'.pending = [issue.pending EXCEPT !.follow = "cleanup"]
      BY <1>5, <2>2, <3>1 DEF Detect, merged, Issue
    <3> QED
      BY <1>5, <2>2, <3>1, <3>2, NoneIsNoAction DEF Detect, Pending
  <2> QED
    BY <2>1, <2>2
<1>6. CASE Gone
  <2>1. CASE call.at = "none"
    BY <1>6, <2>1 DEF Gone
  <2>2. CASE call.at # "none"
    <3>1. issue \in Issue /\ issue.pending \in Pending
      BY <2>2 DEF TypeOK, Issue
    <3>2. issue'.pending = [issue.pending EXCEPT !.follow = "launch"]
      BY <1>6, <2>2, <3>1 DEF Gone, Issue
    <3> QED
      BY <1>6, <2>2, <3>1, <3>2, NoneIsNoAction DEF Gone, Pending
  <2> QED
    BY <2>1, <2>2
<1>7. ASSUME NEW phase \in {"running", "ready"}, Report(phase)
      PROVE  OneAction'
  BY <1>7, ReportedPending DEF Report, TypeOK, Phase
<1>8. CASE Effect
  <2>1. UNCHANGED <<issue, up>>
    BY <1>8, EffectKeeps
  <2>2. call.at # "none" /\ Kind(call'.at) = Kind(call.at)
    BY <1>8, EffectKind
  <2> QED
    BY <2>1, <2>2
<1>9. CASE Environment
  BY <1>9 DEF Environment, AutoMerge, MergeElsewhere, PaneDies, environment, memory
<1> QED
  BY <1>1, <1>2, <1>3, <1>4, <1>5, <1>6, <1>7, <1>8, <1>9 DEF Next, Message

-----------------------------------------------------------------------------
(* The journal's intent. *)

LEMMA QuietSteps ==
  /\ Quiet(<<>>) /\ Quiet(<<Record>>) /\ Quiet(<<Status>>) /\ Quiet(<<Status, Record>>)
BY DEF Quiet, Record, Status

\* What a restart takes up is what the journal says, and nothing when a line is owed.
LEMMA LoadedIntent ==
  ASSUME TypeOK
  PROVE  LET s == arm_merge(loaded) IN
           /\ s.pending # None /\ s.pending.phase # 0 => journal.pending = s.pending.action
           /\ s.pending # None /\ s.pending.recovered => s.pending.action = "merge"
           /\ unsure => s.pending = None
<1> DEFINE p == reconciled(resume)
<1>1. loaded \in Issue /\ loaded.pending = p /\ loaded.stage = loaded_stage
  BY LoadedType DEF loaded
<1>2. journal.pending \in Action \cup {"owed", None}
  BY DEF TypeOK, Replay
<1>3. \/ resume = None
      \/ /\ resume \in Pending
         /\ resume.phase = 0 /\ ~resume.recovered
      \/ /\ resume \in Pending
         /\ resume.phase # 0 /\ resume.action = journal.pending
         /\ resume.recovered => resume.action = "merge"
  <2>1. CASE journal.pending = None
    BY <2>1, RecoveryConstants DEF resume, unsure
  <2>2. CASE journal.pending = "owed"
    BY <2>2, RecoveryConstants DEF resume, unsure, fresh, Pending, Action
  <2>3. CASE journal.pending = "merge"
    <3> DEFINE r == resumed("merge", 1)
    <3>1. resume = [r EXCEPT !.recovered = TRUE]
      BY <2>3, RecoveryConstants DEF resume, unsure
    <3>2. "merge" \in Action
      BY DEF Action
    <3>3. r \in Pending /\ r.action = "merge" /\ r.phase = 1
      BY <3>2, ResumedType
    <3> HIDE DEF r
    <3>4. /\ resume \in Pending /\ resume.action = "merge" /\ resume.phase = 1
      BY <3>1, <3>3 DEF Pending
    <3> QED
      BY <2>3, <3>4
  <2>4. CASE journal.pending = "launch"
    <3>1. CASE unsure
      BY <2>4, <3>1, RecoveryConstants DEF resume, unsure
    <3>2. CASE ~unsure
      <4>1. PICK n \in {1, 2} : resume = resumed("launch", n)
        BY <2>4, <3>2, RecoveryConstants DEF resume, unsure
      <4>2. "launch" \in Action
        BY DEF Action
      <4>3. /\ resumed("launch", n) \in Pending /\ resumed("launch", n).action = "launch"
            /\ resumed("launch", n).phase = n /\ resumed("launch", n).recovered = FALSE
        BY <4>2, ResumedType
      <4> QED
        BY <2>4, <4>1, <4>3
    <3> QED
      BY <3>1, <3>2
  <2>5. CASE journal.pending \in {"cleanup", "checkpoint"}
    <3>1. resume = resumed(journal.pending, 1)
      BY <2>5, RecoveryConstants DEF resume, unsure
    <3>2. journal.pending \in Action
      BY <2>5 DEF Action
    <3>3. /\ resume \in Pending /\ resume.action = journal.pending
          /\ resume.phase = 1 /\ resume.recovered = FALSE
      BY <3>1, <3>2, ResumedType
    <3> QED
      BY <3>3
  <2> QED
    BY <1>2, <2>1, <2>2, <2>3, <2>4, <2>5 DEF Action
<1>4. unsure => p = None
  BY RecoveryConstants DEF unsure, resume, reconciled, Unsure
<1>5. /\ p # None /\ p.phase # 0 => journal.pending = p.action
      /\ p # None /\ p.recovered => p.action = "merge"
  <2>1. CASE loaded_stage # "cleaning"
    BY <1>3, <2>1 DEF reconciled
  <2>2. CASE loaded_stage = "cleaning" /\ resume = None
    BY <2>2 DEF reconciled, fresh
  <2>3. CASE loaded_stage = "cleaning" /\ resume # None
    <3>1. CASE resume.action = "merge"
      <4>1. p = [resume EXCEPT !.phase = 2, !.recovered = FALSE]
        BY <2>3, <3>1 DEF reconciled
      <4>2. journal.pending = "merge"
        BY <1>2, <2>3, <3>1, RecoveryConstants
           DEF resume, unsure, resumed, fresh, Action
      <4> QED
        BY <1>3, <2>3, <3>1, <4>1, <4>2 DEF Pending
    <3>2. CASE resume.action # "merge"
      BY <1>3, <2>3, <3>2 DEF reconciled
    <3> QED
      BY <3>1, <3>2
  <2> QED
    BY <2>1, <2>2, <2>3
<1> HIDE DEF p
<1>6. CASE armable(loaded)
  <2>1. arm_merge(loaded).pending = fresh("merge")
    BY <1>1, <1>6 DEF arm_merge, Issue
  <2>2. ~unsure
    BY <1>1, <1>6 DEF armable, queued, unsure, Unsure
  <2> QED
    BY <2>1, <2>2 DEF fresh
<1>7. CASE ~armable(loaded)
  BY <1>1, <1>4, <1>5, <1>7 DEF arm_merge
<1> QED
  BY <1>6, <1>7

\* An answer closes its action: it is done, dropped, or a recovered one goes on.
LEMMA AnswerPending ==
  ASSUME TypeOK, OneAction, EffectDone
  PROVE  /\ issue.pending \in Pending /\ issue.pending # None /\ issue.pending.phase = 1
         /\ UNCHANGED journal
         /\ \/ issue'.pending = None
            \/ /\ issue'.pending \in Pending /\ Quiet(todo')
               /\ issue'.pending.action = issue.pending.action
               /\ issue'.pending.follow = issue.pending.follow
               /\ issue'.pending.recovered => issue.pending.recovered
<1>1. call.at \in Answer
  BY DEF EffectDone, CommitMerged, CommitWaiting, CommitKept, CommitFix, CommitUncertain,
         CommitDisarmed, CommitReconcile, CommitCleanup, CommitCheckpoint, CommitLaunch,
         Commits, Answer
<1>2. /\ issue \in Issue /\ issue.pending \in Pending
      /\ issue.pending # None /\ issue.pending.phase = 1
  BY <1>1 DEF OneAction, TypeOK, Issue, Answer
<1>3. UNCHANGED files
  BY DEF EffectDone, CommitMerged, CommitWaiting, CommitKept, CommitFix, CommitUncertain,
         CommitDisarmed, CommitReconcile, CommitCleanup, CommitCheckpoint, CommitLaunch,
         Commits
<1>4. open(issue) \in Issue /\ open(issue).pending = None
  BY <1>2, OpenType DEF open, Issue
<1>5. ASSUME NEW stage \in Stage
      PROVE  /\ applied(issue, stage).pending = [issue.pending EXCEPT !.phase = 2]
             /\ [issue EXCEPT !.pending.phase = 2].pending
                  = [issue.pending EXCEPT !.phase = 2]
             /\ [issue EXCEPT !.pending = [@ EXCEPT !.phase = 2, !.recovered = FALSE],
                              !.stage = stage].pending
                  = [issue.pending EXCEPT !.phase = 2, !.recovered = FALSE]
             /\ [issue EXCEPT !.pending.recovered = FALSE].pending
                  = [issue.pending EXCEPT !.recovered = FALSE]
  BY <1>2 DEF applied, Issue
<1>6. ASSUME NEW p \in {[issue.pending EXCEPT !.phase = 2],
                        [issue.pending EXCEPT !.phase = 2, !.recovered = FALSE],
                        [issue.pending EXCEPT !.recovered = FALSE]}
      PROVE  /\ p \in Pending /\ p.action = issue.pending.action
             /\ p.follow = issue.pending.follow
             /\ p.recovered => issue.pending.recovered
  <2>1. 2 \in 0 .. 2
    OBVIOUS
  <2> QED
    BY <1>2, <2>1 DEF Pending
<1> DEFINE Goes == /\ issue'.pending \in {[issue.pending EXCEPT !.phase = 2],
                        [issue.pending EXCEPT !.phase = 2, !.recovered = FALSE],
                        [issue.pending EXCEPT !.recovered = FALSE]}
                   /\ Quiet(todo')
<1>7. CASE CommitMerged
  <2>1. issue' = applied(issue, "cleaning") /\ todo' = <<Record>>
    BY <1>7 DEF CommitMerged, Commits
  <2>2. Goes
    BY <1>5, <2>1, QuietSteps DEF Stage
  <2> QED
    BY <1>2, <1>3, <1>6, <2>2 DEF files
<1>8. CASE CommitWaiting
  <2>1. PICK w \in {"waiting", "unarmed"} : issue' = set_armed(open(issue), w = "waiting")
    BY <1>8 DEF CommitWaiting, Commits
  <2>2. issue'.pending = None
    BY <1>4, <2>1 DEF set_armed, Issue
  <2> QED
    BY <1>2, <1>3, <2>2 DEF files
<1>9. CASE CommitKept
  BY <1>9, <1>2, <1>3, <1>4 DEF CommitKept, Commits, files
<1>10. CASE CommitFix
  <2> DEFINE off == set_armed(open(issue), FALSE)
  <2>1. issue' = [noted_phase(off, "running") EXCEPT !.deferred = None]
    BY <1>10 DEF CommitFix, Commits
  <2>2. off \in Issue /\ off.pending = None
    BY <1>4 DEF set_armed, Issue
  <2> HIDE DEF off
  <2>3. issue'.pending = None
    BY <2>1, <2>2 DEF noted_phase, Issue
  <2> QED
    BY <1>2, <1>3, <2>3 DEF files
<1>11. CASE CommitUncertain \/ CommitDisarmed
  <2>1. issue'.pending = None
    BY <1>4, <1>11 DEF CommitUncertain, CommitDisarmed, Commits, Issue
  <2> QED
    BY <1>2, <1>3, <2>1 DEF files
<1>12. CASE CommitReconcile
  <2> DEFINE stage == IF issue.stage = "merged" THEN issue.stage ELSE "cleaning"
  <2>1. \/ /\ issue' = [issue EXCEPT !.pending = [@ EXCEPT !.phase = 2, !.recovered = FALSE],
                                     !.stage = stage]
           /\ todo' = <<Record>>
        \/ issue' = [issue EXCEPT !.pending.recovered = FALSE] /\ todo' = <<>>
        \/ issue' = open(issue)
    BY <1>12 DEF CommitReconcile, Commits
  <2>2. stage \in Stage
    BY DEF Stage
  <2> HIDE DEF stage
  <2>3. issue' = open(issue) \/ Goes
    BY <1>5, <2>1, <2>2, QuietSteps
  <2> QED
    BY <1>2, <1>3, <1>4, <1>6, <2>3 DEF files
<1>13. CASE CommitCleanup \/ CommitCheckpoint
  <2>1. \/ issue' = [issue EXCEPT !.pending.phase = 2] /\ todo' = <<Record>>
        \/ issue' = open(issue)
        \/ issue' = [open(issue) EXCEPT !.stage = "cleanup-incomplete"]
    BY <1>13 DEF CommitCleanup, CommitCheckpoint, Commits
  <2>2. issue'.pending = None \/ Goes
    BY <1>2, <1>4, <2>1, QuietSteps DEF Issue
  <2> QED
    BY <1>2, <1>3, <1>6, <2>2 DEF files
<1>14. CASE CommitLaunch
  <2>1. \/ issue' = applied(issue, "running") /\ todo' = <<Record>>
        \/ \E stage : issue' = [open(issue) EXCEPT !.deferred = "launch", !.stage = stage]
    BY <1>14 DEF CommitLaunch, Commits
  <2>2. issue'.pending = None \/ Goes
    BY <1>2, <1>4, <2>1, QuietSteps DEF Issue, applied
  <2> QED
    BY <1>2, <1>3, <1>6, <2>2 DEF files
<1> QED
  BY <1>7, <1>8, <1>9, <1>10, <1>11, <1>12, <1>13, <1>14 DEF EffectDone

LEMMA AnswerIntent ==
  ASSUME TypeOK, OneAction, Recovered, Intent, EffectDone
  PROVE  Recovered' /\ Intent'
BY AnswerPending DEF Recovered, Intent

\* The pending action after a closed one is a fresh one, or none.
LEMMA ClosedPending ==
  ASSUME NEW s \in Issue, s.pending \in Pending
  PROVE  closed(s).pending = None \/
           /\ closed(s).pending \in Pending
           /\ closed(s).pending.phase = 0 /\ ~closed(s).pending.recovered
<1> DEFINE follow == IF s.pending.action = "merge" THEN "cleanup" ELSE s.pending.follow
<1>1. follow \in {None, "cleanup", "launch"}
  BY DEF Pending
<1>2. closed(s).pending = IF follow = None THEN None ELSE fresh(follow)
  BY DEF closed, Issue
<1> HIDE DEF follow
<1> QED
  BY <1>1, <1>2 DEF fresh, Pending, Action

LEMMA RecoveredStep ==
  ASSUME TypeOK, OneAction, Recovered, Intent, Next
  PROVE  Recovered' /\ Intent'
<1> USE DEF Recovered, Intent
<1>0. \A a \in Action : fresh(a).phase = 0 /\ ~fresh(a).recovered
  BY DEF fresh
<1>1. CASE Crash
  BY <1>1 DEF Crash, Unloaded
<1>2. CASE Restart
  <2>1. /\ issue' = arm_merge(loaded) /\ UNCHANGED journal
        /\ todo' = IF unsure THEN <<Kept("launch")>> ELSE <<>>
    BY <1>2 DEF Restart, files
  <2> QED
    BY <2>1, LoadedIntent, QuietSteps
<1>3. CASE Write
  <2>1. UNCHANGED issue /\ todo # <<>> /\ todo' = Tail(todo) /\ todo \in Seq(Step)
    BY <1>3 DEF Write, TypeOK
  <2>2. issue.pending # None => Quiet(todo')
    BY <2>1 DEF Quiet
  <2>3. issue.pending # None => UNCHANGED journal
    <3>1. issue.pending # None => Head(todo).write \notin {"kept", "held"}
      BY <2>1 DEF Quiet
    <3> QED
      BY <1>3, <3>1 DEF Write
  <2> QED
    BY <2>1, <2>2, <2>3
<1>4. CASE WriteIntent
  <2>1. issue \in Issue /\ issue.pending \in Pending /\ issue.pending # None
    BY <1>4 DEF WriteIntent, pumping, at, TypeOK, Issue
  <2>2. journal'.pending = issue.pending.action
    BY <1>4 DEF WriteIntent, intended, TypeOK, Replay
  <2>3. /\ issue'.pending.action = issue.pending.action
        /\ issue'.pending.recovered = issue.pending.recovered
    BY <1>4, <2>1 DEF WriteIntent, Issue, Pending
  <2>4. Quiet(todo')
    BY <1>4, QuietSteps DEF WriteIntent, pumping
  <2> QED
    BY <2>1, <2>2, <2>3, <2>4
<1>5. CASE WriteDone
  <2>1. issue \in Issue /\ issue.pending \in Pending /\ issue.pending # None
    BY <1>5 DEF WriteDone, pumping, at, TypeOK, Issue
  <2>2. issue' = closed(issue) /\ todo' = <<Record>>
    BY <1>5 DEF WriteDone
  <2> QED
    BY <2>1, <2>2, ClosedPending, QuietSteps
<1>6. CASE StartCall
  BY <1>6 DEF StartCall, files
<1>7. CASE ArmDisarm \/ ArmLaunch \/ Wave \/ Check
  <2>1. UNCHANGED todo /\ Quiet(todo)
    BY <1>7, QuietSteps DEF ArmDisarm, ArmLaunch, Wave, Check, idle
  <2>2. issue'.pending \in {fresh("merge"), fresh("launch"), fresh("checkpoint")}
    BY <1>7 DEF ArmDisarm, ArmLaunch, Wave, Check, arm_merge, TypeOK, Issue
  <2> QED
    BY <1>0, <2>1, <2>2 DEF Action
<1>8. CASE Detect \/ Gone
  <2>1. UNCHANGED journal /\ Quiet(todo')
    BY <1>8, QuietSteps DEF Detect, Gone, idle, files
  <2>2. CASE issue.pending = None
    <3>1. issue'.pending = fresh("cleanup")
            \/ issue'.pending = [fresh("checkpoint") EXCEPT !.follow = "launch"]
      BY <1>8, <2>2 DEF Detect, Gone, merged, TypeOK, Issue
    <3>2. issue'.pending.phase = 0 /\ ~issue'.pending.recovered
      BY <3>1 DEF fresh
    <3> QED
      BY <2>1, <3>2
  <2>3. CASE issue.pending # None
    <3>1. issue \in Issue /\ issue.pending \in Pending
      BY <2>3 DEF TypeOK, Issue
    <3>2. issue'.pending = [issue.pending EXCEPT !.follow = "cleanup"]
            \/ issue'.pending = [issue.pending EXCEPT !.follow = "launch"]
      <4>1. CASE Detect
        BY <2>3, <3>1, <4>1 DEF Detect, merged, Issue
      <4>2. CASE Gone
        BY <2>3, <3>1, <4>2 DEF Gone, Issue
      <4> QED
        BY <1>8, <4>1, <4>2
    <3>3. /\ issue'.pending.action = issue.pending.action
          /\ issue'.pending.phase = issue.pending.phase
          /\ issue'.pending.recovered = issue.pending.recovered
      BY <3>1, <3>2 DEF Pending
    <3> QED
      BY <2>1, <2>3, <3>3
  <2> QED
    BY <2>2, <2>3
<1>9. ASSUME NEW phase \in {"running", "ready"}, Report(phase)
      PROVE  Recovered' /\ Intent'
  <2>1. UNCHANGED journal /\ Quiet(todo')
    BY <1>9, QuietSteps DEF Report, files
  <2>2. CASE issue.pending # None
    <3>1. issue'.pending = issue.pending
      BY <1>9, <2>2, ReportedPending DEF Report, TypeOK, Phase
    <3> QED
      BY <2>1, <3>1
  <2>3. CASE issue.pending = None
    <3>1. issue'.pending = None \/ issue'.pending = fresh("merge")
      BY <1>9, <2>3, ReportedNone DEF Report, TypeOK, Phase
    <3> QED
      BY <1>0, <2>1, <3>1 DEF Action
  <2> QED
    BY <2>2, <2>3
<1>10. CASE Effect
  BY <1>10, EffectKeeps
<1>11. CASE Environment
  BY <1>11 DEF Environment, AutoMerge, MergeElsewhere, PaneDies, environment, memory, files
<1>12. CASE EffectDone
  BY <1>12, AnswerIntent
<1> QED
  BY <1>1, <1>2, <1>3, <1>4, <1>5, <1>6, <1>7, <1>8, <1>9, <1>10, <1>11, <1>12
     DEF Next, Pump, Message

-----------------------------------------------------------------------------
(* No teardown of what did not merge. *)

\* The PR never leaves `merged'.
LEMMA MergedStays ==
  ASSUME Next, pr' = "open"
  PROVE  pr = "open"
<1> USE DEF world
<1>1. CASE Crash \/ Restart \/ Pump \/ Message
  BY <1>1 DEF Crash, Restart, Pump, Message, Write, WriteIntent, WriteDone, StartCall, ArmDisarm,
              ArmLaunch, Check, Detect, Wave, Gone, Report
<1>2. CASE Effect
  BY <1>2 DEF Effect, MergeStep, Reconcile, Cleanup, Checkpoint, LaunchBegins, Replaces, Starts,
              Launched, LaunchFails
<1>3. CASE EffectDone
  BY <1>3 DEF EffectDone, CommitMerged, CommitWaiting, CommitKept, CommitFix, CommitUncertain,
              CommitDisarmed, CommitReconcile, CommitCleanup, CommitCheckpoint, CommitLaunch,
              Commits
<1>4. CASE Environment
  BY <1>4 DEF Environment, AutoMerge, MergeElsewhere, PaneDies
<1> QED
  BY <1>1, <1>2, <1>3, <1>4 DEF Next

LEMMA FreshClean ==
  ASSUME NEW s \in Issue, s.stage \notin Torn, NEW a \in {"merge", "launch", "checkpoint"},
         NEW t \in Issue, t.stage = s.stage, t.pending = fresh(a)
  PROVE  CleanIssue(t)
BY RecoveryConstants DEF CleanIssue, fresh

LEMMA ArmClean ==
  ASSUME NEW s \in Issue, CleanIssue(s)
  PROVE  CleanIssue(arm_merge(s))
<1>1. CASE armable(s)
  <2>1. arm_merge(s) \in Issue /\ arm_merge(s).stage = s.stage
          /\ arm_merge(s).pending = fresh("merge")
    BY <1>1, ArmMergeType DEF arm_merge, Issue
  <2> QED
    BY <2>1, FreshClean DEF CleanIssue
<1>2. CASE ~armable(s)
  BY <1>2 DEF arm_merge
<1> QED
  BY <1>1, <1>2

LEMMA ReportedClean ==
  ASSUME NEW s \in Issue, NEW phase \in Phase, CleanIssue(s)
  PROVE  CleanIssue(reported(s, phase))
<1> DEFINE moved == IF adopted(s) THEN [s EXCEPT !.stage = "running"] ELSE s
<1> DEFINE kept == IF s.phase # phase THEN [moved EXCEPT !.deferred = None] ELSE moved
<1>1. moved \in Issue /\ CleanIssue(moved)
  BY DEF Issue, Stage, CleanIssue, Torn
<1>2. kept \in Issue /\ CleanIssue(kept)
  BY <1>1 DEF Issue, Hold, CleanIssue
<1> HIDE DEF moved, kept
<1>3. noted_phase(kept, phase) \in Issue /\ CleanIssue(noted_phase(kept, phase))
  BY <1>2 DEF noted_phase, Issue, CleanIssue
<1> QED
  BY <1>3, ArmClean DEF reported, moved, kept

\* What is loaded has no teardown when the files have none.
LEMMA LoadedClean ==
  ASSUME TypeOK, CleanFiles
  PROVE  CleanIssue(loaded)
<1>1. loaded_stage \notin Torn
  BY DEF CleanFiles, loaded_stage
<1>2. journal.pending \in {"merge", "checkpoint", "launch", None}
  BY DEF TypeOK, Replay, CleanFiles, Action
<1>3. \/ resume = None
      \/ /\ resume.action \in {"merge", "checkpoint", "launch"} /\ resume.follow = None
         /\ resume.action = "merge" => resume.phase = 1
  <2>1. CASE journal.pending = None
    BY <2>1, RecoveryConstants DEF resume, unsure
  <2>2. CASE journal.pending = "merge"
    <3>1. resume = [resumed("merge", 1) EXCEPT !.recovered = TRUE]
      BY <2>2, RecoveryConstants DEF resume, unsure
    <3> QED
      BY <3>1 DEF resumed, fresh
  <2>3. CASE journal.pending = "checkpoint"
    <3>1. resume = resumed("checkpoint", 1)
      BY <2>3, RecoveryConstants DEF resume, unsure
    <3> QED
      BY <3>1 DEF resumed, fresh
  <2>4. CASE journal.pending = "launch"
    <3>1. resume = None \/ \E n \in {1, 2} : resume = resumed("launch", n)
      BY <2>4, RecoveryConstants DEF resume, unsure
    <3> QED
      BY <3>1 DEF resumed, fresh
  <2> QED
    BY <1>2, <2>1, <2>2, <2>3, <2>4
<1>4. loaded.stage = loaded_stage /\ loaded.pending = resume
  BY <1>1 DEF loaded, reconciled, Torn
<1> QED
  BY <1>1, <1>3, <1>4, RecoveryConstants DEF CleanIssue

LEMMA EngineClean ==
  ASSUME TypeOK, Intent, Clean, Crash \/ Restart \/ Pump \/ Message, pr = "open"
  PROVE  Clean'
<1>0. /\ issue.stage \notin Torn
      /\ issue.pending # None =>
           /\ issue.pending.action # "cleanup" /\ issue.pending.follow # "cleanup"
           /\ ~(issue.pending.action = "merge" /\ issue.pending.phase = 2)
      /\ record.stage \notin Torn /\ journal.stage \notin Torn
      /\ journal.pending \notin {"cleanup", "owed"}
  BY DEF Clean, CleanIssue, CleanFiles
<1>1. CASE Crash
  BY <1>1, RecoveryConstants
     DEF Crash, files, Unloaded, Idle, Blank, Clean, CleanIssue, CleanFiles, CleanCall, Torn
<1>2. CASE Restart
  <2>1. CleanIssue(loaded) /\ loaded \in Issue
    BY LoadedClean, LoadedType DEF Clean
  <2>2. CleanIssue(arm_merge(loaded))
    BY <2>1, ArmClean
  <2> QED
    BY <1>2, <2>2 DEF Restart, files, Clean, CleanFiles, CleanCall
<1>3. CASE Write
  <2>1. UNCHANGED <<issue, call>>
    BY <1>3 DEF Write
  <2>2. written.stage \notin Torn
    BY <1>0 DEF written
  <2>3. noted(journal, Head(todo)).stage = journal.stage
          /\ noted(journal, Head(todo)).pending = None
    BY DEF noted, TypeOK, Replay
  <2>4. CleanFiles'
    BY <1>0, <1>3, <2>2, <2>3, RecoveryConstants DEF Write, CleanFiles
  <2> QED
    BY <2>1, <2>4 DEF Clean, CleanCall
<1>4. CASE WriteIntent
  <2>1. issue \in Issue /\ issue.pending \in Pending /\ issue.pending # None
    BY <1>4 DEF WriteIntent, pumping, at, TypeOK, Issue
  <2>2. /\ issue'.stage = issue.stage /\ issue'.pending.action = issue.pending.action
        /\ issue'.pending.follow = issue.pending.follow /\ issue'.pending.phase = 1
    BY <1>4, <2>1 DEF WriteIntent, Issue, Pending
  <2>3. journal'.pending = issue.pending.action /\ journal'.stage = journal.stage
    BY <1>4 DEF WriteIntent, intended, TypeOK, Replay
  <2>4. issue.pending.action # "owed"
    BY <2>1 DEF Pending, Action
  <2>5. UNCHANGED <<record, call>>
    BY <1>4 DEF WriteIntent
  <2>6. CleanIssue(issue')
    BY <1>0, <2>1, <2>2 DEF CleanIssue
  <2>7. CleanFiles'
    BY <1>0, <2>1, <2>3, <2>4, <2>5 DEF CleanFiles
  <2> QED
    BY <2>5, <2>6, <2>7 DEF Clean, CleanCall
<1>5. CASE WriteDone
  <2>1. /\ issue \in Issue /\ issue.pending \in Pending /\ issue.pending # None
        /\ issue.pending.phase = 2
    BY <1>5 DEF WriteDone, pumping, at, TypeOK, Issue
  <2>2. issue.pending.action \in {"checkpoint", "launch"} /\ issue.pending.follow \in {None, "launch"}
    <3>1. /\ issue.pending.action \in {"merge", "cleanup", "checkpoint", "launch"}
          /\ issue.pending.follow \in {None, "cleanup", "launch"}
      BY <2>1 DEF Pending, Action
    <3> QED
      BY <1>0, <2>1, <3>1
  <2>3. journal.pending = issue.pending.action
    BY <2>1 DEF Intent
  <2>4. done(journal).stage \notin Torn /\ done(journal).pending = None
    BY <1>0, <2>2, <2>3 DEF done, finished, TypeOK, Replay, Torn
  <2>5. CleanIssue(closed(issue))
    <3>1. closed(issue).stage \notin Torn
      BY <1>0, <2>1, <2>2 DEF closed, finished, Issue, Torn
    <3>2. closed(issue).pending \in {None, fresh("launch")}
      BY <2>1, <2>2 DEF closed, Issue
    <3>3. /\ fresh("launch").action = "launch" /\ fresh("launch").follow = None
      BY DEF fresh
    <3> QED
      BY <3>1, <3>2, <3>3, RecoveryConstants DEF CleanIssue
  <2>6. issue' = closed(issue) /\ journal' = done(journal) /\ UNCHANGED <<record, call>>
    BY <1>5 DEF WriteDone
  <2>7. CleanFiles'
    BY <1>0, <2>4, <2>6, RecoveryConstants DEF CleanFiles
  <2> QED
    BY <2>5, <2>6, <2>7 DEF Clean, CleanCall
<1>6. CASE StartCall
  <2>1. issue.pending \in Pending /\ issue.pending # None /\ UNCHANGED <<issue, journal, record>>
    BY <1>6 DEF StartCall, pumping, at, TypeOK, Issue, files
  <2>2. call'.at = IF issue.pending.recovered THEN "reconcile" ELSE issue.pending.action
    BY <1>6 DEF StartCall
  <2>3. call'.at \in {"reconcile", "merge", "checkpoint", "launch"}
    BY <1>0, <2>1, <2>2 DEF Pending, Action
  <2>4. call'.copy.stage \notin Torn
    BY <1>6 DEF StartCall, Blank, Torn
  <2> QED
    BY <2>1, <2>3, <2>4 DEF Clean, CleanFiles, CleanCall
<1>7. CASE ArmDisarm \/ ArmLaunch \/ Wave
  <2>1. UNCHANGED <<journal, record, call>>
    BY <1>7 DEF ArmDisarm, ArmLaunch, Wave, files
  <2>2. PICK a \in {"merge", "launch", "checkpoint"} : issue' = [issue EXCEPT !.pending = fresh(a)]
    BY <1>7 DEF ArmDisarm, ArmLaunch, Wave
  <2>3. issue \in Issue /\ fresh(a) \in Pending
    BY FreshType DEF TypeOK, Action
  <2>4. issue' \in Issue /\ issue'.stage = issue.stage /\ issue'.pending = fresh(a)
    BY <2>2, <2>3 DEF Issue
  <2>5. CleanIssue(issue')
    BY <1>0, <2>3, <2>4, FreshClean
  <2> QED
    BY <2>1, <2>5 DEF Clean, CleanFiles, CleanCall
<1>8. CASE Check
  <2>1. issue' = arm_merge(issue) /\ UNCHANGED <<journal, record, call>>
    BY <1>8 DEF Check, files
  <2> QED
    BY <2>1, ArmClean DEF TypeOK, Clean, CleanFiles, CleanCall
<1>9. CASE Detect
  BY <1>9 DEF Detect
<1>10. CASE Gone
  <2>1. UNCHANGED <<journal, record, call>> /\ issue \in Issue
    BY <1>10 DEF Gone, files, TypeOK
  <2> DEFINE p == IF issue.pending = None THEN fresh("checkpoint") ELSE issue.pending
  <2>2. issue' = [issue EXCEPT !.pending = [p EXCEPT !.follow = "launch"]]
    BY <1>10, <2>1 DEF Gone, Issue
  <2>3. p \in Pending /\ p.action = "checkpoint"
    BY <1>10, <2>1, FreshType DEF Gone, doing, Issue, Action
  <2> HIDE DEF p
  <2>4. /\ issue'.stage = issue.stage
        /\ issue'.pending.action = "checkpoint" /\ issue'.pending.follow = "launch"
    BY <2>1, <2>2, <2>3 DEF Issue, Pending
  <2> QED
    BY <1>0, <2>1, <2>4 DEF Clean, CleanIssue, CleanFiles, CleanCall
<1>11. ASSUME NEW phase \in {"running", "ready"}, Report(phase)
       PROVE  Clean'
  <2>1. issue' = reported(issue, phase) /\ UNCHANGED <<journal, record, call>>
    BY <1>11 DEF Report, files
  <2>2. CleanIssue(issue')
    BY <2>1, ReportedClean DEF TypeOK, Phase, Clean
  <2> QED
    BY <2>1, <2>2 DEF Clean, CleanFiles, CleanCall
<1> QED
  BY <1>1, <1>2, <1>3, <1>4, <1>5, <1>6, <1>7, <1>8, <1>9, <1>10, <1>11 DEF Pump, Message

LEMMA EffectClean ==
  ASSUME TypeOK, CleanFiles, CleanCall, Effect, pr = "open", pr' = "open"
  PROVE  CleanFiles' /\ CleanCall'
<1> USE DEF CleanFiles, CleanCall
<1>0. UNCHANGED journal
  BY EffectKeeps
<1>1. ASSUME NEW a, answer(a), a \notin {"cleanup", "torn", "merged", "is merged", "cleaned",
                                        "incomplete"}
      PROVE  CleanCall'
  BY <1>1 DEF answer, Blank, Torn
<1>2. ASSUME NEW step \in {"starting", "replacing", "started"}, reads(step) \/ proceeds(step)
      PROVE  CleanCall'
  BY <1>2 DEF reads, proceeds, TypeOK, Call
<1>3. ASSUME NEW copy \in Document, NEW stage, persist(copy, stage), stage \notin Torn
      PROVE  record'.stage \notin Torn
  BY <1>3 DEF persist, Document
<1>4. call.copy \in Document /\ record \in Document
  BY DEF TypeOK, Call
<1>5. CASE MergeStep
  <2>1. PICK a \in {"waiting", "unarmed", "kept", "fix", "uncertain", "disarmed", "error"} :
          answer(a)
    BY <1>5 DEF MergeStep
  <2>2. UNCHANGED record
    BY <1>5 DEF MergeStep
  <2> QED
    BY <1>0, <1>1, <2>1, <2>2
<1>6. CASE Reconcile
  <2>1. (answer("is open") \/ answer("is unknown")) /\ UNCHANGED record
    BY <1>6 DEF Reconcile
  <2> QED
    BY <1>0, <1>1, <2>1
<1>7. CASE Cleanup
  BY <1>7 DEF Cleanup
<1>8. CASE Checkpoint
  <2>1. (answer("snapped") \/ answer("no snapshot")) /\ UNCHANGED record
    BY <1>8 DEF Checkpoint
  <2> QED
    BY <1>0, <1>1, <2>1
<1>9. CASE LaunchBegins
  <2>1. \/ reads("starting") /\ persist(record, "starting")
        \/ reads("replacing") /\ persist(record, "replacing")
        \/ answer("not launched") /\ UNCHANGED record
    BY <1>9 DEF LaunchBegins
  <2> QED
    BY <1>0, <1>1, <1>2, <1>3, <1>4, <2>1 DEF Torn
<1>10. CASE Replaces
  <2>1. proceeds("starting") /\ persist(call.copy, "starting")
    BY <1>10 DEF Replaces
  <2> QED
    BY <1>0, <1>2, <1>3, <1>4, <2>1 DEF Torn
<1>11. CASE Starts
  <2>1. proceeds("started") /\ UNCHANGED record
    BY <1>11 DEF Starts
  <2> QED
    BY <1>0, <1>2, <2>1
<1>12. CASE Launched \/ LaunchFails
  <2>1. /\ answer("launched") \/ answer("not launched")
        /\ \E stage \in {"running", "", "uncertain"} : persist(call.copy, stage)
    BY <1>12 DEF Launched, LaunchFails
  <2> QED
    BY <1>0, <1>1, <1>3, <1>4, <2>1 DEF Torn
<1> QED
  BY <1>5, <1>6, <1>7, <1>8, <1>9, <1>10, <1>11, <1>12 DEF Effect

LEMMA AnswerClean ==
  ASSUME TypeOK, OneAction, Clean, EffectDone
  PROVE  Clean'
<1>0. /\ issue.stage \notin Torn /\ record.stage \notin Torn
      /\ call.at \notin {"cleanup", "torn", "merged", "is merged", "cleaned", "incomplete"}
      /\ issue.pending.action # "cleanup" /\ issue.pending.follow # "cleanup"
  BY AnswerPending DEF Clean, CleanIssue, CleanFiles, CleanCall
<1>1. /\ UNCHANGED <<journal, record>> /\ call' = Idle /\ issue \in Issue
      /\ issue.pending \in Pending
  BY AnswerPending
     DEF EffectDone, CommitMerged, CommitWaiting, CommitKept, CommitFix, CommitUncertain,
         CommitDisarmed, CommitReconcile, CommitCleanup, CommitCheckpoint, CommitLaunch,
         Commits, files, TypeOK
<1>2. CleanFiles' /\ CleanCall'
  BY <1>1 DEF Clean, CleanFiles, CleanCall, Idle, Blank, Torn
<1>3. open(issue) \in Issue /\ open(issue).stage = issue.stage
  BY <1>1, OpenType DEF open, Issue
<1>4. \/ issue'.pending = None
      \/ /\ issue'.pending.action = issue.pending.action
         /\ issue'.pending.follow = issue.pending.follow
  BY AnswerPending
<1>5. /\ issue'.stage \notin Torn
      /\ \/ issue'.pending = None
         \/ issue'.pending.action # "merge"
         \/ issue'.pending.phase # 2
  <2>1. CASE CommitMerged \/ CommitCleanup
    BY <1>0, <2>1 DEF CommitMerged, CommitCleanup, Commits
  <2>2. CASE CommitWaiting
    <3>1. PICK w \in {"waiting", "unarmed"} : issue' = set_armed(open(issue), w = "waiting")
      BY <2>2 DEF CommitWaiting, Commits
    <3>2. issue'.stage = issue.stage /\ issue'.pending = None
      BY <1>3, <3>1 DEF set_armed, open, Issue
    <3> QED
      BY <1>0, <3>2
  <2>3. CASE CommitKept
    BY <1>0, <1>3, <2>3 DEF CommitKept, Commits, open, Issue
  <2>4. CASE CommitFix
    <3> DEFINE off == set_armed(open(issue), FALSE)
    <3>1. issue' = [noted_phase(off, "running") EXCEPT !.deferred = None]
      BY <2>4 DEF CommitFix, Commits
    <3>2. off \in Issue /\ off.pending = None /\ off.stage = issue.stage
      BY <1>3 DEF set_armed, open, Issue
    <3> HIDE DEF off
    <3>3. issue'.pending = None /\ issue'.stage = issue.stage
      BY <3>1, <3>2 DEF noted_phase, Issue
    <3> QED
      BY <1>0, <3>3
  <2>5. CASE CommitUncertain \/ CommitDisarmed
    <3>1. issue'.pending = None /\ issue'.stage = issue.stage
      BY <1>3, <2>5 DEF CommitUncertain, CommitDisarmed, Commits, open, Issue
    <3> QED
      BY <1>0, <3>1
  <2>6. CASE CommitReconcile
    <3>1. issue' = [issue EXCEPT !.pending.recovered = FALSE] \/ issue' = open(issue)
      BY <1>0, <2>6 DEF CommitReconcile, Commits
    <3>2. CASE issue' = open(issue)
      BY <1>0, <1>3, <3>2 DEF open, Issue
    <3>3. CASE issue' = [issue EXCEPT !.pending.recovered = FALSE]
      <4>1. issue'.stage = issue.stage /\ issue'.pending.phase = issue.pending.phase
        BY <1>1, <3>3 DEF Issue, Pending
      <4>2. issue.pending.phase = 1
        BY AnswerPending
      <4>3. issue'.pending.phase # 2
        BY <4>1, <4>2
      <4> QED
        BY <1>0, <4>1, <4>3
    <3> QED
      BY <3>1, <3>2, <3>3
  <2>7. CASE CommitCheckpoint
    <3>1. call.at \in {"snapped", "no snapshot"}
            /\ (issue' = [issue EXCEPT !.pending.phase = 2] \/ issue' = open(issue))
      BY <2>7 DEF CommitCheckpoint, Commits
    <3>2. issue.pending.action = "checkpoint"
      BY <3>1 DEF OneAction, Kind
    <3>3. issue'.stage = issue.stage
      BY <1>1, <1>3, <3>1 DEF Issue
    <3> QED
      BY <1>0, <1>4, <3>2, <3>3
  <2>8. CASE CommitLaunch
    <3>1. /\ call.at \in {"launched", "not launched"}
          /\ \/ issue' = applied(issue, "running")
             \/ issue' = [open(issue) EXCEPT !.deferred = "launch",
                            !.stage = IF record.stage = "" THEN @ ELSE record.stage]
      BY <2>8 DEF CommitLaunch, Commits
    <3>2. issue.pending.action = "launch"
      BY <3>1 DEF OneAction, Kind
    <3>3. issue'.stage \in {"running", issue.stage, record.stage}
      BY <1>1, <1>3, <3>1 DEF applied, Issue
    <3> QED
      BY <1>0, <1>4, <3>2, <3>3 DEF Torn
  <2> QED
    BY <2>1, <2>2, <2>3, <2>4, <2>5, <2>6, <2>7, <2>8 DEF EffectDone
<1>6. CleanIssue(issue')
  BY <1>0, <1>4, <1>5 DEF CleanIssue
<1> QED
  BY <1>2, <1>6 DEF Clean

LEMMA OnlyMergedStep ==
  ASSUME TypeOK, OneAction, Intent, OnlyMerged, Next
  PROVE  OnlyMerged'
<1> SUFFICES ASSUME pr' = "open"
             PROVE  Clean'
  BY DEF OnlyMerged
<1>1. pr = "open" /\ Clean
  BY MergedStays DEF OnlyMerged
<1>2. CASE Crash \/ Restart \/ Pump \/ Message
  BY <1>1, <1>2, EngineClean
<1>3. CASE Effect
  <2>1. CleanFiles' /\ CleanCall'
    BY <1>1, <1>3, EffectClean DEF Clean
  <2>2. UNCHANGED issue
    BY <1>3, EffectKeeps
  <2> QED
    BY <1>1, <2>1, <2>2 DEF Clean
<1>4. CASE EffectDone
  BY <1>1, <1>4, AnswerClean
<1>5. CASE Environment
  <2>1. UNCHANGED <<journal, record, issue, call>>
    BY <1>5 DEF Environment, AutoMerge, MergeElsewhere, PaneDies, environment, files, memory
  <2> QED
    BY <1>1, <2>1 DEF Clean, CleanFiles, CleanCall
<1> QED
  BY <1>2, <1>3, <1>4, <1>5 DEF Next

-----------------------------------------------------------------------------
(* One agent. *)

LEMMA FirstAgent == \A n : n = 0 => n + 1 = 1
OBVIOUS

LEMMA AgentsStep ==
  ASSUME TypeOK, Agents, Next
  PROVE  Agents'
<1> USE DEF Agents
<1>0. agents \in Nat
  BY DEF TypeOK
<1>1. CASE Crash \/ Restart \/ Message
  <2>1. UNCHANGED <<record, agents>> /\ (call' = call \/ call' = Idle)
    BY <1>1 DEF Crash, Restart, Message, ArmDisarm, ArmLaunch, Check, Detect, Wave, Gone, Report,
                files, world
  <2>2. CASE call' = call
    BY <2>1, <2>2
  <2>3. CASE call' = Idle
    <3>1. call'.at = "none"
      BY <2>3 DEF Idle
    <3> QED
      BY <2>1, <3>1
  <2> QED
    BY <2>1, <2>2, <2>3
<1>2. CASE Write
  <2>1. UNCHANGED <<agents, call>>
    BY <1>2 DEF Write, world
  <2>2. record' = record \/ record' = written
    BY <1>2 DEF Write
  <2>3. record.stage # "" => record'.stage # ""
    <3>1. record.stage # "" => written.stage # ""
      BY DEF written
    <3> QED
      BY <2>2, <3>1
  <2> QED
    BY <2>1, <2>3
<1>3. CASE WriteIntent \/ WriteDone
  BY <1>3 DEF WriteIntent, WriteDone, world
<1>4. CASE StartCall
  <2>1. UNCHANGED <<record, agents>>
    BY <1>4 DEF StartCall, files, world
  <2>2. issue.pending \in Pending
    BY <1>4 DEF StartCall, pumping, at, TypeOK, Issue
  <2>3. call'.at \in {"reconcile"} \cup Action
    BY <1>4, <2>2 DEF StartCall, Pending
  <2> QED
    BY <2>1, <2>3 DEF Action
<1>5. CASE MergeStep \/ Reconcile \/ Checkpoint
  <2>1. UNCHANGED <<record, agents>>
    BY <1>5 DEF MergeStep, Reconcile, Checkpoint, world
  <2>2. PICK a \in {"merged", "waiting", "unarmed", "kept", "fix", "uncertain", "disarmed", "error",
                    "is merged", "is open", "is unknown", "snapped", "no snapshot"} : answer(a)
    BY <1>5 DEF MergeStep, Reconcile, Checkpoint
  <2>3. call'.at = a
    BY <2>2 DEF answer
  <2> QED
    BY <2>1, <2>3
<1>6. CASE Cleanup
  <2>1. agents' = agents \/ agents' = 0
    BY <1>6 DEF Cleanup
  <2>2. record' = record \/ record' = [call.copy EXCEPT !.stage = "merged"]
          \/ record' = [call.copy EXCEPT !.stage = "cleanup-incomplete"]
    BY <1>6 DEF Cleanup, persist
  <2>3. call.copy \in Document /\ record \in Document
    BY DEF TypeOK, Call
  <2>4. record'.stage = record.stage \/ record'.stage # ""
    BY <2>2, <2>3 DEF Document
  <2>5. call'.at \notin {"replacing", "starting", "started"}
    <3>1. answer("cleaned") \/ answer("incomplete") \/ reads("torn")
      BY <1>6 DEF Cleanup
    <3>2. ASSUME reads("torn") PROVE call'.at = "torn"
      BY <3>2 DEF reads, TypeOK, Call
    <3>3. ASSUME NEW a, answer(a) PROVE call'.at = a
      BY <3>3 DEF answer
    <3> QED
      BY <3>1, <3>2, <3>3
  <2> QED
    BY <2>1, <2>4, <2>5
<1>7. CASE LaunchBegins
  <2>1. UNCHANGED agents /\ record \in Document
    BY <1>7 DEF LaunchBegins, world, TypeOK
  <2>2. CASE record.stage = "" /\ reads("starting") /\ persist(record, "starting")
    <3>1. agents = 0 /\ record'.stage = "starting"
      BY <2>1, <2>2 DEF persist, Document
    <3> QED
      BY <2>1, <3>1
  <2>3. CASE record.stage = "running" /\ reads("replacing") /\ persist(record, "replacing")
    <3>1. call'.at = "replacing" /\ record'.stage = "replacing"
      BY <2>1, <2>3 DEF reads, persist, Document, TypeOK, Call
    <3> QED
      BY <2>1, <3>1
  <2>4. CASE answer("not launched") /\ UNCHANGED record
    BY <2>1, <2>4 DEF answer
  <2> QED
    BY <1>7, <2>2, <2>3, <2>4 DEF LaunchBegins
<1>8. CASE Replaces
  <2>1. agents' = 0 /\ record' = [call.copy EXCEPT !.stage = "starting"]
    BY <1>8 DEF Replaces, persist
  <2>2. record'.stage = "starting"
    BY <2>1 DEF TypeOK, Call, Document
  <2> QED
    BY <2>1, <2>2
<1>9. CASE Starts
  <2>1. call.at = "starting" /\ agents' = agents + 1 /\ UNCHANGED record
    BY <1>9 DEF Starts
  <2>2. call'.at = "started"
    BY <1>9 DEF Starts, proceeds, TypeOK, Call
  <2>3. record.stage # "" /\ agents = 0
    BY <2>1
  <2>4. agents' = 1
    BY <2>1, <2>3, FirstAgent
  <2> QED
    BY <2>1, <2>2, <2>3, <2>4
<1>10. CASE Launched \/ LaunchFails
  <2>1. UNCHANGED agents /\ call'.at \in {"launched", "not launched"}
    <3>1. CASE Launched
      BY <3>1 DEF Launched, answer, world
    <3>2. CASE LaunchFails
      BY <3>2 DEF LaunchFails, answer, world
    <3> QED
      BY <1>10, <3>1, <3>2
  <2>2. call.copy \in Document
    BY DEF TypeOK, Call
  <2>3. \/ call.at = "starting" /\ agents = 0
        \/ record'.stage \in {"running", "uncertain"}
    BY <1>10, <2>2 DEF Launched, LaunchFails, persist, Document
  <2> QED
    BY <2>1, <2>3
<1>11. CASE EffectDone
  <2>1. UNCHANGED <<record, agents>> /\ call' = Idle
    BY <1>11 DEF EffectDone, CommitMerged, CommitWaiting, CommitKept, CommitFix, CommitUncertain,
                 CommitDisarmed, CommitReconcile, CommitCleanup, CommitCheckpoint, CommitLaunch,
                 Commits, files, world
  <2> QED
    BY <2>1 DEF Idle
<1>12. CASE Environment
  <2>1. UNCHANGED <<record, call>> /\ (agents' = agents \/ agents' = 0)
    BY <1>12 DEF Environment, AutoMerge, MergeElsewhere, PaneDies, environment, files, memory
  <2> QED
    BY <2>1
<1> QED
  BY <1>1, <1>2, <1>3, <1>4, <1>5, <1>6, <1>7, <1>8, <1>9, <1>10, <1>11, <1>12
     DEF Next, Pump, Effect

-----------------------------------------------------------------------------
(* The theorems. *)

IInv == TypeOK /\ OneAction /\ Recovered /\ Intent /\ OnlyMerged /\ Agents

LEMMA InitInv == Init => IInv
<1> SUFFICES ASSUME Init PROVE IInv
  OBVIOUS
<1>1. TypeOK
  BY InitType
<1>2. OneAction /\ Recovered /\ Intent
  BY DEF Init, OneAction, Recovered, Intent, Idle, Unloaded
<1>3. OnlyMerged
  BY RecoveryConstants
     DEF Init, OnlyMerged, Clean, CleanIssue, CleanFiles, CleanCall, Idle, Blank, Unloaded, Torn
<1>4. Agents
  BY DEF Init, Agents, Idle
<1> QED
  BY <1>1, <1>2, <1>3, <1>4 DEF IInv

LEMMA NextInv == IInv /\ [Next]_vars => IInv'
<1> SUFFICES ASSUME IInv, [Next]_vars PROVE IInv'
  OBVIOUS
<1>1. CASE Next
  <2>1. TypeOK'
    BY <1>1, EngineType, EffectType, AnswerType DEF IInv, Next
  <2>2. OneAction' /\ Recovered' /\ Intent'
    BY <1>1, OneActionStep, RecoveredStep DEF IInv
  <2>3. OnlyMerged' /\ Agents'
    BY <1>1, OnlyMergedStep, AgentsStep DEF IInv
  <2> QED
    BY <2>1, <2>2, <2>3 DEF IInv
<1>2. CASE UNCHANGED vars
  <2>1. UNCHANGED <<journal, record, status, up, issue, todo, call, pr, auto, agents, tree, doubt>>
    BY <1>2 DEF vars, files, memory, world
  <2>2. TypeOK'
    BY <2>1 DEF IInv, TypeOK
  <2>3. OneAction' /\ Recovered' /\ Intent'
    BY <2>1 DEF IInv, OneAction, Recovered, Intent
  <2>4. OnlyMerged' /\ Agents'
    BY <2>1 DEF IInv, OnlyMerged, Clean, CleanFiles, CleanCall, Agents
  <2> QED
    BY <2>2, <2>3, <2>4 DEF IInv
<1> QED
  BY <1>1, <1>2

\* The state is well-typed however often the engine dies and starts again.
THEOREM TypeCorrect == Spec => []TypeOK
<1>1. IInv => TypeOK
  BY DEF IInv
<1> QED
  BY <1>1, InitInv, NextInv, PTL DEF Spec

\* No crash and no replay of the journal tears down what did not merge
\* (recover.rs, snapshot.rs).
THEOREM NothingUnmergedIsTornDown == Spec => []CleanedOnlyMerged
<1>1. IInv => CleanedOnlyMerged
  BY DEF IInv, OnlyMerged, Clean, CleanIssue, CleanFiles, CleanCall, CleanedOnlyMerged
<1> QED
  BY <1>1, InitInv, NextInv, PTL DEF Spec

\* A restart never starts a second agent (recover.rs:2-4).
THEOREM OneAgent == Spec => []NoSecondAgent
<1>1. \A n \in {0, 1} : n <= 1
  OBVIOUS
<1>2. IInv => NoSecondAgent
  BY <1>1 DEF IInv, Agents, NoSecondAgent
<1> QED
  BY <1>2, InitInv, NextInv, PTL DEF Spec
=============================================================================
