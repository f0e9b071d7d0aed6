------------------------- MODULE FinishBracketProofs -------------------------
(***************************************************************************)
(* What FinishBracket promises for any number of finishes and any events:     *)
(* the types, that a worktree goes only of merged or abandoned work and never *)
(* under its agent, that a branch goes only of merged work, that nothing is   *)
(* called merged that is not, and that a record settles only what is torn     *)
(* down.                                                                    *)
(***************************************************************************)
EXTENDS FinishBracket, TLAPS

\* The launch lock: who tears down holds it, until it is removed, and so does a
\* launch that began; the engine's own teardown is its cleanup.
Exclusive ==
  /\ \A w \in Worker : pc[w] \in Tearing \cup {"releasing"} => lock = w
  /\ effect.at = "launching" => lock = Engine
  /\ pc[Engine] \in Tearing => effect.at = "cleanup"
  /\ pc[Engine] # "releasing"

\* Past its first step a teardown has exited the agent; past its third, removed
\* the worktree.
Quiet ==
  /\ NoAgentWithoutTree
  /\ \A w \in Worker :
       /\ pc[w] \in {"exited", "prepared", "gone", "removed"} => ~agent
       /\ pc[w] \in {"gone", "removed"} => ~tree

\* Who tears down may: the PR merged, or a person asked.
Licensed ==
  /\ TornOnlyMergedOrAsked
  /\ BranchGoneOnlyMerged
  /\ abandon[Engine] => asked
  /\ \A f \in Finisher : pc[f] = "idle" => ~abandon[f]
  /\ \A w \in Worker : pc[w] \in Tearing => merged \/ abandon[w]

\* A stage says what happened.
true(stage) == (stage = "merged" => merged) /\ (stage = "abandoned" => asked)

\* So it is wherever a stage is kept, and a cleanup waits for merged work only.
Known ==
  /\ true(issue.stage) /\ true(record.stage) /\ true(effect.stage)
  /\ \A doc \in saving : true(doc.stage)
  /\ \A w \in Worker : true(copy[w].stage)
  /\ \A f \in Finisher : true(previous[f])
  /\ issue.pending = "cleanup" \/ issue.follow = "cleanup" => merged
  /\ effect.at # "none" => issue.pending # "none"

IInv == TypeOK /\ Exclusive /\ Quiet /\ Licensed /\ Known

-----------------------------------------------------------------------------
(* Types. *)

\* The literals that steps assign.
LEMMA LiteralTypes ==
  /\ Blank \in Document
  /\ Nothing \in Effect
  /\ \A at \in {"none", "checkpoint", "launch", "cleanup", "launching", "applied", "wait", "failed"} :
       Returned(at) \in Effect
  BY DEF Blank, Document, Nothing, Returned, Effect, Stage

\* What a finish writes is a document.
LEMMA FinishTypes ==
  ASSUME TypeOK, NEW w \in Worker, NEW removed \in BOOLEAN
  PROVE  /\ incomplete(record) \in Document
         /\ incomplete(copy[w]) \in Document
         /\ prechecked \in Document
         /\ settled(w, removed) \in Document
<1>1. record \in Document /\ copy[w] \in Document BY DEF TypeOK
<1>2. \A doc \in Document : incomplete(doc) \in Document
  BY DEF incomplete, Document, Stage
<1>3. prechecked \in Document
  BY <1>1, <1>2 DEF prechecked
<1>4. settled(w, removed) \in Document
  <2>1. /\ abandon[w] \in BOOLEAN /\ branch \in BOOLEAN
        /\ copy[w].cut \in BOOLEAN /\ copy[w].intent \in BOOLEAN
    BY <1>1 DEF TypeOK, Document
  <2> QED BY <1>1, <2>1 DEF settled, Document, Stage
<1> QED BY <1>1, <1>2, <1>3, <1>4

\* What the engine writes of the record it read is a document.
LEMMA EngineFieldsType ==
  ASSUME TypeOK, NEW doc \in Document
  PROVE  engine_fields(doc) \in Document
<1>1. issue.stage \in Stage /\ issue.relaunch \in BOOLEAN /\ issue.deferred \in BOOLEAN
  BY DEF TypeOK, Issue
<1> QED BY <1>1 DEF engine_fields, Document

\* What a handler leaves is an issue.
LEMMA HandlerTypes ==
  ASSUME TypeOK
  PROVE  /\ begin(issue) \in Issue
         /\ heal_cleaning(overlay(issue, record)) \in Issue
         /\ adopt(issue) \in Issue
         /\ commit_effect(issue, effect) \in Issue
<1>1. issue \in Issue /\ record \in Document /\ effect \in Effect BY DEF TypeOK
<1>2. begin(issue) \in Issue BY <1>1 DEF begin, Issue, Stage
<1>3. overlay(issue, record) \in Issue
  BY <1>1 DEF overlay, Issue, Document
<1>4. \A s \in Issue : heal_cleaning(s) \in Issue
  BY <1>1 DEF heal_cleaning, Issue, Document
<1>5. adopt(issue) \in Issue BY <1>1 DEF adopt, Issue, Stage
<1>6. commit_launch(issue, effect) \in Issue
  BY <1>1 DEF commit_launch, Issue, Effect, Stage
<1>7. commit_checkpoint(issue, effect) \in Issue
  BY <1>1 DEF commit_checkpoint, Issue
<1>8. commit_cleanup(issue, effect) \in Issue
  BY <1>1 DEF commit_cleanup, Issue, Stage
<1>9. commit_effect(issue, effect) \in Issue
  BY <1>6, <1>7, <1>8 DEF commit_effect
<1> QED BY <1>2, <1>3, <1>4, <1>5, <1>9

LEMMA TypeInit == Init => TypeOK
<1> SUFFICES ASSUME Init PROVE TypeOK
  OBVIOUS
<1>1. issue \in Issue
  <2>1. 0 \in 0 .. 2 OBVIOUS
  <2> QED BY <2>1 DEF Init, Issue, Stage
<1>2. record \in Document
  BY DEF Init, Document, Blank, Stage
<1>3. effect \in Effect /\ copy \in [Worker -> Document]
  BY LiteralTypes DEF Init
<1>4. previous \in [Finisher -> Stage] /\ pc \in [Worker -> Step]
  BY DEF Init, Stage, Step
<1> QED BY <1>1, <1>2, <1>3, <1>4 DEF Init, TypeOK

\* A handler that leaves an issue keeps the types.
LEMMA HandledType ==
  ASSUME TypeOK, NEW s \in Issue, NEW o, Handled(s, o)
  PROVE  TypeOK'
  BY DEF Handled, TypeOK, thread, world

\* The state thread's steps keep the types.
LEMMA TypeStateThread == TypeOK /\ StateThread => TypeOK'
<1> SUFFICES ASSUME TypeOK, StateThread PROVE TypeOK'
  OBVIOUS
<1> DEFINE pendings == {"none", "checkpoint", "launch", "cleanup"}
<1>a. issue \in Issue BY DEF TypeOK
<1>b. \A p \in pendings : [issue EXCEPT !.pending = p] \in Issue
  BY <1>a DEF Issue
<1>1. CASE Refresh
  BY <1>1, HandlerTypes DEF Refresh, TypeOK, world
<1>2. CASE Gone
  <2>1. issue.launches \in 0 .. 2 BY <1>a DEF Issue
  <2>2. issue.launches < 2 BY <1>2 DEF Gone
  <2>3. issue.launches + 1 \in 0 .. 2 BY <2>1, <2>2
  <2>4. \A n \in 0 .. 2 : [issue EXCEPT !.pending = "checkpoint", !.follow = "launch",
                                        !.launches = n] \in Issue
    BY <1>a DEF Issue
  <2> QED BY <1>2, <2>3, <2>4, HandledType DEF Gone
<1>3. CASE Merged
  <2> DEFINE s == [issue EXCEPT !.stage = "cleaning", !.deferred = FALSE, !.relaunch = FALSE]
  <2>1. s \in Issue BY <1>a DEF Issue, Stage
  <2>2. [s EXCEPT !.pending = "cleanup"] \in Issue /\ [s EXCEPT !.follow = "cleanup"] \in Issue
    BY <2>1 DEF Issue
  <2> HIDE DEF s
  <2>3. Handled(IF issue.pending = "none" THEN [s EXCEPT !.pending = "cleanup"]
                                          ELSE [s EXCEPT !.follow = "cleanup"], TRUE)
    BY <1>3 DEF Merged, s
  <2> QED BY <2>2, <2>3, HandledType
<1>4. CASE Wave
  BY <1>4, <1>b, HandledType DEF Wave
<1>5. CASE Rearm
  BY <1>5, <1>b, HandledType DEF Rearm
<1>6. CASE Save
  BY <1>6, EngineFieldsType DEF Save, TypeOK, world
<1>7. CASE StartCall
  <2>1. issue.pending \in pendings BY <1>a DEF Issue
  <2> QED BY <1>7, <2>1, LiteralTypes DEF StartCall, TypeOK, thread, world
<1>8. CASE EffectDone
  BY <1>8, HandlerTypes, LiteralTypes DEF EffectDone, TypeOK, world
<1>9. ASSUME NEW changed \in BOOLEAN, Report(changed) PROVE TypeOK'
  <2>1. adopt(issue) \in Issue BY HandlerTypes
  <2>2. [adopt(issue) EXCEPT !.deferred = @ /\ ~changed] \in Issue
    BY <2>1 DEF Issue
  <2> QED BY <1>9, <2>2, HandledType DEF Report
<1> QED BY <1>1, <1>2, <1>3, <1>4, <1>5, <1>6, <1>7, <1>8, <1>9 DEF StateThread

\* The effect thread's steps keep the types.
LEMMA TypeEffectThread == TypeOK /\ EffectThread => TypeOK'
<1> SUFFICES ASSUME TypeOK, EffectThread PROVE TypeOK'
  OBVIOUS
<1>a. record \in Document /\ copy[Engine] \in Document /\ Engine \in Worker
  BY DEF TypeOK, Worker
<1>b. \A doc \in Document, stage \in Stage : [doc EXCEPT !.stage = stage] \in Document
  BY DEF Document
<1>1. CASE CheckpointDone
  BY <1>1, LiteralTypes DEF CheckpointDone, TypeOK, thread, world
<1>2. CASE LaunchEnds
  <2>1. record.stage \in Stage BY <1>a DEF Document
  <2>2. /\ [at |-> "settled", stage |-> record.stage] \in Effect
        /\ [at |-> "failed", stage |-> record.stage] \in Effect
    BY <2>1 DEF Effect
  <2> QED BY <1>2, <2>2, LiteralTypes DEF LaunchEnds, NoLaunch, TypeOK, thread, world
<1>3. CASE LaunchBegins
  <2>1. record' \in Document BY <1>3, <1>a, <1>b DEF LaunchBegins, Stage
  <2> QED BY <1>3, <1>a, <2>1, LiteralTypes DEF LaunchBegins, TypeOK, thread, world
<1>4. ASSUME NEW at \in {"applied", "failed"}, NEW stage \in Stage, LaunchReturns(at, stage)
      PROVE  /\ effect' \in Effect /\ record' \in Document
             /\ copy' \in [Worker -> Document]
             /\ lock' \in Worker \cup {Free, Jammed}
  <2>1. effect' \in Effect BY <1>4 DEF LaunchReturns, Effect
  <2> QED BY <1>4, <1>a, <1>b, <2>1, LiteralTypes DEF LaunchReturns, TypeOK
<1>5. CASE LaunchStarts
  <2>1. "running" \in Stage BY DEF Stage
  <2> QED BY <1>4, <1>5, <2>1 DEF LaunchStarts, LaunchReturns, TypeOK, thread
<1>6. CASE LaunchFails
  <2>1. {"", "replacing", "uncertain"} \subseteq Stage BY DEF Stage
  <2> QED BY <1>4, <1>6, <2>1 DEF LaunchFails, LaunchReturns, TypeOK, thread
<1>7. CASE Retry
  BY <1>7, <1>a, FinishTypes, LiteralTypes DEF Retry, TypeOK, thread, world, Step
<1> QED BY <1>1, <1>2, <1>3, <1>5, <1>6, <1>7 DEF EffectThread

\* A finish that returns keeps the types of what it sets.
LEMMA ReturnType ==
  ASSUME TypeOK, NEW w \in Worker, NEW step \in Step, NEW doc \in Document,
         Return(w, step, doc), record' \in Document, tree' \in BOOLEAN, branch' \in BOOLEAN,
         lock' \in {lock, Free}
  PROVE  TypeOK'
<1>1. effect' \in Effect BY LiteralTypes DEF Return, TypeOK
<1>2. pc' \in [Worker -> Step] BY DEF Return, TypeOK, Step
<1> QED BY <1>1, <1>2, LiteralTypes DEF Return, TypeOK, thread

\* A finish's steps keep the types.
LEMMA TypeFinish == ASSUME TypeOK, NEW w \in Worker, Finish(w) PROVE TypeOK'
<1>a. /\ Tearing \subseteq Step
      /\ {"idle", "releasing", "refused", "returned"} \subseteq Step
  BY DEF Tearing, Step
<1>b. record \in Document /\ copy[w] \in Document /\ tree \in BOOLEAN /\ branch \in BOOLEAN
  BY DEF TypeOK
<1>1. CASE Passes(w)
  BY <1>1, <1>a, <1>b, FinishTypes, ReturnType DEF Passes
<1>2. CASE Refuse(w)
  BY <1>2, <1>a, <1>b, FinishTypes, ReturnType DEF Refuse
<1>3. CASE Enter(w)
  <2>1. entry(record) \in Step BY DEF entry, Step
  <2>2. skips(w) \in BOOLEAN BY DEF skips, TypeOK
  <2> QED BY <1>3, <2>1, <2>2, FinishTypes DEF Enter, TypeOK, thread, world
<1>4. CASE ExitAgent(w)
  BY <1>4, <1>a DEF ExitAgent, TypeOK, thread, Tearing
<1>5. CASE WriteIntent(w)
  <2>1. [incomplete(copy[w]) EXCEPT !.intent = TRUE] \in Document
    BY FinishTypes DEF Document
  <2> QED BY <1>5, <1>a, <2>1 DEF WriteIntent, Advance, TypeOK, thread, world, Tearing
<1>6. CASE RemoveTree(w)
  BY <1>6, <1>a DEF RemoveTree, TypeOK, thread, Tearing
<1>7. CASE WriteRemoved(w)
  <2>1. [incomplete(copy[w]) EXCEPT !.removed = TRUE, !.cut = FALSE] \in Document
    BY FinishTypes DEF Document
  <2> QED BY <1>7, <1>a, <2>1 DEF WriteRemoved, Advance, TypeOK, thread, world, Tearing
<1>8. CASE DeleteBranch(w)
  BY <1>8 DEF DeleteBranch, TypeOK, thread
<1>9. CASE Settle(w)
  BY <1>9, <1>a, <1>b, FinishTypes, ReturnType DEF Settle, GivesBack
<1>10. CASE TeardownFails(w)
  BY <1>10, <1>a, <1>b, FinishTypes, ReturnType DEF TeardownFails, GivesBack
<1>11. CASE Release(w)
  BY <1>11, <1>a DEF Release, TypeOK, thread, world
<1> QED
  BY Zenon, <1>1, <1>2, <1>3, <1>4, <1>5, <1>6, <1>7, <1>8, <1>9, <1>10, <1>11 DEF Finish

\* The messages of a finish, and the environment, keep the types.
LEMMA TypeRest ==
  ASSUME TypeOK, (\E f \in Finisher : Tell(f)) \/ Environment
  PROVE  TypeOK'
<1>1. ASSUME NEW f \in Finisher, End(f) PROVE TypeOK'
  <2>1. "ended" \in Step /\ "" \in Stage BY DEF Step, Stage
  <2>2. issue \in Issue /\ record \in Document /\ previous[f] \in Stage BY DEF TypeOK
  <2>3. issue' \in Issue BY <1>1, <2>2 DEF End, Issue, Document
  <2> QED BY <1>1, <2>1, <2>3 DEF End, TypeOK, world
<1>2. ASSUME NEW f \in Finisher, NEW skip \in BOOLEAN, Begin(f, skip) PROVE TypeOK'
  <2>1. "begun" \in Step BY DEF Step
  <2>2. issue.stage \in Stage BY DEF TypeOK, Issue
  <2> QED BY <1>2, <2>1, <2>2, HandlerTypes DEF Begin, TypeOK, world
<1>3. ASSUME NEW f \in Finisher, Die(f) PROVE TypeOK'
  <2>1. "dead" \in Step /\ "" \in Stage BY DEF Step, Stage
  <2>2. lock' \in Worker \cup {Free, Jammed} BY <1>3 DEF Die, Left, TypeOK, Worker
  <2> QED BY <1>3, <2>1, <2>2, LiteralTypes DEF Die, TypeOK, thread, world
<1>4. CASE PaneDies
  BY <1>4 DEF PaneDies, TypeOK, thread
<1>5. CASE MergePR
  BY <1>5 DEF MergePR, TypeOK, thread
<1>6. CASE Gate
  <2>1. record' \in Document BY <1>6 DEF Gate, TypeOK, Document, Stage
  <2> QED BY <1>6, <2>1 DEF Gate, TypeOK, thread, world
<1> QED BY <1>1, <1>2, <1>3, <1>4, <1>5, <1>6 DEF Tell, Environment

-----------------------------------------------------------------------------
(* The stages a handler or a finish leaves. *)

\* What is asked for, and what is merged, stays so.
Grows == (asked => asked') /\ (merged => merged')

LEMMA HandlerStages ==
  ASSUME TypeOK, Known
  PROVE  /\ begin(issue).stage = "cleaning"
         /\ true(heal_cleaning(overlay(issue, record)).stage)
         /\ true(adopt(issue).stage)
         /\ effect.at # "none" => true(commit_effect(issue, effect).stage)
<1>1. issue \in Issue /\ record \in Document /\ effect \in Effect BY DEF TypeOK
<1>2. begin(issue).stage = "cleaning" BY <1>1 DEF begin, Issue
<1>3. overlay(issue, record).stage \in {issue.stage, record.stage}
  BY <1>1 DEF overlay, Issue
<1>4. heal_cleaning(overlay(issue, record)).stage \in {issue.stage, record.stage}
  <2>1. overlay(issue, record) \in Issue BY <1>1 DEF overlay, Issue, Document
  <2> QED BY <1>3, <2>1 DEF heal_cleaning, Issue
<1>5. adopt(issue).stage \in {issue.stage, "running"} BY <1>1 DEF adopt, Issue
<1>6. ASSUME effect.at # "none" PROVE true(commit_effect(issue, effect).stage)
  <2>1. commit_launch(issue, effect).stage \in {issue.stage, effect.stage, "running"}
    BY <1>1 DEF commit_launch, Issue
  <2>2. commit_checkpoint(issue, effect).stage = issue.stage
    BY <1>1 DEF commit_checkpoint, Issue
  <2>3. commit_cleanup(issue, effect).stage \in {"merged", "cleanup-incomplete"}
    BY <1>1 DEF commit_cleanup, Issue
  <2>4. issue.pending \notin {"launch", "checkpoint"} => issue.pending = "cleanup"
    BY <1>1, <1>6 DEF Known, Issue
  <2> QED BY <2>1, <2>2, <2>3, <2>4 DEF commit_effect, Known, true
<1> QED BY <1>2, <1>4, <1>5, <1>6 DEF Known, true

LEMMA HandlerPendings ==
  ASSUME TypeOK, Known
  PROVE  /\ begin(issue).pending = issue.pending /\ begin(issue).follow = "none"
         /\ LET h == heal_cleaning(overlay(issue, record))
            IN  h.pending = issue.pending /\ h.follow = issue.follow
         /\ adopt(issue).pending = issue.pending /\ adopt(issue).follow = issue.follow
         /\ LET c == commit_effect(issue, effect)
            IN  c.pending = "cleanup" \/ c.follow = "cleanup" => merged
<1>1. issue \in Issue BY DEF TypeOK
<1>2. begin(issue).pending = issue.pending /\ begin(issue).follow = "none"
  BY <1>1 DEF begin, Issue
<1>3. /\ overlay(issue, record).pending = issue.pending
      /\ overlay(issue, record).follow = issue.follow
  BY <1>1 DEF overlay, Issue
<1>4. /\ heal_cleaning(overlay(issue, record)).pending = issue.pending
      /\ heal_cleaning(overlay(issue, record)).follow = issue.follow
  BY <1>3 DEF heal_cleaning
<1>5. adopt(issue).pending = issue.pending /\ adopt(issue).follow = issue.follow
  BY <1>1 DEF adopt, Issue
<1>6. commit_effect(issue, effect).pending = "cleanup"
        \/ commit_effect(issue, effect).follow = "cleanup" => merged
  <2>1. /\ commit_launch(issue, effect).pending = "none"
        /\ commit_launch(issue, effect).follow = issue.follow
    BY <1>1 DEF commit_launch, Issue
  <2>2. /\ commit_checkpoint(issue, effect).pending \in {"none", issue.follow}
        /\ commit_checkpoint(issue, effect).follow = "none"
    BY <1>1 DEF commit_checkpoint, Issue
  <2>3. /\ commit_cleanup(issue, effect).pending = "none"
        /\ commit_cleanup(issue, effect).follow = issue.follow
    BY <1>1 DEF commit_cleanup, Issue
  <2> QED BY <2>1, <2>2, <2>3 DEF commit_effect, Known
<1> QED BY <1>2, <1>4, <1>5, <1>6

LEMMA FinishStages ==
  ASSUME TypeOK, Known, Licensed, NEW w \in Worker, NEW removed \in BOOLEAN
  PROVE  /\ incomplete(record).stage = "cleanup-incomplete"
         /\ incomplete(copy[w]).stage = "cleanup-incomplete"
         /\ true(prechecked.stage)
         /\ pc[w] \in Tearing => true(settled(w, removed).stage)
<1>1. record \in Document /\ copy[w] \in Document BY DEF TypeOK
<1>2. /\ incomplete(record).stage = "cleanup-incomplete"
      /\ incomplete(copy[w]).stage = "cleanup-incomplete"
  BY <1>1 DEF incomplete, Document
<1>3. prechecked.stage \in {record.stage, "cleanup-incomplete"}
  BY <1>2 DEF prechecked
<1>4. ASSUME pc[w] \in Tearing PROVE true(settled(w, removed).stage)
  <2>1. abandon[w] \in BOOLEAN BY DEF TypeOK
  <2>2. /\ settled(w, removed).stage = "abandoned" => abandon[w]
        /\ settled(w, removed).stage = "merged" => ~abandon[w]
    BY <1>1, <2>1 DEF settled, Document
  <2>3. /\ abandon[w] => asked
        /\ ~abandon[w] => merged
    BY <1>4 DEF Licensed, asked, Worker
  <2> QED BY <2>2, <2>3 DEF true
<1> QED BY <1>2, <1>3, <1>4 DEF Known, true

-----------------------------------------------------------------------------
(* The invariant. *)

LEMMA InvInit == Init => IInv
<1> SUFFICES ASSUME Init PROVE IInv
  OBVIOUS
<1>1. TypeOK BY TypeInit
<1>2. Exclusive BY DEF Init, Exclusive, Tearing, Worker, Nothing
<1>3. Quiet BY DEF Init, Quiet, NoAgentWithoutTree
<1>4. Licensed
  BY DEF Init, Licensed, TornOnlyMergedOrAsked, BranchGoneOnlyMerged, Tearing, Worker
<1>5. Known BY DEF Init, Known, true, Blank, Nothing
<1> QED BY <1>1, <1>2, <1>3, <1>4, <1>5 DEF IInv

\* While a launch holds the lock, or it can be had, nobody tears down.
LEMMA NobodyTears ==
  ASSUME IInv, effect.at = "launching" \/ obtainable
  PROVE  /\ \A w \in Worker : pc[w] \notin Tearing \cup {"releasing"}
         /\ obtainable => effect.at # "launching"
<1>1. /\ Free \notin Worker /\ Engine \notin Finisher /\ Engine \in Worker
      /\ "dead" \notin Tearing \cup {"releasing"}
  BY BracketConstants DEF Worker, Tearing
<1>2. obtainable => effect.at # "launching"
  BY <1>1 DEF IInv, Exclusive, obtainable
<1>3. ASSUME NEW w \in Worker, pc[w] \in Tearing \cup {"releasing"} PROVE FALSE
  <2>1. lock = w BY <1>3 DEF IInv, Exclusive
  <2>2. ~obtainable BY <1>1, <1>3, <2>1 DEF obtainable
  <2>3. effect.at = "launching" /\ w = Engine BY <2>1, <2>2 DEF IInv, Exclusive
  <2> QED BY <1>3, <2>3 DEF IInv, Exclusive
<1> QED BY <1>2, <1>3

\* A step that leaves the finishes, the effect and the world alone, and takes the
\* lock only where it can be had.
LEMMA Untouched ==
  ASSUME IInv, UNCHANGED <<effect, pc, abandon, world>>, lock' = lock \/ obtainable
  PROVE  Exclusive' /\ Quiet' /\ Licensed' /\ Grows
<1> USE DEF world
<1>1. Exclusive'
  <2>1. CASE lock' = lock BY <2>1 DEF IInv, Exclusive
  <2>2. CASE obtainable BY <2>2, NobodyTears DEF IInv, Exclusive
  <2> QED BY <2>1, <2>2
<1>2. Quiet' BY DEF IInv, Quiet, NoAgentWithoutTree
<1>3. Licensed' /\ Grows
  BY DEF IInv, Licensed, TornOnlyMergedOrAsked, BranchGoneOnlyMerged, asked, Grows
<1> QED BY <1>1, <1>2, <1>3

\* A handler keeps the invariant if its stage, and what it arms, are true.
LEMMA HandledInv ==
  ASSUME IInv, NEW s, NEW o, Handled(s, o), TypeOK', true(s.stage),
         s.pending = "cleanup" \/ s.follow = "cleanup" => merged,
         s.pending = "none" => issue.pending = "none"
  PROVE  IInv'
<1>1. Exclusive' /\ Quiet' /\ Licensed' /\ Grows BY Untouched DEF Handled
<1>2. Known'
  BY <1>1 DEF IInv, Known, true, Handled, Grows, world
<1> QED BY <1>1, <1>2 DEF IInv

LEMMA InvStateThread == IInv /\ StateThread => IInv'
<1> SUFFICES ASSUME IInv, StateThread PROVE IInv'
  OBVIOUS
<1>a. TypeOK /\ Known /\ TypeOK' BY TypeStateThread DEF IInv
<1>b. issue \in Issue /\ effect \in Effect BY <1>a DEF TypeOK
<1>1. CASE Refresh
  <2>1. Exclusive' /\ Quiet' /\ Licensed' /\ Grows
    <3>1. lock' = lock \/ obtainable BY <1>1 DEF Refresh, stale
    <3> QED BY <1>1, <3>1, Untouched DEF Refresh
  <2>2. Known'
    BY <1>1, <1>a, <2>1, HandlerStages, HandlerPendings DEF Refresh, Known, true, Grows
  <2> QED BY <1>a, <2>1, <2>2 DEF IInv
<1>2. CASE Gone
  <2> DEFINE s == [issue EXCEPT !.pending = "checkpoint", !.follow = "launch",
                                !.launches = @ + 1]
  <2>1. s.stage = issue.stage /\ s.pending = "checkpoint" /\ s.follow = "launch"
    BY <1>b DEF Issue
  <2>2. Handled(s, FALSE) BY <1>2 DEF Gone
  <2> HIDE DEF s
  <2> QED BY <1>a, <2>1, <2>2, HandledInv DEF Known
<1>3. CASE Merged
  <2> DEFINE s == [issue EXCEPT !.stage = "cleaning", !.deferred = FALSE, !.relaunch = FALSE]
             t == IF issue.pending = "none" THEN [s EXCEPT !.pending = "cleanup"]
                                            ELSE [s EXCEPT !.follow = "cleanup"]
  <2>1. /\ t.stage = "cleaning"
        /\ t.pending = "none" => issue.pending = "none"
    BY <1>b DEF Issue
  <2>2. Handled(t, TRUE) /\ merged BY <1>3 DEF Merged
  <2>3. true(t.stage) BY <2>1 DEF true
  <2> HIDE DEF t
  <2> QED BY <1>a, <2>1, <2>2, <2>3, HandledInv
<1>4. CASE Wave
  <2> DEFINE s == [issue EXCEPT !.pending = "checkpoint"]
  <2>1. s.stage = issue.stage /\ s.pending = "checkpoint" /\ s.follow = issue.follow
    BY <1>b DEF Issue
  <2>2. Handled(s, FALSE) BY <1>4 DEF Wave
  <2> HIDE DEF s
  <2> QED BY <1>a, <2>1, <2>2, HandledInv DEF Known
<1>5. CASE Rearm
  <2> DEFINE s == [issue EXCEPT !.pending = "launch"]
  <2>1. s.stage = issue.stage /\ s.pending = "launch" /\ s.follow = issue.follow
    BY <1>b DEF Issue
  <2>2. Handled(s, FALSE) BY <1>5 DEF Rearm
  <2> HIDE DEF s
  <2> QED BY <1>a, <2>1, <2>2, HandledInv DEF Known
<1>6. CASE Save
  <2>1. Exclusive' /\ Quiet' /\ Licensed' /\ Grows BY <1>6, Untouched DEF Save
  <2>2. PICK doc \in saving : record' = engine_fields(doc) BY <1>6 DEF Save
  <2>3. doc \in Document BY <1>a, <2>2 DEF TypeOK
  <2>4. record'.stage \in {doc.stage, issue.stage}
    BY <2>2, <2>3 DEF engine_fields, Document
  <2>5. Known'
    BY <1>6, <1>a, <2>1, <2>4 DEF Save, Known, true, Grows
  <2> QED BY <1>a, <2>1, <2>5 DEF IInv
<1>7. CASE StartCall
  <2>1. /\ effect.at = "none" /\ effect'.at = issue.pending /\ effect'.stage = ""
        /\ issue.pending # "launching"
    BY <1>7, <1>b DEF StartCall, Nothing, Returned, Issue
  <2>2. Exclusive' BY <1>7, <2>1 DEF StartCall, IInv, Exclusive
  <2>3. Quiet' BY <1>7 DEF StartCall, IInv, Quiet, NoAgentWithoutTree, world
  <2>4. Licensed' /\ Grows
    BY <1>7 DEF StartCall, IInv, Licensed, TornOnlyMergedOrAsked, BranchGoneOnlyMerged,
                asked, world, Grows
  <2>5. Known' BY <1>7, <1>a, <2>1, <2>4 DEF StartCall, Known, true, thread, world, Grows
  <2> QED BY <1>a, <2>2, <2>3, <2>4, <2>5 DEF IInv
<1>8. CASE EffectDone
  <2>1. effect.at # "none" /\ effect.at # "cleanup" /\ effect'.at = "none" /\ effect'.stage = ""
    BY <1>8 DEF EffectDone, Nothing
  <2>2. Exclusive' BY <1>8, <2>1 DEF EffectDone, IInv, Exclusive
  <2>3. Quiet' BY <1>8 DEF EffectDone, IInv, Quiet, NoAgentWithoutTree, world
  <2>4. Licensed' /\ Grows
    BY <1>8 DEF EffectDone, IInv, Licensed, TornOnlyMergedOrAsked, BranchGoneOnlyMerged,
                asked, world, Grows
  <2>5. Known'
    BY <1>8, <1>a, <2>1, <2>4, HandlerStages, HandlerPendings
    DEF EffectDone, Known, true, world, Grows
  <2> QED BY <1>a, <2>2, <2>3, <2>4, <2>5 DEF IInv
<1>9. ASSUME NEW changed \in BOOLEAN, Report(changed) PROVE IInv'
  <2> DEFINE s == [adopt(issue) EXCEPT !.deferred = @ /\ ~changed]
  <2>1. adopt(issue) \in Issue BY <1>a, HandlerTypes
  <2>2. s.stage = adopt(issue).stage /\ s.pending = issue.pending /\ s.follow = issue.follow
    BY <1>a, <2>1, HandlerPendings DEF Issue
  <2>3. Handled(s, changed \/ adopts(issue)) BY <1>9 DEF Report
  <2>4. true(s.stage) BY <1>a, <2>2, HandlerStages
  <2> HIDE DEF s
  <2> QED BY <1>a, <2>2, <2>3, <2>4, HandledInv DEF Known
<1> QED BY <1>1, <1>2, <1>3, <1>4, <1>5, <1>6, <1>7, <1>8, <1>9 DEF StateThread

\* The effect thread goes on with a call that is neither a cleanup nor a launch
\* that began.
LEMMA EffectInv ==
  ASSUME IInv, TypeOK', UNCHANGED <<thread, record, lock, pc, copy, abandon, previous, world>>,
         effect.at \notin {"none", "cleanup"}, effect'.at # "launching", true(effect'.stage)
  PROVE  IInv'
<1>1. Exclusive' BY DEF IInv, Exclusive
<1>2. Quiet' BY DEF IInv, Quiet, NoAgentWithoutTree, world
<1>3. Licensed'
  BY DEF IInv, Licensed, TornOnlyMergedOrAsked, BranchGoneOnlyMerged, asked, world
<1>4. Known' BY DEF IInv, Known, true, asked, thread, world
<1> QED BY <1>1, <1>2, <1>3, <1>4 DEF IInv

LEMMA InvEffectThread == IInv /\ EffectThread => IInv'
<1> SUFFICES ASSUME IInv, EffectThread PROVE IInv'
  OBVIOUS
<1>a. TypeOK /\ Known /\ TypeOK' BY TypeEffectThread DEF IInv
<1>b. record \in Document /\ copy[Engine] \in Document /\ Engine \in Worker
  BY <1>a DEF TypeOK, Worker
<1>1. CASE CheckpointDone
  <2>1. effect'.at \in {"applied", "failed"} /\ effect'.stage = ""
    <3>1. PICK at \in {"applied", "failed"} : effect' = Returned(at)
      BY <1>1 DEF CheckpointDone
    <3> QED BY <3>1 DEF Returned
  <2>2. true(effect'.stage) BY <2>1 DEF true
  <2> QED BY <1>1, <1>a, <2>1, <2>2, EffectInv DEF CheckpointDone
<1>2. CASE LaunchEnds
  <2>1. /\ effect'.at \in {"settled", "wait", "failed"}
        /\ effect'.stage \in {"", record.stage}
    <3>1. \/ effect' = [at |-> "settled", stage |-> record.stage]
          \/ effect' = Returned("wait")
          \/ effect' = [at |-> "failed", stage |-> record.stage]
      BY <1>2 DEF LaunchEnds, NoLaunch
    <3>2. CASE effect' = [at |-> "settled", stage |-> record.stage]
      BY <3>2
    <3>3. CASE effect' = Returned("wait")
      BY <3>3 DEF Returned
    <3>4. CASE effect' = [at |-> "failed", stage |-> record.stage]
      BY <3>4
    <3> QED BY <3>1, <3>2, <3>3, <3>4
  <2>2. true(effect'.stage) BY <1>a, <2>1 DEF Known, true
  <2> QED BY <1>2, <1>a, <2>1, <2>2, EffectInv DEF LaunchEnds, NoLaunch
<1>3. CASE LaunchBegins
  <2>1. /\ effect'.at = "launching" /\ effect'.stage = "" /\ lock' = Engine
        /\ \A w \in Worker : pc'[w] \notin Tearing \cup {"releasing"}
    BY <1>3, NobodyTears DEF LaunchBegins, Returned
  <2>2. /\ record'.stage = "starting"
        /\ \A w \in Worker : copy'[w].stage \in {copy[w].stage, "starting"}
    BY <1>3, <1>a, <1>b DEF LaunchBegins, TypeOK, Document
  <2>3. Exclusive' BY <1>b, <2>1 DEF Exclusive
  <2>4. Quiet' BY <1>3 DEF LaunchBegins, IInv, Quiet, NoAgentWithoutTree, world
  <2>5. Licensed'
    BY <1>3 DEF LaunchBegins, IInv, Licensed, TornOnlyMergedOrAsked, BranchGoneOnlyMerged,
                asked, world
  <2>6. Known'
    BY <1>3, <1>a, <2>1, <2>2 DEF LaunchBegins, Known, true, asked, thread, world
  <2> QED BY <1>a, <2>3, <2>4, <2>5, <2>6 DEF IInv
<1>4. ASSUME NEW at \in {"applied", "failed"}, NEW stage \in {"", "running", "replacing", "uncertain"},
             LaunchReturns(at, stage),
             \/ UNCHANGED <<agent, tree, branch>>
             \/ agent' = TRUE /\ tree' = TRUE /\ branch' = TRUE
      PROVE  IInv'
  <2>1. /\ effect.at = "launching" /\ effect'.at = at /\ effect'.stage = stage
        /\ \A w \in Worker : pc'[w] \notin Tearing \cup {"releasing"}
    BY <1>4, NobodyTears DEF LaunchReturns
  <2>2. /\ record'.stage = stage
        /\ \A w \in Worker : copy'[w].stage \in {copy[w].stage, ""}
    BY <1>4, <1>a, <1>b DEF LaunchReturns, TypeOK, Document, Blank
  <2>3. Exclusive' BY <1>b, <2>1 DEF Exclusive
  <2>4. Quiet'
    <3>1. agent' => tree'
      <4>1. agent => tree BY DEF IInv, Quiet, NoAgentWithoutTree
      <4>2. CASE UNCHANGED <<agent, tree, branch>> BY <4>1, <4>2
      <4>3. CASE agent' = TRUE /\ tree' = TRUE BY <4>3
      <4> QED BY <1>4, <4>2, <4>3
    <3> QED BY <2>1, <3>1 DEF Quiet, NoAgentWithoutTree, Tearing
  <2>5. Licensed'
    BY <1>4, <2>1 DEF LaunchReturns, IInv, Licensed, TornOnlyMergedOrAsked,
                      BranchGoneOnlyMerged, asked
  <2>6. true(stage) BY DEF true
  <2>7. Known'
    BY <1>4, <1>a, <2>1, <2>2, <2>6 DEF LaunchReturns, Known, true, asked, thread
  <2> QED BY <1>a, <2>3, <2>4, <2>5, <2>7 DEF IInv
<1>5. CASE LaunchStarts
  BY <1>4, <1>5 DEF LaunchStarts
<1>6. CASE LaunchFails
  BY <1>4, <1>6 DEF LaunchFails
<1>7. CASE Retry
  <2>1. /\ pc[Engine] \in Tearing /\ pc'[Engine] = "idle"
        /\ \A w \in Worker : w # Engine => pc'[w] = pc[w]
    BY <1>7, <1>a, <1>b DEF Retry, Tearing, TypeOK
  <2>2. \A w \in Worker : pc'[w] \notin Tearing \cup {"releasing"}
    BY <1>b, <2>1 DEF IInv, Exclusive, Tearing
  <2>3. effect.at = "cleanup" BY <2>1 DEF IInv, Exclusive
  <2>4. /\ record'.stage = "cleanup-incomplete"
        /\ \A w \in Worker : copy'[w].stage \in {copy[w].stage, ""}
    BY <1>7, <1>a, <1>b DEF Retry, incomplete, TypeOK, Document, Blank
  <2>5. Engine \notin Finisher /\ Finisher \subseteq Worker
    BY BracketConstants DEF Worker
  <2>6. \A f \in Finisher : abandon'[f] = abandon[f] /\ pc'[f] = pc[f]
    BY <1>7, <1>a, <2>1, <2>5 DEF Retry, TypeOK
  <2>7. ~abandon'[Engine] BY <1>7, <1>a, <1>b DEF Retry, TypeOK
  <2>8. Exclusive' BY <1>7, <1>b, <2>2, <2>3 DEF Retry, Exclusive
  <2>9. Quiet'
    BY <1>7, <2>2 DEF Retry, IInv, Quiet, NoAgentWithoutTree, world, Tearing
  <2>10. Licensed'
    BY <1>7, <2>2, <2>6, <2>7 DEF Retry, IInv, Licensed, TornOnlyMergedOrAsked,
                                  BranchGoneOnlyMerged, asked, world
  <2>11. Known'
    BY <1>7, <1>a, <2>4, <2>6 DEF Retry, Known, true, asked, thread, world
  <2> QED BY <1>a, <2>8, <2>9, <2>10, <2>11 DEF IInv
<1> QED BY <1>1, <1>2, <1>3, <1>5, <1>6, <1>7 DEF EffectThread

\* What a finish that returns may leave of the lock: it releases the one it holds,
\* or had what could be had, or had none.
Leaves(w, step) ==
  \/ lock' = lock /\ (step = "releasing" => w # Engine /\ pc[w] \in Tearing)
  \/ lock' = Free /\ step # "releasing" /\ obtainable
  \/ lock' = Free /\ w = Engine /\ pc[w] \in Tearing

\* A finish that returns leaves what is true.
LEMMA ReturnInv ==
  ASSUME IInv, TypeOK', NEW w \in Worker,
         NEW step \in {"releasing", "refused", "returned"}, NEW doc,
         Return(w, step, doc), due(w) \/ pc[w] \in Tearing, Leaves(w, step),
         true(record'.stage), UNCHANGED <<tree, branch>>
  PROVE  IInv'
<1>a. TypeOK /\ Known BY DEF IInv
<1>b. Engine \in Worker /\ Engine \notin Finisher /\ Finisher \subseteq Worker
  BY BracketConstants DEF Worker
<1>1. /\ pc'[w] \notin Tearing \cup {"exited", "prepared", "gone", "removed"}
      /\ pc'[w] = "idle" => w = Engine
      /\ \A v \in Worker : v # w => pc'[v] = pc[v]
  BY <1>a DEF Return, TypeOK, Tearing
<1>2. w = Engine => effect.at = "cleanup"
  BY DEF due, IInv, Exclusive
<1>c. pc'[w] = IF w = Engine THEN "idle" ELSE step BY <1>a DEF Return, TypeOK
\* Who else holds the lock keeps it.
<1>d. ASSUME NEW v \in Worker, pc'[v] \in Tearing \cup {"releasing"} PROVE lock' = v
  <2>1. CASE v = w
    <3>1. step = "releasing" /\ w # Engine
      BY <1>c, <1>d, <2>1 DEF Tearing
    <3>2. lock' = lock /\ pc[w] \in Tearing
      BY <3>1 DEF Leaves
    <3> QED BY <2>1, <3>2 DEF IInv, Exclusive
  <2>2. CASE v # w
    <3>1. pc[v] \in Tearing \cup {"releasing"} /\ lock = v
      BY <1>1, <1>d, <2>2 DEF IInv, Exclusive
    <3>2. ~obtainable BY <3>1, NobodyTears
    <3>3. pc[w] \notin Tearing BY <2>2, <3>1 DEF IInv, Exclusive
    <3> QED BY <3>1, <3>2, <3>3 DEF Leaves
  <2> QED BY <2>1, <2>2
<1>3. CASE w = Engine
  <2>1. effect'.at \in {"applied", "failed"} /\ effect'.stage = ""
    BY <1>3 DEF Return, Returned
  <2>2. /\ ~abandon'[Engine]
        /\ \A f \in Finisher : abandon'[f] = abandon[f]
    BY <1>3, <1>a, <1>b DEF Return, TypeOK
  <2>3. Exclusive'
    BY <1>c, <1>d, <1>3, <2>1 DEF Exclusive, Tearing
  <2>4. Quiet' BY <1>1 DEF Return, IInv, Quiet, NoAgentWithoutTree
  <2>5. ASSUME NEW v \in Worker, pc'[v] \in Tearing PROVE merged' \/ abandon'[v]
    <3>1. v # Engine /\ v \in Finisher /\ pc[v] \in Tearing BY <1>1, <1>3, <2>5 DEF Worker
    <3> QED BY <2>2, <3>1 DEF Return, IInv, Licensed
  <2>6. ASSUME NEW f \in Finisher PROVE pc'[f] = pc[f]
    BY <1>1, <1>3, <1>b
  <2>7. Licensed'
    BY <2>2, <2>5, <2>6 DEF Return, IInv, Licensed, TornOnlyMergedOrAsked,
                            BranchGoneOnlyMerged, asked
  <2>8. \A v \in Worker : copy'[v].stage \in {copy[v].stage, ""}
    BY <1>a DEF Return, TypeOK, Blank
  <2>9. issue.pending # "none" BY <1>2, <1>3 DEF IInv, Known
  <2>10. Known'
    BY <1>a, <2>1, <2>2, <2>8, <2>9 DEF Return, Known, true, asked, thread
  <2> QED BY <2>3, <2>4, <2>7, <2>10 DEF IInv
<1>4. CASE w # Engine
  <2>1. UNCHANGED <<effect, abandon>>
    BY <1>4 DEF Return
  <2>2. w \in Finisher BY <1>4 DEF Worker
  <2>3. Exclusive'
    <3>1. effect'.at = "launching" => lock' = Engine
      BY <1>4, <2>1, NobodyTears DEF Leaves, IInv, Exclusive
    <3>2. pc'[Engine] \in Tearing => effect'.at = "cleanup"
      BY <1>1, <1>4, <1>b, <2>1 DEF IInv, Exclusive
    <3>3. pc'[Engine] # "releasing" BY <1>1, <1>4, <1>b DEF IInv, Exclusive
    <3> QED BY <1>d, <3>1, <3>2, <3>3 DEF Exclusive
  <2>4. Quiet' BY <1>1 DEF Return, IInv, Quiet, NoAgentWithoutTree
  <2>5. Licensed'
    BY <1>1, <1>4, <2>1 DEF Return, IInv, Licensed, TornOnlyMergedOrAsked,
                            BranchGoneOnlyMerged, asked
  <2>6. \A v \in Worker : copy'[v].stage \in {copy[v].stage, ""}
    BY <1>a DEF Return, TypeOK, Blank
  <2>7. Known'
    BY <1>a, <2>1, <2>6 DEF Return, Known, true, asked, thread
  <2> QED BY <2>3, <2>4, <2>5, <2>7 DEF IInv
<1> QED BY <1>3, <1>4

\* A teardown that goes on to a step with nothing but the record written.
LEMMA AdvanceInv ==
  ASSUME IInv, TypeOK', NEW w \in Worker, NEW step \in Tearing, NEW doc,
         Advance(w, step, doc), pc[w] \in Tearing, true(doc.stage),
         step \in {"exited", "prepared", "gone", "removed"} => ~agent,
         step \in {"gone", "removed"} => ~tree
  PROVE  IInv'
<1>a. TypeOK /\ Known BY DEF IInv
<1>1. \A v \in Worker : pc'[v] = IF v = w THEN step ELSE pc[v]
  BY <1>a DEF Advance, TypeOK
<1>2. Exclusive' BY <1>1 DEF Advance, IInv, Exclusive, Tearing
<1>3. Quiet' BY <1>1 DEF Advance, IInv, Quiet, NoAgentWithoutTree, world
<1>4. step # "idle" BY DEF Tearing
<1>5. Licensed'
  <2>1. \A f \in Finisher : pc'[f] = "idle" => ~abandon'[f]
    BY <1>1, <1>4 DEF Advance, IInv, Licensed, Worker
  <2>2. \A v \in Worker : pc'[v] \in Tearing => merged' \/ abandon'[v]
    BY <1>1 DEF Advance, IInv, Licensed, world
  <2> QED BY <2>1, <2>2 DEF Advance, IInv, Licensed, TornOnlyMergedOrAsked,
                            BranchGoneOnlyMerged, asked, world
<1>6. record'.stage = doc.stage /\ \A v \in Worker : copy'[v].stage \in {copy[v].stage, doc.stage}
  BY <1>a DEF Advance, TypeOK
<1>7. Known' BY <1>a, <1>6 DEF Advance, Known, true, asked, thread, world
<1> QED BY <1>2, <1>3, <1>5, <1>7 DEF IInv

LEMMA InvFinish == ASSUME IInv, NEW w \in Worker, Finish(w) PROVE IInv'
<1>a. TypeOK /\ Known /\ Licensed /\ TypeOK' BY TypeFinish DEF IInv
<1>b. Engine \in Worker /\ Engine \notin Finisher /\ Finisher \subseteq Worker
  BY BracketConstants DEF Worker
<1>1. CASE Passes(w)
  <2>1. PICK step \in {"refused", "returned"}, doc \in {incomplete(record), record} :
          Return(w, step, doc) /\ Leaves(w, step)
    BY <1>1 DEF Passes, Leaves
  <2> QED BY <1>1, <1>a, <2>1, ReturnInv DEF Passes, Known
<1>2. CASE Refuse(w)
  <2>1. Leaves(w, "refused") BY <1>2 DEF Refuse, Leaves
  <2> QED BY <1>2, <1>a, <2>1, FinishStages, ReturnInv DEF Refuse
<1>3. CASE Enter(w)
  <2>1. /\ \A v \in Worker : pc[v] \notin Tearing \cup {"releasing"}
        /\ effect.at # "launching"
    BY <1>3, NobodyTears DEF Enter
  <2>2. /\ entry(record) \in {"owner", "removed", "gone"}
        /\ entry(record) \in {"removed", "gone"} => ~tree
    BY DEF entry
  <2>3. \A v \in Worker : pc'[v] = IF v = w THEN entry(record) ELSE pc[v]
    BY <1>3, <1>a DEF Enter, TypeOK
  <2>4. \A v \in Worker : abandon'[v] = IF v = w THEN skips(w) ELSE abandon[v]
    BY <1>3, <1>a DEF Enter, TypeOK
  <2>5. skips(w) => abandon[w] \/ asked BY <1>a DEF skips, Known, true
  <2>6. asked => asked' BY <2>4 DEF asked, skips, Worker
  <2>7. Exclusive'
    <3>1. UNCHANGED effect /\ lock' = w BY <1>3 DEF Enter
    <3>2. w = Engine => effect'.at = "cleanup" BY <1>3 DEF Enter, due
    <3> QED BY <1>b, <2>1, <2>2, <2>3, <3>1, <3>2 DEF Exclusive
  <2>8. Quiet'
    <3>1. \A v \in Worker : pc[v] \notin {"exited", "prepared", "gone", "removed"}
      BY <2>1 DEF Tearing
    <3> QED BY <1>3, <2>2, <2>3, <3>1 DEF Enter, IInv, Quiet, NoAgentWithoutTree, world
  <2>9. Licensed'
    <3>1. abandon'[Engine] => asked' BY <1>a, <1>b, <2>4, <2>5, <2>6 DEF Licensed
    <3>2. \A f \in Finisher : pc'[f] = "idle" => ~abandon'[f]
      BY <1>a, <1>b, <2>2, <2>3, <2>4 DEF Licensed
    <3>3. \A v \in Worker : pc'[v] \in Tearing => merged' \/ abandon'[v]
      BY <1>3, <2>1, <2>3, <2>4 DEF Enter, world
    <3> QED BY <1>3, <1>a, <2>6, <3>1, <3>2, <3>3
            DEF Enter, Licensed, TornOnlyMergedOrAsked, BranchGoneOnlyMerged, world
  <2>10. true(prechecked.stage) BY <1>a, FinishStages
  <2>11. record' = prechecked /\ \A v \in Worker : copy'[v] \in {copy[v], prechecked}
    BY <1>3, <1>a DEF Enter, TypeOK
  <2>12. Known'
    BY <1>3, <1>a, <2>6, <2>10, <2>11 DEF Enter, Known, true, thread, world
  <2> QED BY <1>a, <2>7, <2>8, <2>9, <2>12 DEF IInv
<1>4. CASE ExitAgent(w)
  <2>1. pc[w] = "owner" /\ \A v \in Worker : pc'[v] = IF v = w THEN "exited" ELSE pc[v]
    BY <1>4, <1>a DEF ExitAgent, TypeOK
  <2>2. Exclusive' BY <1>4, <2>1 DEF ExitAgent, IInv, Exclusive, Tearing
  <2>3. Quiet' BY <1>4, <2>1 DEF ExitAgent, IInv, Quiet, NoAgentWithoutTree
  <2>4. Licensed'
    BY <1>4, <1>b, <2>1 DEF ExitAgent, IInv, Licensed, TornOnlyMergedOrAsked,
                            BranchGoneOnlyMerged, asked, Tearing
  <2>5. Known' BY <1>4, <1>a DEF ExitAgent, Known, true, asked, thread
  <2> QED BY <1>a, <2>2, <2>3, <2>4, <2>5 DEF IInv
<1>5. CASE WriteIntent(w)
  <2> DEFINE doc == [incomplete(copy[w]) EXCEPT !.intent = TRUE]
  <2>1. doc.stage = "cleanup-incomplete"
    BY <1>a, FinishTypes, FinishStages DEF Document
  <2>2. pc[w] = "exited" /\ Advance(w, "prepared", doc) BY <1>5 DEF WriteIntent
  <2>3. ~agent BY <2>2 DEF IInv, Quiet
  <2>4. true(doc.stage) BY <2>1 DEF true
  <2> HIDE DEF doc
  <2> QED BY <1>a, <2>2, <2>3, <2>4, AdvanceInv DEF Tearing
<1>6. CASE RemoveTree(w)
  <2>1. pc[w] = "prepared" /\ \A v \in Worker : pc'[v] = IF v = w THEN "gone" ELSE pc[v]
    BY <1>6, <1>a DEF RemoveTree, TypeOK
  <2>2. Exclusive' BY <1>6, <2>1 DEF RemoveTree, IInv, Exclusive, Tearing
  <2>3. ~agent BY <2>1 DEF IInv, Quiet
  <2>4. Quiet' BY <1>6, <2>1, <2>3 DEF RemoveTree, IInv, Quiet, NoAgentWithoutTree
  <2>5. merged \/ abandon[w] BY <1>a, <2>1 DEF Licensed, Tearing
  <2>6. merged \/ asked BY <1>a, <2>5 DEF Licensed, asked, Worker
  <2>7. Licensed'
    BY <1>6, <1>b, <2>1, <2>5, <2>6 DEF RemoveTree, IInv, Licensed, TornOnlyMergedOrAsked,
                                   BranchGoneOnlyMerged, asked, Tearing
  <2>8. Known' BY <1>6, <1>a DEF RemoveTree, Known, true, asked, thread
  <2> QED BY <1>a, <2>2, <2>4, <2>7, <2>8 DEF IInv
<1>7. CASE WriteRemoved(w)
  <2> DEFINE doc == [incomplete(copy[w]) EXCEPT !.removed = TRUE, !.cut = FALSE]
  <2>1. doc.stage = "cleanup-incomplete"
    BY <1>a, FinishTypes, FinishStages DEF Document
  <2>2. pc[w] = "gone" /\ Advance(w, "removed", doc) BY <1>7 DEF WriteRemoved
  <2>3. ~agent /\ ~tree BY <2>2 DEF IInv, Quiet
  <2>4. true(doc.stage) BY <2>1 DEF true
  <2> HIDE DEF doc
  <2> QED BY <1>a, <2>2, <2>3, <2>4, AdvanceInv DEF Tearing
<1>8. CASE DeleteBranch(w)
  <2>1. merged BY <1>8, <1>a DEF DeleteBranch, Licensed, Tearing
  <2>2. Exclusive' BY <1>8 DEF DeleteBranch, IInv, Exclusive
  <2>3. Quiet' BY <1>8 DEF DeleteBranch, IInv, Quiet, NoAgentWithoutTree
  <2>4. Licensed'
    BY <1>8, <2>1 DEF DeleteBranch, IInv, Licensed, TornOnlyMergedOrAsked,
                      BranchGoneOnlyMerged, asked
  <2>5. Known' BY <1>8, <1>a DEF DeleteBranch, Known, true, asked, thread
  <2> QED BY <1>a, <2>2, <2>3, <2>4, <2>5 DEF IInv
<1>9. CASE Settle(w)
  <2>1. pc[w] \in Tearing /\ (pc[w] = "removed") \in BOOLEAN
    <3>1. pc[w] \in Tearing BY <1>9 DEF Settle, Tearing
    <3> QED BY <3>1
  <2>2. true(record'.stage)
    BY <1>9, <1>a, <2>1, FinishStages DEF Settle
  <2>3. Leaves(w, "releasing") BY <1>9, <2>1 DEF Settle, GivesBack, Leaves
  <2> QED BY <1>9, <1>a, <2>1, <2>2, <2>3, ReturnInv DEF Settle
<1>10. CASE TeardownFails(w)
  <2>1. pc[w] \in Tearing BY <1>10 DEF TeardownFails
  <2>2. true(record'.stage)
    BY <1>10, <1>a, FinishStages DEF TeardownFails, true
  <2>3. Leaves(w, "releasing") BY <1>10, <2>1 DEF TeardownFails, GivesBack, Leaves
  <2> QED BY <1>10, <1>a, <2>1, <2>2, <2>3, ReturnInv DEF TeardownFails
<1>11. CASE Release(w)
  <2>1. /\ pc[w] = "releasing" /\ w # Engine /\ lock = w
        /\ \A v \in Worker : pc'[v] = IF v = w THEN "returned" ELSE pc[v]
    BY <1>11, <1>a DEF Release, TypeOK, IInv, Exclusive
  <2>2. /\ effect.at # "launching"
        /\ \A v \in Worker : pc'[v] \notin Tearing \cup {"releasing"}
    BY <2>1 DEF IInv, Exclusive, Tearing
  <2>3. Exclusive' BY <1>11, <1>b, <2>2 DEF Release, Exclusive
  <2>4. Quiet' BY <1>11, <2>1 DEF Release, IInv, Quiet, NoAgentWithoutTree, world
  <2>5. Licensed'
    BY <1>11, <1>b, <2>1, <2>2 DEF Release, IInv, Licensed, TornOnlyMergedOrAsked,
                                   BranchGoneOnlyMerged, asked, world
  <2>6. Known' BY <1>11, <1>a DEF Release, Known, true, asked, thread, world
  <2> QED BY <1>a, <2>3, <2>4, <2>5, <2>6 DEF IInv
<1> QED
  BY Zenon, <1>1, <1>2, <1>3, <1>4, <1>5, <1>6, <1>7, <1>8, <1>9, <1>10, <1>11 DEF Finish

\* The messages of a finish, and the environment.
LEMMA InvRest ==
  ASSUME IInv, (\E f \in Finisher : Tell(f)) \/ Environment
  PROVE  IInv'
<1>a. TypeOK /\ Known /\ Licensed /\ TypeOK' BY TypeRest DEF IInv
<1>b. Engine \in Worker /\ Engine \notin Finisher /\ Finisher \subseteq Worker
  BY BracketConstants DEF Worker
<1>1. ASSUME NEW f \in Finisher, End(f) PROVE IInv'
  <2>1. pc[f] \notin Tearing /\ \A v \in Worker : pc'[v] = IF v = f THEN "ended" ELSE pc[v]
    BY <1>1, <1>a, <1>b DEF End, TypeOK, Tearing
  <2>2. "ended" \notin Tearing \cup {"idle"} BY DEF Tearing
  <2>3. Exclusive'
    <3>1. \A v \in Worker : pc'[v] \in Tearing \cup {"releasing"} => pc'[v] = pc[v]
      BY <2>1, <2>2
    <3>2. UNCHANGED <<effect, lock, world>> BY <1>1 DEF End
    <3> QED BY <1>b, <3>1, <3>2 DEF IInv, Exclusive
  <2>4. Quiet'
    <3>1. UNCHANGED <<agent, tree>> BY <1>1 DEF End, world
    <3> QED BY <2>1, <3>1 DEF IInv, Quiet, NoAgentWithoutTree
  <2>5. Licensed'
    BY <1>1, <1>b, <2>1, <2>2 DEF End, IInv, Licensed, TornOnlyMergedOrAsked,
                                  BranchGoneOnlyMerged, asked, world
  <2>6. issue'.stage \in {record.stage, previous[f]}
        /\ issue'.pending = issue.pending /\ issue'.follow = issue.follow
    BY <1>1, <1>a DEF End, TypeOK, Issue
  <2>7. \A g \in Finisher : previous'[g] \in {previous[g], ""}
    BY <1>1, <1>a DEF End, TypeOK
  <2>8. Known' BY <1>1, <1>a, <2>6, <2>7 DEF End, Known, true, asked, world
  <2> QED BY <1>a, <2>3, <2>4, <2>5, <2>8 DEF IInv
<1>2. ASSUME NEW f \in Finisher, NEW skip \in BOOLEAN, Begin(f, skip) PROVE IInv'
  <2>1. pc[f] = "idle" /\ \A v \in Worker : pc'[v] = IF v = f THEN "begun" ELSE pc[v]
    BY <1>2, <1>a, <1>b DEF Begin, TypeOK
  <2>2. "begun" \notin Tearing \cup {"idle"} BY DEF Tearing
  <2>3. /\ ~abandon[f] /\ f # Engine
        /\ \A v \in Worker : abandon'[v] = IF v = f THEN skip ELSE abandon[v]
    BY <1>2, <1>a, <1>b, <2>1 DEF Begin, Licensed, TypeOK
  <2>4. asked => asked' BY <2>3, <1>b DEF asked
  <2>5. Exclusive' BY <1>2, <2>1, <2>2 DEF Begin, IInv, Exclusive
  <2>6. Quiet' BY <1>2, <2>1 DEF Begin, IInv, Quiet, NoAgentWithoutTree, world
  <2>7. Licensed'
    <3>1. \A v \in Worker : pc'[v] \in Tearing => merged' \/ abandon'[v]
      BY <1>2, <1>a, <2>1, <2>2, <2>3 DEF Begin, Licensed, world
    <3>2. \A g \in Finisher : pc'[g] = "idle" => ~abandon'[g]
      BY <1>a, <1>b, <2>1, <2>2, <2>3 DEF Licensed
    <3> QED BY <1>2, <1>a, <1>b, <2>3, <2>4, <3>1, <3>2
            DEF Begin, Licensed, TornOnlyMergedOrAsked, BranchGoneOnlyMerged, world
  <2>8. issue'.stage = "cleaning" /\ issue'.pending = issue.pending /\ issue'.follow = "none"
    BY <1>2, <1>a DEF Begin, begin, TypeOK, Issue
  <2>9. \A g \in Finisher : previous'[g] \in {previous[g], issue.stage}
    BY <1>2, <1>a DEF Begin, TypeOK
  <2>10. Known' BY <1>2, <1>a, <2>4, <2>8, <2>9 DEF Begin, Known, true, world
  <2> QED BY <1>a, <2>5, <2>6, <2>7, <2>10 DEF IInv
<1>3. ASSUME NEW f \in Finisher, Die(f) PROVE IInv'
  <2>1. \A v \in Worker : pc'[v] = IF v = f THEN "dead" ELSE pc[v]
    BY <1>3, <1>a, <1>b DEF Die, TypeOK
  <2>2. "dead" \notin Tearing \cup {"idle"} BY DEF Tearing
  <2>3. Exclusive'
    <3>1. lock' \in Left(f) /\ UNCHANGED effect BY <1>3 DEF Die
    <3>2. ASSUME NEW v \in Worker, pc'[v] \in Tearing \cup {"releasing"} PROVE lock' = v
      <4>1. v # f /\ pc[v] \in Tearing \cup {"releasing"} /\ lock = v
        BY <2>1, <2>2, <3>2 DEF IInv, Exclusive
      <4>2. ~obtainable BY <4>1, NobodyTears
      <4>3. pc[f] # "releasing" BY <1>b, <4>1 DEF IInv, Exclusive
      <4> QED BY <3>1, <4>1, <4>2, <4>3 DEF Left
    <3>3. ASSUME effect'.at = "launching" PROVE lock' = Engine
      <4>1. lock = Engine BY <3>1, <3>3 DEF IInv, Exclusive
      <4>2. ~obtainable BY <3>1, <3>3, NobodyTears
      <4>3. pc[f] # "releasing" BY <1>b, <4>1 DEF IInv, Exclusive
      <4> QED BY <3>1, <4>1, <4>2, <4>3 DEF Left
    <3>4. pc'[Engine] = pc[Engine] BY <1>b, <2>1
    <3> QED BY <3>1, <3>2, <3>3, <3>4 DEF IInv, Exclusive
  <2>4. Quiet'
    <3>1. UNCHANGED <<agent, tree>> BY <1>3 DEF Die, world
    <3> QED BY <2>1, <3>1 DEF IInv, Quiet, NoAgentWithoutTree
  <2>5. Licensed'
    BY <1>3, <1>b, <2>1, <2>2 DEF Die, IInv, Licensed, TornOnlyMergedOrAsked,
                                  BranchGoneOnlyMerged, asked, world
  <2>6. \A v \in Worker : copy'[v].stage \in {copy[v].stage, ""}
    BY <1>3, <1>a DEF Die, TypeOK, Blank
  <2>7. \A g \in Finisher : previous'[g] \in {previous[g], ""}
    BY <1>3, <1>a DEF Die, TypeOK
  <2>8. Known' BY <1>3, <1>a, <2>6, <2>7 DEF Die, Known, true, asked, thread, world
  <2> QED BY <1>a, <2>3, <2>4, <2>5, <2>8 DEF IInv
<1>4. CASE PaneDies
  <2>1. Exclusive' /\ Quiet'
    BY <1>4 DEF PaneDies, IInv, Exclusive, Quiet, NoAgentWithoutTree
  <2>2. Licensed'
    BY <1>4 DEF PaneDies, IInv, Licensed, TornOnlyMergedOrAsked, BranchGoneOnlyMerged, asked
  <2>3. Known' BY <1>4, <1>a DEF PaneDies, Known, true, asked, thread
  <2> QED BY <1>a, <2>1, <2>2, <2>3 DEF IInv
<1>5. CASE MergePR
  <2>1. Exclusive' /\ Quiet'
    BY <1>5 DEF MergePR, IInv, Exclusive, Quiet, NoAgentWithoutTree
  <2>2. Licensed'
    BY <1>5 DEF MergePR, IInv, Licensed, TornOnlyMergedOrAsked, BranchGoneOnlyMerged, asked
  <2>3. Known' BY <1>5, <1>a DEF MergePR, Known, true, asked, thread
  <2> QED BY <1>a, <2>1, <2>2, <2>3 DEF IInv
<1>6. CASE Gate
  <2>1. Exclusive' /\ Quiet' /\ Licensed' /\ Grows BY <1>6, Untouched DEF Gate
  <2>2. record'.stage \in {"running", "awaiting_merge"}
    BY <1>6, <1>a DEF Gate, TypeOK, Document
  <2>3. Known' BY <1>6, <1>a, <2>2 DEF Gate, Known, true, asked, thread, world
  <2> QED BY <1>a, <2>1, <2>3 DEF IInv
<1> QED BY <1>1, <1>2, <1>3, <1>4, <1>5, <1>6 DEF Tell, Environment

LEMMA StepInv == IInv /\ [Next]_vars => IInv'
<1> SUFFICES ASSUME IInv, [Next]_vars PROVE IInv'
  OBVIOUS
<1>1. CASE StateThread BY <1>1, InvStateThread
<1>2. CASE EffectThread BY <1>2, InvEffectThread
<1>3. ASSUME NEW w \in Worker, Finish(w) PROVE IInv' BY <1>3, InvFinish
<1>4. CASE (\E f \in Finisher : Tell(f)) \/ Environment BY <1>4, InvRest
<1>5. CASE UNCHANGED vars
  <2>1. TypeOK' BY <1>5 DEF IInv, TypeOK, vars, thread, world
  <2>2. Exclusive' /\ Quiet' /\ Licensed' /\ Grows BY <1>5, Untouched DEF vars, thread, world
  <2>3. Known' BY <1>5 DEF IInv, Known, true, asked, vars, thread, world
  <2> QED BY <2>1, <2>2, <2>3 DEF IInv
<1> QED BY <1>1, <1>2, <1>3, <1>4, <1>5 DEF Next

-----------------------------------------------------------------------------
(* The theorems. *)

\* The bracket keeps its invariant, whoever finishes, dies, retries or relaunches.
THEOREM Inductive == Spec => []IInv
<1> QED
  BY InvInit, StepInv, PTL DEF Spec

\* The engine's issue, the record, the effect and the finishes keep their types: no
\* handler and no teardown writes a stage the others do not expect.
THEOREM TypeCorrect == Spec => []TypeOK
<1>1. IInv => TypeOK BY DEF IInv
<1> QED BY <1>1, Inductive, PTL

\* require_merged: whoever tears down, after any death, retry or relaunch, a
\* worktree goes only when the PR merged or a person ran `finish --abandon'.
THEOREM WorktreesGoForAReason == Spec => []TornOnlyMergedOrAsked
<1>1. IInv => TornOnlyMergedOrAsked BY DEF IInv, Licensed
<1> QED BY <1>1, Inductive, PTL

\* delete_branch: abandoned work keeps its branch, whoever takes its teardown over.
THEOREM AbandonedKeepsItsBranch == Spec => []BranchGoneOnlyMerged
<1>1. IInv => BranchGoneOnlyMerged BY DEF IInv, Licensed
<1> QED BY <1>1, Inductive, PTL

\* remove_workspace: no worktree goes under an agent a launch started meanwhile.
THEOREM AgentsKeepTheirTrees == Spec => []NoAgentWithoutTree
<1>1. IInv => NoAgentWithoutTree BY DEF IInv, Quiet
<1> QED BY <1>1, Inductive, PTL

\* settle and chain: neither the record nor the engine calls an unmerged PR merged.
THEOREM MergedIsTrue == Spec => []MergedMeansMerged
<1>1. IInv => MergedMeansMerged BY DEF IInv, Known, true, MergedMeansMerged
<1> QED BY <1>1, Inductive, PTL
-----------------------------------------------------------------------------
(* Launches: none is asked for, nor in flight, while an agent runs. *)

\* No teardown is taken back from these stages, and no message is overlaid.
Ended == {"cleanup-incomplete", "merged", "abandoned"}

\* A launch answered, and its answer is not committed yet.
answered == issue.pending = "launch" /\ effect.at \in {"applied", "failed"}

\* The effect is the pending action's.  Until a launch has answered no agent runs,
\* so no report can come, and the engine owes no write.
Launches ==
  /\ issue.pending = "launch" /\ agent => answered
  /\ issue.follow = "launch" => ~agent
  /\ issue.follow # "none" => issue.pending = "checkpoint"
  /\ effect.at \in {"launch", "launching", "wait", "settled"} =>
       issue.pending = "launch" /\ saving = {}
  /\ effect.at = "checkpoint" => issue.pending = "checkpoint"
  /\ effect.at = "cleanup" => issue.pending = "cleanup"

\* A relaunch is owed to a running agent only until the answer is committed and
\* written, or when nothing can ask for it any more.
Relaunches ==
  /\ issue.relaunch /\ agent =>
       \/ answered
       \/ issue.stage \in Ended /\ record.stage \in Ended /\ issue.pending # "launch"
  /\ record.relaunch /\ agent /\ record.stage \notin Ended =>
       answered \/ (saving # {} /\ ~issue.relaunch)

LaunchInv == Launches /\ Relaunches

\* The fields a handler leaves.
LEMMA Handlers ==
  ASSUME TypeOK
  PROVE  /\ LET b == begin(issue)
            IN  /\ b.stage = "cleaning" /\ ~b.relaunch
                /\ b.pending = issue.pending /\ b.follow = "none"
         /\ LET h == heal_cleaning(overlay(issue, record))
            IN  /\ h.stage \in {issue.stage, record.stage}
                /\ record.stage \in Ended => h.stage = record.stage
                /\ h.relaunch = record.relaunch
                /\ h.pending = issue.pending /\ h.follow = issue.follow
         /\ LET a == adopt(issue)
            IN  /\ a.stage = IF adopts(issue) THEN "running" ELSE issue.stage
                /\ a.relaunch = issue.relaunch
                /\ a.pending = issue.pending /\ a.follow = issue.follow
<1>1. issue \in Issue /\ record \in Document BY DEF TypeOK
<1>2. LET b == begin(issue)
      IN  /\ b.stage = "cleaning" /\ ~b.relaunch
          /\ b.pending = issue.pending /\ b.follow = "none"
  BY <1>1 DEF begin, Issue
<1>3. LET h == heal_cleaning(overlay(issue, record))
      IN  /\ h.stage \in {issue.stage, record.stage}
          /\ record.stage \in Ended => h.stage = record.stage
          /\ h.relaunch = record.relaunch
          /\ h.pending = issue.pending /\ h.follow = issue.follow
  <2> DEFINE o == overlay(issue, record)
  <2>1. /\ o.stage \in {issue.stage, record.stage}
        /\ o.relaunch = record.relaunch
        /\ o.pending = issue.pending /\ o.follow = issue.follow
    BY <1>1 DEF overlay, Issue
  <2>2. record.stage \in Ended => o.stage = record.stage
    <3>1. ASSUME record.stage \in Ended
          PROVE  rank(record.stage) = 4
      <4>1. record.stage \notin {"", "starting", "running", "cleaning"}
        BY <3>1 DEF Ended
      <4> QED BY <4>1 DEF rank
    <3>2. rank(issue.stage) \in {0, 1, 2, 3, 4}
      <4>1. CASE issue.stage = "" BY <4>1 DEF rank
      <4>2. CASE issue.stage = "starting" BY <4>2 DEF rank
      <4>3. CASE issue.stage = "running" BY <4>3 DEF rank
      <4>4. CASE issue.stage = "cleaning" BY <4>4 DEF rank
      <4>5. CASE issue.stage \notin {"", "starting", "running", "cleaning"}
        BY <4>5 DEF rank
      <4> QED BY <4>1, <4>2, <4>3, <4>4, <4>5
    <3>3. record.stage \in Ended => rank(record.stage) >= rank(issue.stage)
      BY <3>1, <3>2
    <3> QED BY <1>1, <3>3 DEF overlay, Issue
  <2>3. o \in Issue BY <1>1 DEF overlay, Issue, Document
  <2>4. LET h == heal_cleaning(o)
        IN  /\ h.stage = IF stale(o) THEN record.stage ELSE o.stage
            /\ h.relaunch = o.relaunch /\ h.pending = o.pending /\ h.follow = o.follow
    BY <2>3 DEF heal_cleaning, Issue
  <2> QED BY <2>1, <2>2, <2>4
<1>4. LET a == adopt(issue)
      IN  /\ a.stage = IF adopts(issue) THEN "running" ELSE issue.stage
          /\ a.relaunch = issue.relaunch
          /\ a.pending = issue.pending /\ a.follow = issue.follow
  BY <1>1 DEF adopt, Issue
<1> QED BY <1>2, <1>3, <1>4

\* The fields a commit leaves.
LEMMA Commits ==
  ASSUME TypeOK, effect.at \in {"applied", "wait", "settled", "failed"}
  PROVE  LET c == commit_effect(issue, effect)
         IN  /\ issue.pending = "launch" =>
                  /\ c.pending = "none" /\ c.follow = issue.follow
                  /\ effect.at = "applied" => c.stage = "running"
                  /\ effect.at = "settled" => c.stage = effect.stage
                  /\ effect.at = "wait" => c.stage = issue.stage
                  /\ effect.at = "failed" => c.stage \in {issue.stage, effect.stage}
                  /\ effect.at # "wait" => ~c.relaunch
             /\ issue.pending = "checkpoint" =>
                  /\ c.pending \in {"none", issue.follow} /\ c.follow = "none"
                  /\ c.stage = issue.stage /\ c.relaunch = issue.relaunch
             /\ issue.pending \notin {"launch", "checkpoint"} =>
                  /\ c.pending = "none" /\ c.follow = issue.follow
                  /\ c.stage = IF effect.at = "applied" THEN "merged" ELSE "cleanup-incomplete"
                  /\ c.relaunch = issue.relaunch
<1>1. issue \in Issue /\ effect \in Effect BY DEF TypeOK
<1>2. LET c == commit_launch(issue, effect)
      IN  /\ c.pending = "none" /\ c.follow = issue.follow
          /\ effect.at = "applied" => c.stage = "running"
          /\ effect.at = "settled" => c.stage = effect.stage
          /\ effect.at = "wait" => c.stage = issue.stage
          /\ effect.at = "failed" => c.stage \in {issue.stage, effect.stage}
          /\ effect.at # "wait" => ~c.relaunch
  <2> DEFINE t == [issue EXCEPT !.pending = "none", !.relaunch = FALSE]
  <2>1. /\ t \in Issue /\ t.pending = "none" /\ ~t.relaunch
        /\ t.follow = issue.follow /\ t.stage = issue.stage
    BY <1>1 DEF Issue
  <2>2. CASE effect.at = "applied" BY <1>1, <2>1, <2>2 DEF commit_launch, Issue
  <2>3. CASE effect.at = "wait" BY <1>1, <2>1, <2>3 DEF commit_launch, Issue
  <2>4. CASE effect.at = "settled" BY <1>1, <2>1, <2>4 DEF commit_launch, Issue
  <2>5. CASE effect.at = "failed" BY <1>1, <2>1, <2>5 DEF commit_launch, Issue
  <2> QED BY <2>2, <2>3, <2>4, <2>5
<1>3. LET c == commit_checkpoint(issue, effect)
      IN  /\ c.pending \in {"none", issue.follow} /\ c.follow = "none"
          /\ c.stage = issue.stage /\ c.relaunch = issue.relaunch
  BY <1>1 DEF commit_checkpoint, Issue
<1>4. LET c == commit_cleanup(issue, effect)
      IN  /\ c.pending = "none" /\ c.follow = issue.follow
          /\ c.stage = IF effect.at = "applied" THEN "merged" ELSE "cleanup-incomplete"
          /\ c.relaunch = issue.relaunch
  BY <1>1 DEF commit_cleanup, Issue
<1> QED BY <1>2, <1>3, <1>4 DEF commit_effect

\* What an engine's write leaves of the document it read.
LEMMA Saves ==
  ASSUME TypeOK, NEW doc \in Document
  PROVE  LET e == engine_fields(doc)
         IN  /\ doc.stage \in Settled => e.stage = doc.stage
             /\ doc.stage \notin Settled /\ issue.stage # "" => e.stage = issue.stage
             /\ issue.stage = "" => e.stage = doc.stage
             /\ e.relaunch = issue.relaunch
             /\ e.removed = doc.removed /\ e.cut = doc.cut
BY DEF engine_fields, Document

\* What a finish, a death or a merge changes of what launches depend on: an agent is
\* only lost, a stage only ended, and the cleanup answered.
Outside ==
  /\ UNCHANGED thread
  /\ agent' => agent
  /\ record' = record \/ record'.stage \in Ended
  /\ \/ effect' = effect
     \/ effect.at = "cleanup" /\ effect'.at \in {"applied", "failed"} /\ effect'.stage = ""

LEMMA FinishIsOutside ==
  ASSUME IInv, NEW w \in Worker, Finish(w)
  PROVE  Outside
<1>a. record \in Document /\ copy[w] \in Document BY DEF IInv, TypeOK
<1>b. \A doc \in Document : incomplete(doc).stage = "cleanup-incomplete"
  BY DEF incomplete, Document
<1>c. pc[w] \in Tearing /\ w = Engine => effect.at = "cleanup"
  BY DEF IInv, Exclusive
<1>d. prechecked = record \/ prechecked.stage \in Ended
  BY <1>a, <1>b DEF prechecked, Ended
<1>e. ASSUME NEW step, NEW doc, Return(w, step, doc), due(w) \/ pc[w] \in Tearing
      PROVE  /\ UNCHANGED <<thread, agent>>
             /\ \/ effect' = effect
                \/ /\ effect.at = "cleanup" /\ effect'.at \in {"applied", "failed"}
                   /\ effect'.stage = ""
  BY <1>c, <1>e DEF Return, Returned, due
<1>1. CASE Passes(w) BY <1>1, <1>e DEF Passes, Outside
<1>2. CASE Refuse(w) BY <1>2, <1>d, <1>e DEF Refuse, Outside
<1>3. CASE Enter(w) BY <1>3, <1>d DEF Enter, Outside, world
<1>4. CASE ExitAgent(w) BY <1>4 DEF ExitAgent, Outside
<1>5. CASE WriteIntent(w)
  <2>1. [incomplete(copy[w]) EXCEPT !.intent = TRUE].stage \in Ended
    BY <1>a, <1>b DEF incomplete, Document, Ended
  <2> QED BY <1>5, <2>1 DEF WriteIntent, Advance, Outside, world
<1>6. CASE RemoveTree(w) BY <1>6 DEF RemoveTree, Outside
<1>7. CASE WriteRemoved(w)
  <2>1. [incomplete(copy[w]) EXCEPT !.removed = TRUE, !.cut = FALSE].stage \in Ended
    BY <1>a, <1>b DEF incomplete, Document, Ended
  <2> QED BY <1>7, <2>1 DEF WriteRemoved, Advance, Outside, world
<1>8. CASE DeleteBranch(w) BY <1>8 DEF DeleteBranch, Outside
<1>9. CASE Settle(w)
  <2>1. settled(w, pc[w] = "removed").stage \in Ended
    BY <1>a DEF settled, Document, Ended
  <2> QED BY <1>9, <1>e, <2>1 DEF Settle, Outside, Tearing
<1>10. CASE TeardownFails(w)
  BY <1>10, <1>a, <1>b, <1>e DEF TeardownFails, Outside, Ended
<1>11. CASE Release(w) BY <1>11 DEF Release, Outside, world
<1> QED
  BY Zenon, <1>1, <1>2, <1>3, <1>4, <1>5, <1>6, <1>7, <1>8, <1>9, <1>10, <1>11 DEF Finish

LEMMA RestIsOutside ==
  ASSUME IInv, Retry \/ (\E f \in Finisher : Die(f)) \/ PaneDies \/ MergePR
  PROVE  Outside
<1>1. incomplete(copy[Engine]).stage \in Ended
  BY DEF IInv, TypeOK, Worker, incomplete, Document, Ended
<1>2. CASE Retry BY <1>1, <1>2 DEF Retry, Outside, world
<1>3. ASSUME NEW f \in Finisher, Die(f) PROVE Outside
  <2>1. UNCHANGED <<thread, effect, record, world>> BY <1>3 DEF Die
  <2> QED BY <2>1 DEF Outside, world
<1>4. CASE PaneDies BY <1>4 DEF PaneDies, Outside
<1>5. CASE MergePR BY <1>5 DEF MergePR, Outside
<1> QED BY <1>2, <1>3, <1>4, <1>5

LEMMA LaunchOutside == ASSUME LaunchInv, Outside PROVE LaunchInv'
<1>1. answered => answered'
  BY DEF answered, Outside, thread
<1>2. Launches'
  BY <1>1 DEF LaunchInv, Launches, Outside, thread, answered
<1>3. Relaunches'
  BY <1>1 DEF LaunchInv, Relaunches, Outside, thread
<1> QED BY <1>2, <1>3 DEF LaunchInv

LEMMA LaunchInit == Init => LaunchInv
<1> SUFFICES ASSUME Init PROVE LaunchInv
  OBVIOUS
<1>1. /\ issue.pending = "none" /\ issue.follow = "none" /\ ~issue.relaunch
      /\ effect.at = "none" /\ ~record.relaunch
  BY DEF Init, Nothing, Blank
<1> QED BY <1>1 DEF LaunchInv, Launches, Relaunches

\* The state thread's steps.
LEMMA LaunchStateThread == ASSUME IInv, LaunchInv, StateThread PROVE LaunchInv'
<1>a. TypeOK /\ issue \in Issue /\ record \in Document BY DEF IInv, TypeOK
<1> USE DEF LaunchInv, Launches, Relaunches, answered
<1>1. CASE Refresh
  <2>1. UNCHANGED <<saving, effect, record, agent>> BY <1>1 DEF Refresh, world
  <2>2. /\ record.stage \in Ended => issue'.stage = record.stage
        /\ issue'.relaunch = record.relaunch
        /\ issue'.pending = issue.pending /\ issue'.follow = issue.follow
    BY <1>1, <1>a, Handlers DEF Refresh
  <2> QED BY <1>1, <2>1, <2>2 DEF Refresh, ready
<1>2. CASE Gone
  <2>1. UNCHANGED <<effect, record, agent>> /\ saving' = {}
    BY <1>2 DEF Gone, Handled, world
  <2>2. issue'.pending = "checkpoint" /\ issue'.follow = "launch"
    BY <1>2, <1>a DEF Gone, Handled, Issue
  <2> QED BY <1>2, <2>1, <2>2 DEF Gone
<1>3. CASE Merged
  <2>1. UNCHANGED <<effect, record, agent>> /\ saving' = {record}
    BY <1>3 DEF Merged, Handled, world
  <2>2. /\ ~issue'.relaunch
        /\ IF issue.pending = "none"
           THEN issue'.pending = "cleanup" /\ issue'.follow = issue.follow
           ELSE issue'.pending = issue.pending /\ issue'.follow = "cleanup"
    <3> DEFINE s == [issue EXCEPT !.stage = "cleaning", !.deferred = FALSE, !.relaunch = FALSE]
    <3>1. s \in Issue /\ ~s.relaunch /\ s.pending = issue.pending /\ s.follow = issue.follow
      BY <1>a DEF Issue, Stage
    <3>2. issue' = IF issue.pending = "none" THEN [s EXCEPT !.pending = "cleanup"]
                                             ELSE [s EXCEPT !.follow = "cleanup"]
      BY <1>3 DEF Merged, Handled
    <3> QED BY <3>1, <3>2 DEF Issue
  <2>3. issue.pending \in {"none", "checkpoint"} BY <1>3 DEF Merged
  <2> QED BY <2>1, <2>2, <2>3
<1>4. CASE Wave
  <2>1. UNCHANGED <<effect, record, agent>> /\ saving = {} /\ saving' = {}
    BY <1>4 DEF Wave, Handled, world, ready
  <2>2. /\ issue'.pending = "checkpoint" /\ issue'.follow = issue.follow
        /\ issue'.stage = issue.stage /\ issue'.relaunch = issue.relaunch
    BY <1>4, <1>a DEF Wave, Handled, Issue
  <2> QED BY <1>4, <2>1, <2>2 DEF Wave
<1>5. CASE Rearm
  <2>1. UNCHANGED <<effect, record, agent>> /\ saving' = {}
    BY <1>5 DEF Rearm, Handled, world
  <2>2. issue'.pending = "launch" /\ issue'.follow = issue.follow
    BY <1>5, <1>a DEF Rearm, Handled, Issue
  <2>3. ~agent BY <1>5 DEF Rearm, Ended
  <2> QED BY <1>5, <2>1, <2>2, <2>3 DEF Rearm
<1>6. CASE Save
  <2>1. PICK doc \in saving : record' = engine_fields(doc) BY <1>6 DEF Save
  <2>2. doc \in Document BY <1>a DEF TypeOK
  <2>3. UNCHANGED <<issue, effect, agent>> /\ saving' = {} BY <1>6 DEF Save, world
  <2>4. /\ record'.relaunch = issue.relaunch
        /\ issue.stage \in Ended => record'.stage \in Ended
    BY <1>a, <2>1, <2>2, Saves DEF Ended, Settled
  <2> QED BY <2>1, <2>3, <2>4
<1>7. CASE StartCall
  <2>1. UNCHANGED <<issue, saving, record, agent>> /\ effect'.at = issue.pending
        /\ effect.at = "none" /\ saving = {}
    BY <1>7 DEF StartCall, thread, world, Returned, Nothing, ready
  <2>2. issue.pending \in {"none", "checkpoint", "launch", "cleanup"} BY <1>a DEF Issue
  <2> QED BY <2>1, <2>2
<1>8. CASE EffectDone
  <2>1. /\ UNCHANGED <<record, agent>> /\ effect'.at = "none" /\ saving = {}
        /\ effect.at \in {"applied", "wait", "settled", "failed"}
        /\ issue' = commit_effect(issue, effect)
        /\ saving' = IF owes(issue, effect) THEN {record} ELSE {}
    BY <1>8 DEF EffectDone, world, Nothing, ready
  <2>2. issue.pending # "none" BY <2>1 DEF IInv, Known
  <2>3. CASE issue.pending = "launch"
    <3>1. issue'.pending = "none" /\ issue'.follow = issue.follow
          /\ (effect.at # "wait" => ~issue'.relaunch)
      BY <1>a, <2>1, <2>3, Commits
    <3>2. effect.at \in {"applied", "failed"} => saving' = {record}
      BY <2>1, <2>3 DEF owes
    <3>3. effect.at \notin {"applied", "failed"} => ~agent BY <2>3
    <3> QED BY <2>1, <2>3, <3>1, <3>2, <3>3
  <2>4. CASE issue.pending = "checkpoint"
    <3>1. /\ issue'.pending \in {"none", issue.follow} /\ issue'.follow = "none"
          /\ issue'.stage = issue.stage /\ issue'.relaunch = issue.relaunch
      BY <1>a, <2>1, <2>4, Commits
    <3> QED BY <2>1, <2>4, <3>1
  <2>5. CASE issue.pending = "cleanup"
    <3>1. /\ issue'.pending = "none" /\ issue'.follow = issue.follow
          /\ issue'.stage \in Ended /\ issue'.relaunch = issue.relaunch
      BY <1>a, <2>1, <2>5, Commits DEF Ended
    <3> QED BY <2>1, <2>5, <3>1
  <2> QED BY <1>a, <2>2, <2>3, <2>4, <2>5 DEF Issue
<1>9. ASSUME NEW changed \in BOOLEAN, Report(changed) PROVE LaunchInv'
  <2>1. UNCHANGED <<effect, record, agent>> /\ agent /\ saving = {}
    BY <1>9 DEF Report, Handled, world, ready
  <2>2. /\ issue'.stage = IF adopts(issue) THEN "running" ELSE issue.stage
        /\ issue'.relaunch = issue.relaunch
        /\ issue'.pending = issue.pending /\ issue'.follow = issue.follow
    <3>1. adopt(issue) \in Issue BY <1>a, HandlerTypes
    <3>2. issue' = [adopt(issue) EXCEPT !.deferred = @ /\ ~changed]
      BY <1>9 DEF Report, Handled
    <3>3. /\ issue'.stage = adopt(issue).stage /\ issue'.relaunch = adopt(issue).relaunch
          /\ issue'.pending = adopt(issue).pending /\ issue'.follow = adopt(issue).follow
      BY <3>1, <3>2 DEF Issue
    <3> QED BY <1>a, <3>3, Handlers
  <2>3. issue.stage \in Ended => issue'.stage = issue.stage
    BY <2>2 DEF adopts, Ended
  <2> QED BY <2>1, <2>2, <2>3
<1> QED BY <1>1, <1>2, <1>3, <1>4, <1>5, <1>6, <1>7, <1>8, <1>9 DEF StateThread

\* The effect thread's steps, but the cleanup's.
LEMMA LaunchEffectThread == ASSUME IInv, LaunchInv, EffectThread PROVE LaunchInv'
<1>a. TypeOK /\ issue \in Issue /\ record \in Document BY DEF IInv, TypeOK
<1> USE DEF LaunchInv, Launches, Relaunches, answered
<1>1. CASE CheckpointDone
  <2>1. /\ UNCHANGED <<issue, saving, record, agent>> /\ effect.at = "checkpoint"
        /\ effect'.at \in {"applied", "failed"}
    <3>1. PICK at \in {"applied", "failed"} : effect' = Returned(at) BY <1>1 DEF CheckpointDone
    <3>2. effect'.at = at BY <3>1 DEF Returned
    <3> QED BY <1>1, <3>2 DEF CheckpointDone, thread, world
  <2> QED BY <2>1
<1>2. CASE LaunchEnds
  <2>1. /\ UNCHANGED <<issue, saving, record, agent>> /\ effect.at = "launch"
        /\ effect'.at \in {"settled", "wait", "failed"}
    <3>1. effect' \in {[at |-> "settled", stage |-> record.stage], Returned("wait"),
                       [at |-> "failed", stage |-> record.stage]}
      BY <1>2 DEF LaunchEnds, NoLaunch
    <3>2. effect'.at \in {"settled", "wait", "failed"}
      <4>1. Returned("wait").at = "wait" BY DEF Returned
      <4>2. /\ [at |-> "settled", stage |-> record.stage].at = "settled"
            /\ [at |-> "failed", stage |-> record.stage].at = "failed"
        OBVIOUS
      <4> QED BY Zenon, <3>1, <4>1, <4>2
    <3> QED BY <1>2, <3>2 DEF LaunchEnds, NoLaunch, thread, world
  <2> QED BY <2>1
<1>3. CASE LaunchBegins
  <2>1. /\ UNCHANGED <<issue, saving, agent>> /\ effect.at = "launch"
        /\ effect'.at = "launching"
    BY <1>3 DEF LaunchBegins, thread, world, Returned
  <2> QED BY <2>1
<1>4. CASE LaunchStarts \/ LaunchFails
  <2>1. /\ UNCHANGED <<issue, saving>> /\ effect.at = "launching"
        /\ effect'.at \in {"applied", "failed"}
    <3>1. \E at \in {"applied", "failed"}, stage \in Stage : LaunchReturns(at, stage)
      <4>1. {"", "running", "replacing", "uncertain"} \subseteq Stage BY DEF Stage
      <4> QED BY Zenon, <1>4, <4>1 DEF LaunchStarts, LaunchFails
    <3>2. PICK at \in {"applied", "failed"}, stage \in Stage : LaunchReturns(at, stage)
      BY <3>1
    <3>3. effect'.at = at BY <3>2 DEF LaunchReturns
    <3> QED BY <3>2, <3>3 DEF LaunchReturns, thread
  <2> QED BY <2>1
<1>5. CASE Retry
  <2> HIDE DEF LaunchInv
  <2> QED BY <1>5, RestIsOutside, LaunchOutside
<1> QED BY <1>1, <1>2, <1>3, <1>4, <1>5 DEF EffectThread

\* The two messages, and the gate.
LEMMA LaunchMessages ==
  ASSUME IInv, LaunchInv, (\E f \in Finisher : Tell(f)) \/ Gate
  PROVE  LaunchInv'
<1>a. TypeOK /\ issue \in Issue /\ record \in Document BY DEF IInv, TypeOK
<1> USE DEF LaunchInv, Launches, Relaunches, answered
<1>1. ASSUME NEW f \in Finisher, NEW skip \in BOOLEAN, Begin(f, skip) PROVE LaunchInv'
  <2>1. UNCHANGED <<saving, effect, record, agent>> /\ issue' = begin(issue) /\ saving = {}
    BY <1>1 DEF Begin, world, ready
  <2>2. ~issue'.relaunch /\ issue'.pending = issue.pending /\ issue'.follow = "none"
    BY <1>a, <2>1, Handlers
  <2> QED BY <2>1, <2>2
<1>2. ASSUME NEW f \in Finisher, End(f) PROVE LaunchInv'
  <2>1. UNCHANGED <<saving, effect, record, agent>> BY <1>2 DEF End, world
  <2>2. /\ record.stage \in Ended => issue'.stage = record.stage
        /\ issue'.relaunch = issue.relaunch
        /\ issue'.pending = issue.pending /\ issue'.follow = issue.follow
    BY <1>2, <1>a DEF End, Issue, Ended
  <2> QED BY <2>1, <2>2
<1>3. CASE Gate
  <2>1. UNCHANGED <<issue, saving, effect, agent>> BY <1>3 DEF Gate, thread, world
  <2>2. record.stage \notin Ended /\ record'.relaunch = record.relaunch
    BY <1>3, <1>a DEF Gate, Document, Ended
  <2> QED BY <2>1, <2>2
<1> QED BY <1>1, <1>2, <1>3 DEF Tell

LEMMA LaunchStep == IInv /\ LaunchInv /\ [Next]_vars => LaunchInv'
<1> SUFFICES ASSUME IInv, LaunchInv, [Next]_vars PROVE LaunchInv'
  OBVIOUS
<1>1. CASE StateThread BY <1>1, LaunchStateThread
<1>2. CASE EffectThread BY <1>2, LaunchEffectThread
<1>3. ASSUME NEW w \in Worker, Finish(w) PROVE LaunchInv'
  BY <1>3, FinishIsOutside, LaunchOutside
<1>4. CASE \E f \in Finisher : Tell(f) BY <1>4, LaunchMessages
<1>5. CASE Environment
  BY <1>5, RestIsOutside, LaunchOutside, LaunchMessages DEF Environment
<1>6. CASE UNCHANGED vars
  <2>1. Outside BY <1>6 DEF Outside, vars, thread, world
  <2> QED BY <2>1, LaunchOutside
<1> QED BY <1>1, <1>2, <1>3, <1>4, <1>5, <1>6 DEF Next
-----------------------------------------------------------------------------
(* The seal of a settled issue. *)

Over == {"cleaning"} \cup Ended

\* A document that proves its cleanup.
Proved(doc) ==
  /\ doc.stage \in Settled
  /\ doc.removed
  /\ doc.stage = "merged" => doc.cut

\* The world a settled stage speaks of.
Torn(stage) ==
  stage \in Settled => ~tree /\ ~agent /\ (stage = "merged" => ~branch)

\* The cleanup answered that the issue is torn down, and is not committed yet.
cleaned == issue.pending = "cleanup" /\ effect.at = "applied"

\* A document that says its branch is cut is a proof, and no teardown that still runs
\* works from one.
Cuts ==
  /\ record.cut => Proved(record) /\ record.stage = "merged"
  /\ \A doc \in saving : doc.cut => Proved(doc) /\ doc.stage = "merged"
  /\ \A w \in Worker : ~copy[w].cut

\* Whoever holds a settled stage holds it of an issue that is torn down.
HoldersTorn ==
  /\ Torn(issue.stage) /\ Torn(effect.stage) /\ Torn(record.stage)
  /\ \A f \in Finisher : Torn(previous[f])
  /\ \A doc \in saving : Torn(doc.stage)
  /\ cleaned => Torn("merged")

heldElsewhere ==
  \/ issue.stage \in Settled \/ effect.stage \in Settled
  \/ \E f \in Finisher : previous[f] \in Settled
  \/ \E doc \in saving : doc.stage \in Settled

\* The record is a proof that nobody works to replace.
atRest ==
  /\ Proved(record)
  /\ \A w \in Worker : pc[w] \notin Tearing
  /\ effect.at # "launching"

\* Nor does the engine's write.
proven == atRest /\ \A doc \in saving : Proved(doc)

\* Neither the engine nor the record has a stage a launch starts from.
over == issue.stage \in Over /\ record.stage \in Over /\ issue.pending = "none"

\* The engine holds the issue merged, and writes it.
writing == issue.stage = "merged" /\ issue.pending = "none" /\ saving # {}

\* While a settled stage is held anywhere no launch can begin.
Sealed ==
  /\ heldElsewhere => proven \/ over \/ cleaned \/ writing
  /\ record.stage \in Settled => atRest \/ over \/ cleaned \/ writing

SealInv == Cuts /\ HoldersTorn /\ Sealed

LEMMA SealInit == Init => SealInv
<1> SUFFICES ASSUME Init PROVE SealInv
  OBVIOUS
<1>1. /\ issue.stage = "running" /\ issue.pending = "none" /\ saving = {}
      /\ effect.at = "none" /\ effect.stage = ""
      /\ record.stage = "running" /\ ~record.cut
      /\ \A w \in Worker : ~copy[w].cut
      /\ \A f \in Finisher : previous[f] = ""
  BY DEF Init, Nothing, Blank
<1> QED BY <1>1 DEF SealInv, Cuts, HoldersTorn, Torn, cleaned, Sealed, heldElsewhere, Settled

\* Under the seal a record at rest is complete: no finish takes it back.
LEMMA AtRestIsComplete ==
  ASSUME SealInv, Proved(record)
  PROVE  complete
BY DEF SealInv, HoldersTorn, Torn, Proved, complete, terminal, Settled

\* A step of the state thread that may write what it read keeps the seal, if the stages
\* it leaves are true of the world and it asks for nothing of a settled issue.
LEMMA SealKept ==
  ASSUME SealInv, saving = {}, saving' \subseteq {record},
         UNCHANGED <<record, pc, copy, agent, tree, branch>>,
         Torn(issue.stage)', Torn(effect.stage)', \A f \in Finisher : Torn(previous[f])',
         effect.at # "launching" => effect'.at # "launching",
         cleaned' => Torn("merged"),
         heldElsewhere' => heldElsewhere \/ record.stage \in Settled \/ writing',
         over \/ cleaned => over' \/ cleaned' \/ writing'
  PROVE  SealInv'
<1>1. Cuts' BY DEF SealInv, Cuts, Proved
<1>2. HoldersTorn' BY DEF SealInv, HoldersTorn, Torn
<1>3. atRest => atRest' BY DEF atRest, Proved
<1>4. atRest => proven'
  BY <1>3 DEF proven, atRest
<1>5. proven => atRest BY DEF proven
<1>6. ~writing BY DEF writing
<1>7. Sealed'
  <2>1. heldElsewhere \/ record.stage \in Settled => proven' \/ over' \/ cleaned' \/ writing'
    BY <1>4, <1>5, <1>6 DEF SealInv, Sealed
  <2>2. heldElsewhere' => proven' \/ over' \/ cleaned' \/ writing'
    BY <2>1
  <2>3. record'.stage \in Settled => atRest' \/ over' \/ cleaned' \/ writing'
    BY <2>1 DEF proven
  <2> QED BY <2>2, <2>3 DEF Sealed
<1> QED BY <1>1, <1>2, <1>7 DEF SealInv

\* A teardown's step, or the environment's, keeps the seal, if it leaves a record at
\* rest and settles only what is torn down.
LEMMA SealOutside ==
  ASSUME SealInv, Outside, tree' => tree, branch' => branch,
         \A f \in Finisher : previous'[f] \in {previous[f], ""},
         Cuts', Torn(record.stage)', cleaned' => Torn("merged")',
         atRest => atRest',
         record'.stage \in Settled => record' = record \/ atRest'
  PROVE  SealInv'
<1>1. \A s : Torn(s) => Torn(s)' BY DEF Torn, Outside
<1>2. effect'.stage \in {effect.stage, ""} BY DEF Outside
<1>3. Torn("") /\ Torn("")' BY DEF Torn, Settled
<1>4. UNCHANGED <<issue, saving>> BY DEF Outside, thread
<1>5. HoldersTorn'
  <2>1. Torn(issue.stage)' /\ Torn(effect.stage)'
    BY <1>1, <1>2, <1>3, <1>4 DEF SealInv, HoldersTorn, Torn
  <2>2. \A f \in Finisher : Torn(previous[f])'
    BY <1>1, <1>3 DEF SealInv, HoldersTorn, Torn
  <2>3. \A doc \in saving' : Torn(doc.stage)'
    BY <1>1, <1>4 DEF SealInv, HoldersTorn
  <2> QED BY <2>1, <2>2, <2>3 DEF HoldersTorn
<1>6. heldElsewhere' => heldElsewhere
  BY <1>2, <1>4 DEF heldElsewhere, Settled
<1>7. over => over' BY <1>4 DEF over, Outside, Over
<1>8. writing => writing' BY <1>4 DEF writing
<1>9. cleaned => cleaned' BY <1>4 DEF cleaned, Outside
<1>10. proven => proven' BY <1>4 DEF proven
<1>11. Sealed'
  <2>1. heldElsewhere' => proven' \/ over' \/ cleaned' \/ writing'
    BY <1>6, <1>7, <1>8, <1>9, <1>10 DEF SealInv, Sealed
  <2>2. record'.stage \in Settled => atRest' \/ over' \/ cleaned' \/ writing'
    BY <1>7, <1>8, <1>9 DEF SealInv, Sealed
  <2> QED BY <2>1, <2>2 DEF Sealed
<1> QED BY <1>5, <1>11 DEF SealInv

\* A teardown ends at rest: what it settled it proves.
LEMMA SettledProves ==
  ASSUME TypeOK, SealInv, NEW w \in Worker, NEW removed \in BOOLEAN
  PROVE  LET doc == settled(w, removed)
         IN  /\ doc.stage \in Settled => Proved(doc) /\ removed
             /\ doc.stage = "merged" => ~branch
             /\ doc.cut => doc.stage = "merged"
<1>1. copy[w] \in Document /\ ~copy[w].cut /\ abandon[w] \in BOOLEAN /\ branch \in BOOLEAN
  BY DEF TypeOK, SealInv, Cuts
<1> DEFINE cut == copy[w].cut \/ (removed /\ ~abandon[w] /\ ~branch)
           done == removed /\ (abandon[w] \/ cut)
           doc == settled(w, removed)
<1>2. cut <=> removed /\ ~abandon[w] /\ ~branch BY <1>1
<1>3. /\ doc.removed = removed /\ doc.cut = cut
      /\ doc.stage = CASE done /\ abandon[w] -> "abandoned"
                       [] done /\ ~abandon[w] -> "merged"
                       [] OTHER -> "cleanup-incomplete"
  BY <1>1 DEF settled, Document
<1> HIDE DEF doc
<1>4. CASE done /\ abandon[w]
  BY <1>2, <1>3, <1>4 DEF Proved, Settled, doc
<1>5. CASE done /\ ~abandon[w]
  BY <1>2, <1>3, <1>5 DEF Proved, Settled, doc
<1>6. CASE ~done
  BY <1>2, <1>3, <1>6 DEF Proved, Settled, doc
<1> QED BY <1>1, <1>4, <1>5, <1>6

\* A finish that returns.
LEMMA SealReturn ==
  ASSUME IInv, LaunchInv, SealInv, NEW w \in Worker,
         NEW step \in {"releasing", "refused", "returned"}, NEW doc, Return(w, step, doc), UNCHANGED <<tree, branch>>, Outside,
         record'.cut => Proved(record') /\ record'.stage = "merged",
         Torn(record'.stage),
         doc.stage = "merged" => Torn("merged"),
         atRest => record' = record,
         record'.stage \in Settled =>
           record' = record \/ (Proved(record') /\ pc[w] \in Tearing)
  PROVE  SealInv'
<1>a. TypeOK /\ copy \in [Worker -> Document] BY DEF IInv, TypeOK
<1>b. Engine \in Worker BY DEF Worker
<1>1. UNCHANGED <<issue, saving, previous, agent, tree, branch>>
  BY DEF Return, thread
<1>2. /\ pc'[w] \notin Tearing
      /\ \A v \in Worker : v # w => pc'[v] = pc[v]
  BY <1>a DEF Return, TypeOK, Tearing
<1>3. \A v \in Worker : ~copy'[v].cut
  BY <1>a DEF Return, SealInv, Cuts, Blank
<1>4. Cuts' BY <1>1, <1>3 DEF SealInv, Cuts, Proved
<1>5. Torn(record.stage)' BY <1>1 DEF Torn
<1>6. cleaned' => Torn("merged")'
  <2>1. w = Engine /\ effect'.at = "applied" => doc.stage = "merged"
    BY DEF Return, Returned
  <2>2. w # Engine => effect' = effect BY DEF Return
  <2> QED BY <1>1, <2>1, <2>2 DEF cleaned, Torn, SealInv, HoldersTorn
<1>7. effect.at # "launching" => effect'.at # "launching" BY DEF Outside
<1>8. atRest => atRest' BY <1>2, <1>7 DEF atRest, Proved
<1>9. record'.stage \in Settled => record' = record \/ atRest'
  <2> SUFFICES ASSUME Proved(record'), pc[w] \in Tearing PROVE atRest'
    OBVIOUS
  <2>1. lock = w BY DEF IInv, Exclusive
  <2>2. \A v \in Worker : v # w => pc[v] \notin Tearing BY <2>1 DEF IInv, Exclusive
  <2>3. effect.at # "launching" BY <2>1, <1>b DEF IInv, Exclusive
  <2> QED BY <1>2, <1>7, <2>2, <2>3 DEF atRest, Proved
<1> QED BY <1>1, <1>4, <1>5, <1>6, <1>8, <1>9, SealOutside

\* A teardown that goes on has written at most an incomplete document.
LEMMA SealGoesOn ==
  ASSUME IInv, SealInv, NEW w \in Worker, Outside, tree' => tree, branch' => branch,
         pc[w] \in Tearing \/ ~complete,
         UNCHANGED <<effect, previous>>,
         record' = record \/ (record'.stage \notin Settled /\ ~record'.cut),
         \A v \in Worker : ~copy'[v].cut
  PROVE  SealInv'
<1>1. ~atRest BY AtRestIsComplete DEF atRest
<1>2. UNCHANGED <<issue, saving>> BY DEF Outside, thread
<1>3. Cuts' BY <1>2 DEF SealInv, Cuts, Proved
<1>4. Torn(record.stage)' BY DEF SealInv, HoldersTorn, Torn, Outside
<1>5. cleaned' => Torn("merged")'
  BY <1>2 DEF cleaned, Torn, SealInv, HoldersTorn, Outside
<1>6. record'.stage \in Settled => record' = record OBVIOUS
<1> QED BY <1>1, <1>3, <1>4, <1>5, <1>6, SealOutside

\* A step that leaves the record and the effect, and begins no teardown.
LEMMA SealAside ==
  ASSUME SealInv, Outside, UNCHANGED <<effect, record>>, tree' => tree, branch' => branch,
         \A f \in Finisher : previous'[f] \in {previous[f], ""},
         \A v \in Worker : ~copy'[v].cut,
         \A v \in Worker : pc'[v] \in Tearing => pc[v] \in Tearing
  PROVE  SealInv'
<1>1. UNCHANGED <<issue, saving>> BY DEF Outside, thread
<1>2. Cuts' BY <1>1 DEF SealInv, Cuts, Proved
<1>3. Torn(record.stage)' BY DEF SealInv, HoldersTorn, Torn, Outside
<1>4. cleaned' => Torn("merged")'
  BY <1>1 DEF cleaned, Torn, SealInv, HoldersTorn, Outside
<1>5. atRest => atRest' BY DEF atRest, Proved
<1> QED BY <1>2, <1>3, <1>4, <1>5, SealOutside

LEMMA SealFinish ==
  ASSUME IInv, LaunchInv, SealInv, NEW w \in Worker, Finish(w)
  PROVE  SealInv'
<1>a. /\ TypeOK /\ record \in Document /\ copy[w] \in Document
      /\ copy \in [Worker -> Document] /\ pc \in [Worker -> Step]
  BY DEF IInv, TypeOK
<1>b. \A doc \in Document :
        /\ incomplete(doc).stage = "cleanup-incomplete" /\ incomplete(doc).cut = doc.cut
        /\ incomplete(doc) \in Document
  BY DEF incomplete, Document, Stage
<1>c. Outside BY FinishIsOutside
<1>d. /\ ~copy[w].cut /\ Torn(record.stage) /\ "cleanup-incomplete" \notin Settled
      /\ record.cut => Proved(record) /\ record.stage = "merged"
  BY DEF SealInv, Cuts, HoldersTorn, Settled
<1>e. ~complete =>
        /\ ~record.cut /\ ~prechecked.cut
        /\ prechecked = record \/ prechecked.stage = "cleanup-incomplete"
        /\ prechecked.stage \notin Settled
  <2> SUFFICES ASSUME ~complete
               PROVE  /\ ~record.cut /\ ~prechecked.cut
                      /\ prechecked = record \/ prechecked.stage = "cleanup-incomplete"
                      /\ prechecked.stage \notin Settled
    OBVIOUS
  <2>1. ~record.cut BY <1>d, AtRestIsComplete
  <2>2. CASE terminal BY <1>a, <1>b, <1>d, <2>1, <2>2 DEF prechecked
  <2>3. CASE ~terminal BY <2>1, <2>3 DEF prechecked, terminal
  <2> QED BY <2>1, <2>2, <2>3
<1>1. CASE Passes(w)
  <2>1. PICK step \in {"refused", "returned"}, doc \in {incomplete(record), record} :
          Return(w, step, doc)
    BY <1>1 DEF Passes
  <2>2. UNCHANGED <<record, tree, branch>> BY <1>1 DEF Passes
  <2>3. doc.stage = "merged" => Torn("merged")
    BY <1>a, <1>b, <1>d, <2>1 DEF Torn
  <2> QED BY <1>c, <1>d, <2>1, <2>2, <2>3, SealReturn
<1>2. CASE Refuse(w)
  <2>1. /\ Return(w, "refused", prechecked) /\ UNCHANGED <<tree, branch>>
        /\ record' = prechecked /\ ~complete
    BY <1>2 DEF Refuse
  <2>2. ~atRest BY <2>1, AtRestIsComplete DEF atRest
  <2>3. prechecked.stage \notin Settled /\ ~prechecked.cut BY <1>e, <2>1
  <2>4. Torn(record'.stage) /\ (prechecked.stage = "merged" => Torn("merged"))
    BY <2>1, <2>3 DEF Torn, Settled
  <2> QED BY <1>c, <2>1, <2>2, <2>3, <2>4, SealReturn
<1>3. CASE Enter(w)
  <2>1. /\ record' = prechecked /\ ~complete
        /\ copy' = [copy EXCEPT ![w] = prechecked]
        /\ UNCHANGED <<effect, previous, tree, branch>>
    BY <1>3 DEF Enter, world
  <2>2. \A v \in Worker : ~copy'[v].cut
    BY <1>a, <1>e, <2>1 DEF SealInv, Cuts
  <2> QED BY <1>c, <1>e, <2>1, <2>2, SealGoesOn
<1>4. CASE ExitAgent(w)
  <2>1. pc[w] \in Tearing /\ UNCHANGED <<record, copy, effect, previous, tree, branch>>
    BY <1>4 DEF ExitAgent, Tearing
  <2> QED BY <1>c, <2>1, SealGoesOn DEF SealInv, Cuts
<1>5. CASE WriteIntent(w)
  <2> DEFINE doc == [incomplete(copy[w]) EXCEPT !.intent = TRUE]
  <2>1. doc.stage = "cleanup-incomplete" /\ ~doc.cut
    BY <1>a, <1>b, <1>d DEF Document
  <2>2. /\ pc[w] \in Tearing /\ record' = doc /\ copy' = [copy EXCEPT ![w] = doc]
        /\ UNCHANGED <<effect, previous, tree, branch>>
    BY <1>5 DEF WriteIntent, Advance, Tearing, world
  <2> HIDE DEF doc
  <2>3. \A v \in Worker : ~copy'[v].cut BY <1>a, <2>1, <2>2 DEF SealInv, Cuts
  <2> QED BY <1>c, <1>d, <2>1, <2>2, <2>3, SealGoesOn
<1>6. CASE RemoveTree(w)
  <2>1. /\ pc[w] \in Tearing /\ UNCHANGED <<record, copy, effect, previous, branch>>
        /\ ~tree'
    BY <1>6 DEF RemoveTree, Tearing
  <2> QED BY <1>c, <2>1, SealGoesOn DEF SealInv, Cuts
<1>7. CASE WriteRemoved(w)
  <2> DEFINE doc == [incomplete(copy[w]) EXCEPT !.removed = TRUE, !.cut = FALSE]
  <2>1. doc.stage = "cleanup-incomplete" /\ ~doc.cut
    BY <1>a, <1>b, <1>d DEF Document
  <2>2. /\ pc[w] \in Tearing /\ record' = doc /\ copy' = [copy EXCEPT ![w] = doc]
        /\ UNCHANGED <<effect, previous, tree, branch>>
    BY <1>7 DEF WriteRemoved, Advance, Tearing, world
  <2> HIDE DEF doc
  <2>3. \A v \in Worker : ~copy'[v].cut BY <1>a, <2>1, <2>2 DEF SealInv, Cuts
  <2> QED BY <1>c, <1>d, <2>1, <2>2, <2>3, SealGoesOn
<1>8. CASE DeleteBranch(w)
  <2>1. /\ pc[w] \in Tearing /\ UNCHANGED <<record, copy, effect, previous, tree>>
        /\ ~branch'
    BY <1>8 DEF DeleteBranch, Tearing
  <2> QED BY <1>c, <2>1, SealGoesOn DEF SealInv, Cuts
<1>9. CASE Settle(w)
  <2> DEFINE doc == settled(w, pc[w] = "removed")
  <2>1. /\ pc[w] \in Tearing /\ record' = doc /\ Return(w, "releasing", doc)
        /\ UNCHANGED <<tree, branch>>
    BY <1>9 DEF Settle, Tearing
  <2>2. /\ doc.stage \in Settled => Proved(doc) /\ pc[w] = "removed"
        /\ doc.stage = "merged" => ~branch
        /\ doc.cut => doc.stage = "merged"
    BY <1>a, SettledProves
  <2>3. pc[w] = "removed" => ~agent /\ ~tree BY DEF IInv, Quiet
  <2> HIDE DEF doc
  <2>4. Torn(doc.stage) BY <2>2, <2>3 DEF Torn
  <2>5. ~atRest BY <2>1 DEF atRest
  <2>6. /\ doc.cut => Proved(doc) /\ doc.stage = "merged"
        /\ doc.stage = "merged" => Torn("merged")
    BY <2>2, <2>4 DEF Settled
  <2> QED BY <1>c, <2>1, <2>2, <2>4, <2>5, <2>6, SealReturn
<1>10. CASE TeardownFails(w)
  <2> DEFINE doc == incomplete(copy[w])
  <2>1. /\ pc[w] \in Tearing /\ record' = doc /\ Return(w, "releasing", doc)
        /\ UNCHANGED <<tree, branch>>
    BY <1>10 DEF TeardownFails
  <2>2. doc.stage = "cleanup-incomplete" /\ ~doc.cut BY <1>a, <1>b, <1>d
  <2> HIDE DEF doc
  <2>3. Torn(doc.stage) BY <1>d, <2>2 DEF Torn
  <2>4. ~atRest BY <2>1 DEF atRest
  <2> QED BY <1>c, <1>d, <2>1, <2>2, <2>3, <2>4, SealReturn
<1>11. CASE Release(w)
  <2>1. /\ UNCHANGED <<effect, record, copy, previous, tree, branch>>
        /\ pc' = [pc EXCEPT ![w] = "returned"]
    BY <1>11 DEF Release, world
  <2>2. \A v \in Worker : pc'[v] \in Tearing => pc[v] \in Tearing
    BY <1>a, <2>1 DEF Tearing
  <2> QED BY <1>c, <2>1, <2>2, SealAside DEF SealInv, Cuts
<1> QED
  BY Zenon, <1>1, <1>2, <1>3, <1>4, <1>5, <1>6, <1>7, <1>8, <1>9, <1>10, <1>11 DEF Finish

\* The cleanup's retry, and the environment.
LEMMA SealRest ==
  ASSUME IInv, LaunchInv, SealInv, Retry \/ Environment
  PROVE  SealInv'
<1>a. /\ TypeOK /\ record \in Document /\ Engine \in Worker
      /\ copy \in [Worker -> Document] /\ pc \in [Worker -> Step]
  BY DEF IInv, TypeOK, Worker
<1>1. CASE Retry
  <2> DEFINE doc == incomplete(copy[Engine])
  <2>1. /\ pc[Engine] \in Tearing /\ record' = doc
        /\ copy' = [copy EXCEPT ![Engine] = Blank]
        /\ UNCHANGED <<effect, previous, tree, branch>>
    BY <1>1 DEF Retry, Tearing, world
  <2>2. doc.stage \notin Settled /\ ~doc.cut
    BY <1>a DEF incomplete, Document, Settled, SealInv, Cuts
  <2> HIDE DEF doc
  <2>3. \A v \in Worker : ~copy'[v].cut BY <1>a, <2>1 DEF SealInv, Cuts, Blank
  <2>4. Outside BY <1>1, RestIsOutside
  <2> QED BY <1>a, <2>1, <2>2, <2>3, <2>4, SealGoesOn
<1>3. ASSUME NEW f \in Finisher, Die(f) PROVE SealInv'
  <2>1. /\ UNCHANGED <<effect, record, world>>
        /\ pc' = [pc EXCEPT ![f] = "dead"] /\ copy' = [copy EXCEPT ![f] = Blank]
        /\ previous' = [previous EXCEPT ![f] = ""]
    BY <1>3 DEF Die
  <2>2. Outside BY <1>3, RestIsOutside
  <2>3. \A v \in Worker : ~copy'[v].cut BY <1>a, <2>1 DEF SealInv, Cuts, Blank
  <2>4. \A v \in Worker : pc'[v] \in Tearing => pc[v] \in Tearing
    BY <1>a, <2>1 DEF Tearing
  <2>5. \A g \in Finisher : previous'[g] \in {previous[g], ""}
    BY <1>a, <2>1 DEF TypeOK
  <2> QED BY <2>1, <2>2, <2>3, <2>4, <2>5, SealAside DEF world
<1>4. CASE PaneDies \/ MergePR
  <2>1. UNCHANGED <<effect, record, copy, pc, previous, tree, branch>>
    BY <1>4 DEF PaneDies, MergePR
  <2>2. Outside BY <1>4, RestIsOutside
  <2> QED BY <2>1, <2>2, SealAside DEF SealInv, Cuts
<1>5. CASE Gate
  <2>1. /\ UNCHANGED <<issue, saving, effect, copy, previous, agent, tree, branch>>
        /\ record.stage \notin Over /\ record.stage \notin Settled
    BY <1>5 DEF Gate, thread, world, Over, Ended, Settled
  <2>2. record'.stage \notin Settled /\ record'.cut = record.cut
    BY <1>5, <1>a DEF Gate, Document, Settled
  <2>3. ~record.cut BY <2>1 DEF SealInv, Cuts, Proved
  <2>4. Cuts' BY <2>1, <2>2, <2>3 DEF SealInv, Cuts, Proved
  <2>5. HoldersTorn' BY <2>1, <2>2 DEF SealInv, HoldersTorn, Torn, cleaned
  <2>6. ~proven /\ ~over BY <2>1 DEF proven, atRest, Proved, over
  <2>7. Sealed'
    BY <2>1, <2>2, <2>6 DEF SealInv, Sealed, heldElsewhere, cleaned, writing
  <2> QED BY <2>4, <2>5, <2>7 DEF SealInv
<1> QED BY <1>1, <1>3, <1>4, <1>5 DEF Environment

\* The effect thread: a launch begins only when no settled stage is held anywhere.
LEMMA SealEffectThread ==
  ASSUME IInv, LaunchInv, SealInv, EffectThread
  PROVE  SealInv'
<1>a. /\ TypeOK /\ issue \in Issue /\ record \in Document /\ Engine \in Worker
      /\ copy \in [Worker -> Document] /\ pc \in [Worker -> Step]
  BY DEF IInv, TypeOK, Worker
<1>b. effect.at \in {"launch", "launching"} =>
        /\ issue.pending = "launch" /\ saving = {}
        /\ ~over /\ ~cleaned /\ ~writing
  BY DEF LaunchInv, Launches, over, cleaned, writing
<1>1. CASE CheckpointDone
  <2>1. PICK at \in {"applied", "failed"} : effect' = Returned(at)
    BY <1>1 DEF CheckpointDone
  <2>2. effect'.at = at /\ effect'.stage = "" BY <2>1 DEF Returned
  <2>3. /\ UNCHANGED <<issue, saving, record, pc, copy, previous, agent, tree, branch>>
        /\ effect.at = "checkpoint"
    BY <1>1 DEF CheckpointDone, thread, world
  <2>4. ~cleaned /\ ~cleaned'
    BY <2>3 DEF LaunchInv, Launches, cleaned
  <2>5. Cuts' BY <2>3 DEF SealInv, Cuts, Proved
  <2>6. HoldersTorn' BY <2>2, <2>3, <2>4 DEF SealInv, HoldersTorn, Torn, Settled
  <2>7. /\ heldElsewhere' => heldElsewhere
        /\ atRest => atRest'
        /\ proven => proven'
        /\ over => over'
        /\ writing => writing'
    <3>1. heldElsewhere' => heldElsewhere BY <2>2, <2>3 DEF heldElsewhere, Settled
    <3>2. atRest => atRest' BY <2>2, <2>3 DEF atRest, Proved
    <3>3. proven => proven' BY <2>3, <3>2 DEF proven, Proved
    <3>4. (over => over') /\ (writing => writing') BY <2>3 DEF over, writing
    <3> QED BY <3>1, <3>2, <3>3, <3>4
  <2>8. Sealed' BY <2>3, <2>4, <2>7 DEF SealInv, Sealed
  <2> QED BY <2>5, <2>6, <2>8 DEF SealInv
<1>2. CASE LaunchEnds
  <2>1. /\ UNCHANGED <<issue, saving, record, pc, copy, previous, agent, tree, branch>>
        /\ effect.at = "launch"
    BY <1>2 DEF LaunchEnds, NoLaunch, thread, world
  <2>2. /\ effect'.at \in {"settled", "wait", "failed"}
        /\ effect'.stage \in {"", record.stage}
    <3>1. effect' \in {[at |-> "settled", stage |-> record.stage], Returned("wait"),
                       [at |-> "failed", stage |-> record.stage]}
      BY <1>2 DEF LaunchEnds, NoLaunch
    <3>2. Returned("wait").at = "wait" /\ Returned("wait").stage = "" BY DEF Returned
    <3>3. \A at : LET out == [at |-> at, stage |-> record.stage]
                  IN  out.at = at /\ out.stage = record.stage
      OBVIOUS
    <3>4. CASE effect' = Returned("wait") BY <3>2, <3>4
    <3>5. CASE effect' = [at |-> "settled", stage |-> record.stage] BY <3>3, <3>5
    <3>6. CASE effect' = [at |-> "failed", stage |-> record.stage] BY <3>3, <3>6
    <3> QED BY <3>1, <3>4, <3>5, <3>6
  <2>3. ~cleaned' /\ saving = {} BY <1>b, <2>1, <2>2 DEF cleaned
  <2>4. Torn("") BY DEF Torn, Settled
  <2>5. Torn(issue.stage)' /\ Torn(effect.stage)' /\ \A f \in Finisher : Torn(previous[f])'
    BY <2>1, <2>2, <2>4 DEF SealInv, HoldersTorn, Torn
  <2>6. heldElsewhere' => heldElsewhere \/ record.stage \in Settled
    BY <2>1, <2>2 DEF heldElsewhere, Settled
  <2>7. ~over /\ ~cleaned BY <1>b, <2>1
  <2> QED BY <2>1, <2>2, <2>3, <2>5, <2>6, <2>7, SealKept
<1>3. CASE LaunchBegins
  <2>1. /\ UNCHANGED <<issue, saving, previous, agent, tree, branch>>
        /\ effect.at = "launch" /\ effect' = Returned("launching")
        /\ record.stage \notin Settled
        /\ record' = [record EXCEPT !.stage = "starting"]
        /\ copy' = [copy EXCEPT ![Engine] = record']
    BY <1>3 DEF LaunchBegins, launchable, thread, world, Settled
  <2>2. ~heldElsewhere /\ ~record.cut /\ saving = {}
    BY <1>b, <2>1 DEF SealInv, Sealed, proven, atRest, Cuts, Proved
  <2>3. record'.stage \notin Settled /\ ~record'.cut
    BY <1>a, <2>1, <2>2 DEF Document, Settled
  <2>4. effect'.at = "launching" /\ effect'.stage = "" BY <2>1 DEF Returned
  <2>5. Cuts' BY <1>a, <2>1, <2>2, <2>3 DEF SealInv, Cuts
  <2>6. HoldersTorn'
    BY <2>1, <2>2, <2>3, <2>4 DEF SealInv, HoldersTorn, Torn, cleaned, Settled
  <2>7. Sealed' BY <2>1, <2>2, <2>3, <2>4 DEF Sealed, heldElsewhere, Settled
  <2> QED BY <2>5, <2>6, <2>7 DEF SealInv
<1>4. CASE LaunchStarts \/ LaunchFails
  <2>1. \E at \in {"applied", "failed"}, stage \in Stage \ Settled : LaunchReturns(at, stage)
    <3>1. {"", "running", "replacing", "uncertain"} \subseteq Stage \ Settled
      BY DEF Stage, Settled
    <3> QED BY Zenon, <1>4, <3>1 DEF LaunchStarts, LaunchFails
  <2>2. PICK at \in {"applied", "failed"}, stage \in Stage \ Settled : LaunchReturns(at, stage)
    BY <2>1
  <2>3. /\ UNCHANGED <<issue, saving, previous>> /\ effect.at = "launching"
        /\ effect' = [at |-> at, stage |-> stage]
        /\ record' = [copy[Engine] EXCEPT !.stage = stage]
        /\ copy' = [copy EXCEPT ![Engine] = Blank]
    BY <2>2 DEF LaunchReturns, thread
  <2>4. ~heldElsewhere /\ record.stage \notin Settled /\ saving = {}
    BY <1>b, <2>3 DEF SealInv, Sealed, proven, atRest
  <2>5. record'.stage \notin Settled /\ ~record'.cut
    BY <1>a, <2>3 DEF Document, SealInv, Cuts
  <2>6. effect'.at = at /\ effect'.stage = stage /\ stage \notin Settled BY <2>3
  <2>7. Cuts' BY <1>a, <2>3, <2>4, <2>5 DEF SealInv, Cuts, Blank
  <2>8. ~heldElsewhere' BY <2>3, <2>4, <2>6 DEF heldElsewhere
  <2>9. ~cleaned' BY <1>b, <2>3 DEF cleaned
  <2>10. HoldersTorn'
    BY <2>5, <2>8, <2>9 DEF HoldersTorn, Torn, heldElsewhere
  <2>11. Sealed' BY <2>5, <2>8 DEF Sealed
  <2> QED BY <2>7, <2>10, <2>11 DEF SealInv
<1>5. CASE Retry BY <1>5, SealRest
<1> QED BY <1>1, <1>2, <1>3, <1>4, <1>5 DEF EffectThread

\* The state thread.
LEMMA SealStateThread ==
  ASSUME IInv, LaunchInv, SealInv, StateThread
  PROVE  SealInv'
<1>a. TypeOK /\ issue \in Issue /\ record \in Document BY DEF IInv, TypeOK
<1>b. /\ Torn(issue.stage) /\ Torn(effect.stage) /\ Torn(record.stage)
      /\ \A f \in Finisher : Torn(previous[f])
      /\ cleaned => Torn("merged")
  BY DEF SealInv, HoldersTorn
<1>c. effect.at # "none" => issue.pending # "none" BY DEF IInv, Known
<1>1. CASE Refresh
  <2>1. UNCHANGED <<saving, effect, record, pc, copy, previous, agent, tree, branch>>
        /\ saving = {}
    BY <1>1 DEF Refresh, world, ready
  <2>2. /\ issue'.stage \in {issue.stage, record.stage}
        /\ issue'.pending = issue.pending
    BY <1>1, <1>a, Handlers DEF Refresh
  <2>3. Torn(issue.stage)' /\ Torn(effect.stage)' /\ \A f \in Finisher : Torn(previous[f])'
    BY <1>b, <2>1, <2>2 DEF Torn
  <2>4. cleaned' <=> cleaned BY <2>1, <2>2 DEF cleaned
  <2>5. heldElsewhere' => heldElsewhere \/ record.stage \in Settled
    BY <2>1, <2>2 DEF heldElsewhere
  <2>6. over => over' BY <2>1, <2>2 DEF over
  <2> QED BY <1>b, <2>1, <2>3, <2>4, <2>5, <2>6, SealKept
\* A handler of an issue that is not over, nor cleaned up.
<1>2. ASSUME saving = {}, saving' \subseteq {record},
             UNCHANGED <<effect, record, pc, copy, previous, agent, tree, branch>>,
             issue'.stage \in {issue.stage, "cleaning"},
             ~over, ~cleaned, ~cleaned'
      PROVE  SealInv'
  <2>1. Torn(issue.stage)' /\ Torn(effect.stage)' /\ \A f \in Finisher : Torn(previous[f])'
    BY <1>b, <1>2 DEF Torn, Settled
  <2>2. heldElsewhere' => heldElsewhere \/ record.stage \in Settled
    BY <1>2 DEF heldElsewhere, Settled
  <2> QED BY <1>2, <2>1, <2>2, SealKept
<1>3. CASE Gone
  <2>1. UNCHANGED <<effect, record, pc, copy, previous, agent, tree, branch>>
        /\ saving = {} /\ saving' = {}
    BY <1>3 DEF Gone, Handled, world, ready
  <2>2. /\ issue'.pending = "checkpoint" /\ issue'.stage = issue.stage
        /\ issue.stage = "running" /\ issue.pending # "cleanup"
    BY <1>3, <1>a DEF Gone, Handled, Issue
  <2>3. ~over /\ ~cleaned /\ ~cleaned' BY <2>2 DEF over, cleaned, Over, Ended
  <2> QED BY <1>2, <2>1, <2>2, <2>3
<1>4. CASE Merged
  <2>1. UNCHANGED <<effect, record, pc, copy, previous, agent, tree, branch>>
        /\ saving = {} /\ saving' = {record}
    BY <1>4 DEF Merged, Handled, world, ready
  <2>2. /\ issue'.stage = "cleaning"
        /\ issue.stage \in {"running", "awaiting_merge"}
        /\ issue.pending \in {"none", "checkpoint"}
        /\ issue'.pending = IF issue.pending = "none" THEN "cleanup" ELSE issue.pending
    <3> DEFINE s == [issue EXCEPT !.stage = "cleaning", !.deferred = FALSE, !.relaunch = FALSE]
    <3>1. s \in Issue /\ s.stage = "cleaning" /\ s.pending = issue.pending
      BY <1>a DEF Issue, Stage
    <3>2. issue' = IF issue.pending = "none" THEN [s EXCEPT !.pending = "cleanup"]
                                             ELSE [s EXCEPT !.follow = "cleanup"]
      BY <1>4 DEF Merged, Handled
    <3> HIDE DEF s
    <3>3. /\ issue.stage \in {"running", "awaiting_merge"}
          /\ issue.pending \in {"none", "checkpoint"}
      BY <1>4 DEF Merged
    <3> QED BY <3>1, <3>2, <3>3 DEF Issue
  <2>3. ~over /\ ~cleaned /\ ~cleaned'
    BY <1>c, <2>1, <2>2 DEF over, cleaned, Over, Ended
  <2> QED BY <1>2, <2>1, <2>2, <2>3
<1>5. CASE Wave \/ Rearm
  <2>1. UNCHANGED <<effect, record, pc, copy, previous, agent, tree, branch>>
        /\ saving = {} /\ saving' = {}
    BY <1>5 DEF Wave, Rearm, Handled, world, ready
  <2>2. /\ issue'.pending \in {"checkpoint", "launch"} /\ issue'.stage = issue.stage
        /\ issue.stage = "running" /\ issue.pending = "none"
    BY <1>5, <1>a DEF Wave, Rearm, Handled, Issue
  <2>3. ~over /\ ~cleaned /\ ~cleaned' BY <2>2 DEF over, cleaned, Over, Ended
  <2> QED BY <1>2, <2>1, <2>2, <2>3
<1>6. CASE Save
  <2>1. PICK doc \in saving : record' = engine_fields(doc) BY <1>6 DEF Save
  <2>2. doc \in Document BY <1>a, <2>1 DEF TypeOK
  <2>3. /\ UNCHANGED <<issue, effect, pc, copy, previous, agent, tree, branch>>
        /\ saving' = {}
    BY <1>6 DEF Save, world
  <2>4. /\ doc.stage \in Settled => record'.stage = doc.stage
        /\ doc.stage \notin Settled /\ issue.stage # "" => record'.stage = issue.stage
        /\ issue.stage = "" => record'.stage = doc.stage
        /\ record'.removed = doc.removed /\ record'.cut = doc.cut
    BY <1>a, <2>1, <2>2, Saves
  <2>5. /\ Torn(doc.stage)
        /\ doc.cut => Proved(doc) /\ doc.stage = "merged"
    BY <2>1 DEF SealInv, HoldersTorn, Cuts
  <2>6. Cuts' BY <2>3, <2>4, <2>5 DEF SealInv, Cuts, Proved
  <2>7. HoldersTorn'
    BY <1>b, <2>3, <2>4, <2>5 DEF HoldersTorn, Torn, cleaned
  <2>8. /\ heldElsewhere' => heldElsewhere
        /\ record'.stage \in Settled => heldElsewhere
    BY <2>1, <2>3, <2>4 DEF heldElsewhere
  <2>9. proven => proven' /\ atRest'
    BY <2>1, <2>3, <2>4 DEF proven, atRest, Proved
  <2>10. over \/ writing => over'
    <3>1. issue.stage \in Over => record'.stage \in Over
      BY <2>4 DEF Over, Ended, Settled
    <3> QED BY <2>3, <3>1 DEF over, writing, Over, Ended
  <2>11. cleaned => cleaned' BY <2>3 DEF cleaned
  <2>12. Sealed'
    BY <2>8, <2>9, <2>10, <2>11 DEF SealInv, Sealed
  <2> QED BY <2>6, <2>7, <2>12 DEF SealInv
<1>7. CASE StartCall
  <2>1. /\ UNCHANGED <<issue, saving, record, pc, copy, previous, agent, tree, branch>>
        /\ saving = {} /\ effect.at = "none" /\ issue.pending # "none"
        /\ effect'.at = issue.pending /\ effect'.stage = ""
    BY <1>7 DEF StartCall, thread, world, ready, Nothing, Returned
  <2>2. issue.pending \in {"checkpoint", "launch", "cleanup"} BY <1>a, <2>1 DEF Issue
  <2>3. ~over /\ ~cleaned /\ ~cleaned' BY <2>1, <2>2 DEF over, cleaned
  <2>4. Torn(issue.stage)' /\ Torn(effect.stage)' /\ \A f \in Finisher : Torn(previous[f])'
    BY <1>b, <2>1 DEF Torn, Settled
  <2>5. heldElsewhere' => heldElsewhere BY <2>1 DEF heldElsewhere, Settled
  <2>6. effect'.at # "launching" BY <2>1, <2>2
  <2> QED BY <2>1, <2>3, <2>4, <2>5, <2>6, SealKept
<1>8. CASE EffectDone
  <2>1. /\ UNCHANGED <<record, pc, copy, previous, agent, tree, branch>>
        /\ saving = {} /\ saving' \subseteq {record}
        /\ effect.at \in {"applied", "wait", "settled", "failed"}
        /\ issue' = commit_effect(issue, effect)
        /\ effect'.at = "none" /\ effect'.stage = ""
    BY <1>8 DEF EffectDone, world, ready, Nothing
  <2>2. ~over /\ ~cleaned' /\ Torn(effect.stage)'
    BY <1>c, <2>1 DEF over, cleaned, Torn, Settled
  <2>3. \A f \in Finisher : Torn(previous[f])' BY <1>b, <2>1 DEF Torn
  <2>4. CASE ~cleaned
    <3>1. issue'.stage \in {issue.stage, effect.stage, "running", "cleanup-incomplete"}
      <4>1. issue.pending \in {"launch", "checkpoint"} =>
              issue'.stage \in {issue.stage, effect.stage, "running"}
        BY <1>a, <2>1, Commits
      <4>2. issue.pending \notin {"launch", "checkpoint"} =>
              issue'.stage = IF effect.at = "applied" THEN "merged" ELSE "cleanup-incomplete"
        BY <1>a, <2>1, Commits
      <4>3. issue.pending \notin {"launch", "checkpoint"} => issue.pending = "cleanup"
        BY <1>a, <1>c, <2>1 DEF Issue
      <4> QED BY <2>4, <4>1, <4>2, <4>3 DEF cleaned
    <3>2. Torn(issue.stage)' BY <1>b, <2>1, <3>1 DEF Torn, Settled
    <3>3. heldElsewhere' => heldElsewhere \/ record.stage \in Settled
      BY <2>1, <3>1 DEF heldElsewhere, Settled
    <3> QED BY <2>1, <2>2, <2>3, <2>4, <3>2, <3>3, SealKept
  <2>5. CASE cleaned
    <3>1. issue'.stage = "merged" /\ issue'.pending = "none"
      BY <1>a, <2>1, <2>5, Commits DEF cleaned
    <3>2. saving' = {record}
      BY <1>8, <2>5 DEF EffectDone, owes, cleaned
    <3>3. writing' BY <3>1, <3>2 DEF writing
    <3>4. Torn(issue.stage)' BY <1>b, <2>1, <2>5, <3>1 DEF Torn
    <3> QED BY <2>1, <2>2, <2>3, <3>3, <3>4, SealKept
  <2> QED BY <2>4, <2>5
\* A report comes from an agent: nothing is settled while one runs.
<1>9. ASSUME NEW changed \in BOOLEAN, Report(changed) PROVE SealInv'
  <2>1. /\ UNCHANGED <<effect, record, pc, copy, previous, agent, tree, branch>>
        /\ agent /\ saving = {} /\ saving' \subseteq {record}
    BY <1>9 DEF Report, Handled, world, ready
  <2>2. issue'.stage \in {issue.stage, "running"} /\ issue'.pending = issue.pending
    <3>1. adopt(issue) \in Issue BY <1>a, HandlerTypes
    <3>2. issue' = [adopt(issue) EXCEPT !.deferred = @ /\ ~changed]
      BY <1>9 DEF Report, Handled
    <3>3. issue'.stage = adopt(issue).stage /\ issue'.pending = adopt(issue).pending
      BY <3>1, <3>2 DEF Issue
    <3> QED BY <1>a, <3>3, Handlers
  <2>3. /\ issue.stage \notin Settled /\ effect.stage \notin Settled
        /\ record.stage \notin Settled /\ ~cleaned
        /\ \A f \in Finisher : previous[f] \notin Settled
    BY <1>b, <2>1 DEF Torn, Settled
  <2>4. ~heldElsewhere' /\ ~cleaned'
    BY <2>1, <2>2, <2>3 DEF heldElsewhere, cleaned, Settled
  <2>5. Cuts' BY <2>1, <2>3 DEF SealInv, Cuts, Proved
  <2>6. HoldersTorn' BY <2>1, <2>3, <2>4 DEF HoldersTorn, heldElsewhere, Torn
  <2>7. Sealed' BY <2>1, <2>3, <2>4 DEF Sealed
  <2> QED BY <2>5, <2>6, <2>7 DEF SealInv
<1> QED BY <1>1, <1>3, <1>4, <1>5, <1>6, <1>7, <1>8, <1>9 DEF StateThread

\* The two messages of a finish.
LEMMA SealTell ==
  ASSUME IInv, LaunchInv, SealInv, NEW f \in Finisher, Tell(f)
  PROVE  SealInv'
<1>a. /\ TypeOK /\ issue \in Issue /\ record \in Document
      /\ previous \in [Finisher -> Stage] /\ pc \in [Worker -> Step]
  BY DEF IInv, TypeOK
<1>b. /\ Torn(issue.stage) /\ Torn(effect.stage) /\ Torn(record.stage)
      /\ \A g \in Finisher : Torn(previous[g])
      /\ cleaned => Torn("merged")
      /\ Torn("")
  BY DEF SealInv, HoldersTorn, Torn, Settled
\* Both leave the record, and step outside the teardown.
<1>1. ASSUME NEW step \in {"begun", "ended"}, pc' = [pc EXCEPT ![f] = step], saving = {},
             UNCHANGED <<saving, effect, record, copy, agent, tree, branch>>,
             issue'.pending = issue.pending,
             issue'.stage \in {issue.stage, record.stage, previous[f], "cleaning"},
             \A g \in Finisher : previous'[g] \in {previous[g], issue.stage, ""},
             over => issue'.stage \in Over
      PROVE  SealInv'
  <2>1. \A v \in Worker : pc'[v] \in Tearing => pc[v] \in Tearing
    BY <1>a, <1>1 DEF Tearing
  <2>2. Cuts' BY <1>1 DEF SealInv, Cuts, Proved
  <2>3. cleaned' <=> cleaned BY <1>1 DEF cleaned
  <2>4. HoldersTorn'
    <3>1. \A s : Torn(s) => Torn(s)' BY <1>1 DEF Torn
    <3>2. Torn(issue.stage)' BY <1>1, <1>b DEF Torn, Settled
    <3>3. \A g \in Finisher : Torn(previous[g])' BY <1>1, <1>b DEF Torn
    <3> QED BY <1>1, <1>b, <2>3, <3>1, <3>2, <3>3 DEF HoldersTorn, Torn
  <2>5. heldElsewhere' => heldElsewhere \/ record.stage \in Settled
    BY <1>1 DEF heldElsewhere, Settled
  <2>6. (atRest => proven') /\ (over => over') /\ ~writing
    <3>1. atRest => proven' BY <1>1, <2>1 DEF atRest, proven, Proved
    <3>2. (over => over') /\ ~writing BY <1>1 DEF over, writing
    <3> QED BY <3>1, <3>2
  <2>7. Sealed'
    <3>1. heldElsewhere \/ record.stage \in Settled => proven' \/ over' \/ cleaned'
      BY <2>3, <2>6 DEF SealInv, Sealed, proven
    <3> QED BY <1>1, <2>5, <3>1 DEF Sealed, proven
  <2> QED BY <2>2, <2>4, <2>7 DEF SealInv
<1>2. ASSUME NEW skip \in BOOLEAN, Begin(f, skip) PROVE SealInv'
  <2>1. /\ UNCHANGED <<saving, effect, record, copy, agent, tree, branch>> /\ saving = {}
        /\ issue' = begin(issue) /\ pc' = [pc EXCEPT ![f] = "begun"]
        /\ previous' = [previous EXCEPT ![f] = issue.stage]
    BY <1>2 DEF Begin, world, ready
  <2>2. issue'.stage = "cleaning" /\ issue'.pending = issue.pending
    BY <1>a, <2>1, Handlers
  <2>3. \A g \in Finisher : previous'[g] \in {previous[g], issue.stage}
    BY <1>a, <2>1
  <2> QED BY <1>1, <2>1, <2>2, <2>3 DEF Over
<1>3. CASE End(f)
  <2>1. /\ UNCHANGED <<saving, effect, record, copy, agent, tree, branch>> /\ saving = {}
        /\ pc' = [pc EXCEPT ![f] = "ended"] /\ previous' = [previous EXCEPT ![f] = ""]
    BY <1>3 DEF End, world, ready
  <2>2. /\ issue'.stage = IF record.stage # "" THEN record.stage ELSE previous[f]
        /\ issue'.pending = issue.pending
    BY <1>3, <1>a DEF End, Issue
  <2>3. \A g \in Finisher : previous'[g] \in {previous[g], ""}
    BY <1>a, <2>1
  <2>4. over => issue'.stage \in Over BY <2>2 DEF over, Over, Ended
  <2> QED BY <1>1, <2>1, <2>2, <2>3, <2>4
<1> QED BY <1>2, <1>3 DEF Tell

LEMMA SealStep == IInv /\ LaunchInv /\ SealInv /\ [Next]_vars => SealInv'
<1> SUFFICES ASSUME IInv, LaunchInv, SealInv, [Next]_vars PROVE SealInv'
  OBVIOUS
<1>1. CASE UNCHANGED vars
  <2>1. UNCHANGED <<issue, saving, effect, record, pc, copy, previous, agent, tree, branch>>
    BY <1>1 DEF vars, thread, world
  <2>2. Cuts' BY <2>1 DEF SealInv, Cuts, Proved
  <2>3. HoldersTorn' BY <2>1 DEF SealInv, HoldersTorn, Torn, cleaned
  <2>4. Sealed'
    BY <2>1 DEF SealInv, Sealed, heldElsewhere, proven, atRest, Proved, over, cleaned, writing
  <2> QED BY <2>2, <2>3, <2>4 DEF SealInv
<1> QED
  BY <1>1, SealStateThread, SealEffectThread, SealFinish, SealTell, SealRest DEF Next

\* engine_fields and settle: a record says merged or abandoned only of an issue whose
\* agent is gone and whose worktree is removed, and merged only once its branch is cut,
\* although the engine writes its stage into that record without the launch lock.
THEOREM SettledMeansTorn == Spec => []SettledIsTorn
<1>1. Spec => [](LaunchInv /\ SealInv)
  BY LaunchInit, LaunchStep, SealInit, SealStep, Inductive, PTL DEF Spec
<1>2. SealInv => SettledIsTorn BY DEF SealInv, HoldersTorn, Torn, SettledIsTorn
<1> QED BY <1>1, <1>2, PTL
=============================================================================
