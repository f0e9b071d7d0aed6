------------------------ MODULE MergeQueueStepsProofs -----------------------
(***************************************************************************)
(* Proofs about the steps of MergeQueue: what none of them may do to an      *)
(* issue's stage, and what the answer that ends the head's turn must do.     *)
(* `Onward' is what a handler of a message does to the stages; the handlers  *)
(* of an answer do more, and are read one by one.                           *)
(***************************************************************************)
EXTENDS MergeQueueProofs

World == [Issue -> Record]

\* The stage may go from r's to s's.
Forward(r, s) ==
  r.stage # s.stage =>
    \/ r.stage = "running"
    \/ r.stage = "cleaning" /\ s.stage \in {"cleanup-incomplete", "merged"}

\* A cleanup is pending, or follows the pending checkpoint: its issue is cleaning.
Tearing(r) == r.pending.act = "cleanup" \/ r.pending.cleanup => r.stage = "cleaning"

\* The stages stay, and a pending action too: one is armed where there is none.
SteadyRecord(r, s) ==
  /\ s.stage = r.stage
  /\ \/ s.pending = r.pending
     \/ r.pending = NoPending /\ s.pending \in {fresh("merge"), fresh("checkpoint")}

Steady(w, v) ==
  /\ v \in World
  /\ \A i \in Issue : SteadyRecord(w[i], v[i])

\* Stages go forward, under a pending merge step at most to closed.
OnwardRecord(r, s) ==
  /\ Forward(r, s)
  /\ Tearing(r) => Tearing(s)
  /\ r.pending.act = "merge" => s.pending.act = "merge" /\ s.stage \in {r.stage, "closed"}

Onward(w, v) ==
  /\ v \in World
  /\ \A i \in Issue : OnwardRecord(w[i], v[i])

\* The queue is the same in both worlds.
SameQueue(w, v) ==
  \A i \in Issue : /\ v[i].phase = w[i].phase
                   /\ v[i].stage = w[i].stage
                   /\ v[i].ahead = w[i].ahead

\* Every head has its step pending, or is held.
HeadsArmed(w, p) ==
  \A i \in Issue : is_head(w, p, i) => w[i].pending # NoPending \/ w[i].deferred # "none"

-----------------------------------------------------------------------------
(* The relations. *)

LEMMA SteadyReflexive == ASSUME NEW w \in World PROVE Steady(w, w)
BY DEF Steady, SteadyRecord

LEMMA SteadyTransitive ==
  ASSUME NEW u, NEW v, NEW w, Steady(u, v), Steady(v, w)
  PROVE  Steady(u, w)
<1>1. \A act \in Act : fresh(act) # NoPending
  BY FreshType
<1>2. fresh("merge") # NoPending /\ fresh("checkpoint") # NoPending
  BY <1>1 DEF Act
<1> QED
  BY <1>2 DEF Steady, SteadyRecord

LEMMA SteadyOnward ==
  ASSUME NEW w, NEW v, Steady(w, v)
  PROVE  Onward(w, v)
BY DEF Steady, SteadyRecord, Onward, OnwardRecord, Forward, Tearing, NoPending, fresh

LEMMA OnwardTransitive ==
  ASSUME NEW u, NEW v, NEW w, Onward(u, v), Onward(v, w)
  PROVE  Onward(u, w)
BY DEF Onward, OnwardRecord, Forward

\* One record changes.
LEMMA OneSteady ==
  ASSUME NEW w \in World, NEW i \in Issue, NEW s \in Record, SteadyRecord(w[i], s)
  PROVE  Steady(w, [w EXCEPT ![i] = s])
BY DEF World, Steady, SteadyRecord

LEMMA OneOnward ==
  ASSUME NEW w \in World, NEW i \in Issue, NEW s \in Record, OnwardRecord(w[i], s)
  PROVE  Onward(w, [w EXCEPT ![i] = s])
BY DEF World, Onward, OnwardRecord, Forward

LEMMA SameHeads ==
  ASSUME NEW w, NEW v, NEW p, NEW i \in Issue, SameQueue(w, v)
  PROVE  is_head(v, p, i) <=> is_head(w, p, i)
BY DEF SameQueue, is_head, queued, before

LEMMA SameQueueTransitive ==
  ASSUME NEW u, NEW v, NEW w, SameQueue(u, v), SameQueue(v, w)
  PROVE  SameQueue(u, w)
BY DEF SameQueue

-----------------------------------------------------------------------------
(* The handlers of a message. *)

LEMMA ArmReadySteady ==
  ASSUME NEW w \in World, NEW p
  PROVE  /\ Steady(w, arm_ready(w, p))
         /\ HeadsArmed(arm_ready(w, p), p)
<1> DEFINE v == arm_ready(w, p)
<1>1. ASSUME NEW j \in Issue
      PROVE  /\ v[j] \in Record /\ SteadyRecord(w[j], v[j])
             /\ v[j].phase = w[j].phase /\ v[j].ahead = w[j].ahead
             /\ armable(w, p, j) => v[j].pending # NoPending
             /\ ~armable(w, p, j) => v[j] = w[j]
  <2>1. w[j] \in Record /\ fresh("merge") \in Pending /\ fresh("merge") # NoPending
    BY FreshType DEF World, Act
  <2>2. CASE armable(w, p, j)
    <3>1. v[j] = [w[j] EXCEPT !.pending = fresh("merge")] /\ w[j].pending = NoPending
      BY <2>2 DEF arm_ready, armable
    <3> QED
      BY <2>1, <2>2, <3>1 DEF Record, SteadyRecord
  <2>3. CASE ~armable(w, p, j)
    BY <2>1, <2>3 DEF arm_ready, SteadyRecord
  <2> QED
    BY <2>2, <2>3
<1>2. v \in World
  BY <1>1 DEF arm_ready, World
<1>3. SameQueue(w, v)
  BY <1>1 DEF SameQueue, SteadyRecord
<1> HIDE DEF v
<1>4. HeadsArmed(v, p)
  <2> SUFFICES ASSUME NEW j \in Issue, is_head(v, p, j), v[j].pending = NoPending
               PROVE  v[j].deferred # "none"
    BY DEF HeadsArmed
  <2>1. is_head(w, p, j)
    BY <1>3, SameHeads
  <2>2. v[j] = w[j] /\ ~armable(w, p, j)
    BY <1>1
  <2> QED
    BY <2>1, <2>2 DEF armable
<1>5. Steady(w, v)
  BY <1>1, <1>2 DEF Steady
<1> QED
  BY <1>4, <1>5 DEF v

LEMMA ArmMergeSteady ==
  ASSUME NEW w \in World, NEW i \in Issue
  PROVE  Steady(w, arm_merge(w, i))
<1>1. CASE ~armable(w, paused, i)
  BY <1>1, SteadyReflexive DEF arm_merge
<1>2. CASE armable(w, paused, i)
  <2> DEFINE s == [w[i] EXCEPT !.pending = fresh("merge")]
  <2>1. arm_merge(w, i) = [w EXCEPT ![i] = s]
    BY <1>2 DEF arm_merge
  <2>2. s \in Record /\ SteadyRecord(w[i], s)
    BY <1>2, FreshType DEF armable, World, Record, SteadyRecord, Act
  <2> HIDE DEF s
  <2> QED
    BY <2>1, <2>2, OneSteady
<1> QED
  BY <1>1, <1>2

LEMMA NotePhaseSteady ==
  ASSUME NEW w \in World, NEW i \in Issue, NEW phase \in Phase
  PROVE  Steady(w, note_phase(w, i, phase))
<1> DEFINE v == note_phase(w, i, phase)
<1>1. ASSUME NEW j \in Issue
      PROVE  v[j] \in Record /\ SteadyRecord(w[j], v[j])
  <2>1. w[j] \in Record
    BY DEF World
  <2>2. v[j].pending = w[j].pending /\ v[j].stage = w[j].stage
    BY <2>1 DEF World, note_phase, Record
  <2>3. v[j] \in Record
    BY <2>1 DEF World, note_phase, Record
  <2> QED
    BY <2>2, <2>3 DEF SteadyRecord
<1>2. v = [j \in Issue |-> v[j]]
  BY DEF note_phase, World
<1> HIDE DEF v
<1>3. v \in World
  BY <1>1, <1>2 DEF World
<1>4. Steady(w, v)
  BY <1>1, <1>3 DEF Steady
<1> QED
  BY <1>4 DEF v

\* deferred and held say nothing of the stage.
LEMMA DeferredSteady ==
  ASSUME NEW w \in World, NEW i \in Issue, NEW hold \in {"none", "merge", "rebase"}
  PROVE  LET v == [w EXCEPT ![i].deferred = hold]
         IN Steady(w, v) /\ SameQueue(w, v)
<1> DEFINE s == [w[i] EXCEPT !.deferred = hold]
<1>1. /\ s \in Record /\ SteadyRecord(w[i], s)
      /\ s.phase = w[i].phase /\ s.ahead = w[i].ahead /\ s.stage = w[i].stage
  BY DEF World, Record, SteadyRecord
<1> HIDE DEF s
<1>2. Steady(w, [w EXCEPT ![i] = s]) /\ SameQueue(w, [w EXCEPT ![i] = s])
  BY <1>1, OneSteady DEF World, SameQueue
<1> QED
  BY <1>2 DEF s

LEMMA HeldSteady ==
  ASSUME NEW w \in World, NEW i \in Issue, NEW held \in BOOLEAN
  PROVE  LET v == [w EXCEPT ![i].held = held]
         IN /\ Steady(w, v) /\ SameQueue(w, v)
            /\ \A p : HeadsArmed(w, p) => HeadsArmed(v, p)
<1> DEFINE s == [w[i] EXCEPT !.held = held]
           v == [w EXCEPT ![i] = s]
<1>1. /\ s \in Record /\ SteadyRecord(w[i], s)
      /\ s.phase = w[i].phase /\ s.ahead = w[i].ahead /\ s.stage = w[i].stage
      /\ s.pending = w[i].pending /\ s.deferred = w[i].deferred
  BY DEF World, Record, SteadyRecord
<1> HIDE DEF s
<1>2. Steady(w, v) /\ SameQueue(w, v)
  BY <1>1, OneSteady DEF World, SameQueue
<1>3. \A j \in Issue : v[j].pending = w[j].pending /\ v[j].deferred = w[j].deferred
  BY <1>1 DEF World
<1> HIDE DEF v
<1>4. \A p : HeadsArmed(w, p) => HeadsArmed(v, p)
  BY <1>2, <1>3, SameHeads DEF HeadsArmed
<1> QED
  BY <1>2, <1>4 DEF s, v

LEMMA LeaveSteady ==
  ASSUME NEW w \in World, NEW i \in Issue, NEW phase \in Phase
  PROVE  Steady(w, leave(w, i, phase)) /\ HeadsArmed(leave(w, i, phase), paused)
<1> DEFINE noted == note_phase(w, i, phase)
           freed == [noted EXCEPT ![i].deferred = "none"]
<1>1. Steady(w, noted)
  BY NotePhaseSteady
<1>2. Steady(noted, freed)
  BY <1>1, DeferredSteady DEF Steady
<1>3. /\ Steady(freed, arm_ready(freed, paused))
      /\ HeadsArmed(arm_ready(freed, paused), paused)
  BY <1>2, ArmReadySteady DEF Steady
<1>4. leave(w, i, phase) = arm_ready(freed, paused)
  BY DEF leave
<1> HIDE DEF noted, freed
<1>5. Steady(w, freed)
  BY <1>1, <1>2, SteadyTransitive
<1>6. Steady(w, arm_ready(freed, paused))
  BY <1>3, <1>5, SteadyTransitive
<1> QED
  BY <1>3, <1>4, <1>6

LEMMA ApplyReportSteady ==
  ASSUME NEW w \in World, NEW i \in Issue, NEW phase \in Phase
  PROVE  Steady(w, apply_report(w, i, phase))
<1> DEFINE noted == note_phase(w, i, phase)
           after == IF w[i].phase # phase THEN [noted EXCEPT ![i].deferred = "none"]
                    ELSE noted
<1>1. Steady(w, noted)
  BY NotePhaseSteady
<1>2. Steady(noted, after)
  BY <1>1, DeferredSteady, SteadyReflexive DEF Steady
<1>3. apply_report(w, i, phase) = IF phase = "ready" THEN arm_merge(after, i) ELSE after
  BY DEF apply_report
<1> HIDE DEF noted, after
<1>4. Steady(w, after)
  BY <1>1, <1>2, SteadyTransitive
<1>5. Steady(after, arm_merge(after, i))
  BY <1>2, ArmMergeSteady DEF Steady
<1> QED
  BY <1>3, <1>4, <1>5, SteadyTransitive

LEMMA MergedOnward ==
  ASSUME NEW w \in World, NEW i \in Issue
  PROVE  Onward(w, merged(w, i))
<1>0. w[i] \in Record
  BY DEF World
<1>1. CASE ~(w[i].stage = "running" /\ w[i].pending.act \in {"none", "checkpoint"})
  BY <1>1, SteadyReflexive, SteadyOnward DEF merged
<1>2. CASE w[i].stage = "running" /\ w[i].pending.act \in {"none", "checkpoint"}
  <2> DEFINE next == IF w[i].pending.act = "checkpoint"
                     THEN [w[i].pending EXCEPT !.cleanup = TRUE] ELSE fresh("cleanup")
             s == [w[i] EXCEPT !.stage = "cleaning", !.deferred = "none", !.pending = next]
  <2>1. merged(w, i) = [w EXCEPT ![i] = s]
    BY <1>2 DEF merged, World
  <2>2. next \in Pending
    BY <1>0, FreshType DEF Record, Pending, Act
  <2>3. s \in Record /\ s.stage = "cleaning"
    BY <1>0, <2>2 DEF Record, Stage
  <2>4. OnwardRecord(w[i], s)
    BY <1>2, <2>3 DEF OnwardRecord, Forward, Tearing
  <2> HIDE DEF s
  <2> QED
    BY <2>1, <2>3, <2>4, OneOnward
<1> QED
  BY <1>1, <1>2

LEMMA PromptSteady ==
  ASSUME NEW w \in World, NEW i \in Issue
  PROVE  Steady(w, prompt(w, i))
<1>1. Steady(w, leave(w, i, "babysit"))
  BY LeaveSteady DEF Phase
<1>2. Steady(w, [w EXCEPT ![i].held = TRUE])
  BY HeldSteady
<1> QED
  BY <1>1, <1>2, SteadyReflexive DEF prompt

LEMMA BabysitOnward ==
  ASSUME NEW w \in World, NEW i \in Issue,
         NEW next \in {"keep-going", "merge-queue", "prompt", "merged"}
  PROVE  Onward(w, babysit(w, i, next))
<1>1. Onward(w, merged(w, i))
  BY MergedOnward
<1>2. Onward(w, prompt(w, i))
  BY PromptSteady, SteadyOnward
<1>3. Onward(w, note_phase(w, i, "ready"))
  BY NotePhaseSteady, SteadyOnward DEF Phase
<1>4. Onward(w, w)
  BY SteadyReflexive, SteadyOnward
<1> QED
  BY <1>1, <1>2, <1>3, <1>4 DEF babysit
-----------------------------------------------------------------------------
(* The handlers of an answer. *)

LEMMA SetArmedSteady ==
  ASSUME NEW w \in World, NEW i \in Issue, NEW armed \in BOOLEAN
  PROVE  Steady(w, set_armed(w, i, armed)) /\ SameQueue(w, set_armed(w, i, armed))
<1> DEFINE s == [w[i] EXCEPT !.auto_armed = armed,
                             !.disarm_due = @ \/ (armed /\ ~queued(w, i))]
<1>0. w[i] \in Record
  BY DEF World
<1>1. /\ s \in Record /\ SteadyRecord(w[i], s)
      /\ s.phase = w[i].phase /\ s.ahead = w[i].ahead /\ s.stage = w[i].stage
  <2>1. s \in Record
    BY <1>0 DEF Record, queued
  <2>2. /\ s.phase = w[i].phase /\ s.ahead = w[i].ahead
        /\ s.stage = w[i].stage /\ s.pending = w[i].pending
    BY <1>0 DEF Record
  <2> QED
    BY <2>1, <2>2 DEF SteadyRecord
<1>2. set_armed(w, i, armed) = [w EXCEPT ![i] = s]
  BY DEF World, set_armed
<1> HIDE DEF s
<1>3. SameQueue(w, [w EXCEPT ![i] = s])
  BY <1>1 DEF World, SameQueue
<1> QED
  BY <1>1, <1>2, <1>3, OneSteady

LEMMA DisarmedSteady ==
  ASSUME NEW w \in World, NEW i \in Issue
  PROVE  Steady(w, disarmed(w, i)) /\ SameQueue(w, disarmed(w, i))
<1> DEFINE s == [w[i] EXCEPT !.auto_armed = FALSE, !.disarm_due = FALSE]
<1>0. w[i] \in Record
  BY DEF World
<1>1. /\ s \in Record /\ SteadyRecord(w[i], s)
      /\ s.phase = w[i].phase /\ s.ahead = w[i].ahead /\ s.stage = w[i].stage
  <2>1. s \in Record
    BY <1>0 DEF Record
  <2>2. /\ s.phase = w[i].phase /\ s.ahead = w[i].ahead
        /\ s.stage = w[i].stage /\ s.pending = w[i].pending
    BY <1>0 DEF Record
  <2> QED
    BY <2>1, <2>2 DEF SteadyRecord
<1>2. disarmed(w, i) = [w EXCEPT ![i] = s]
  BY DEF World, disarmed
<1> HIDE DEF s
<1>3. SameQueue(w, [w EXCEPT ![i] = s])
  BY <1>1 DEF World, SameQueue
<1> QED
  BY <1>1, <1>2, <1>3, OneSteady

LEMMA DisarmFailedSteady ==
  ASSUME NEW w \in World, NEW i \in Issue
  PROVE  Steady(w, disarm_failed(w, i)) /\ SameQueue(w, disarm_failed(w, i))
<1> DEFINE s == [w[i] EXCEPT !.cooling = TRUE]
<1>0. w[i] \in Record
  BY DEF World
<1>1. /\ s \in Record /\ SteadyRecord(w[i], s)
      /\ s.phase = w[i].phase /\ s.ahead = w[i].ahead /\ s.stage = w[i].stage
  <2>1. s \in Record
    BY <1>0 DEF Record
  <2>2. /\ s.phase = w[i].phase /\ s.ahead = w[i].ahead
        /\ s.stage = w[i].stage /\ s.pending = w[i].pending
    BY <1>0 DEF Record
  <2> QED
    BY <2>1, <2>2 DEF SteadyRecord
<1>2. disarm_failed(w, i) \in {w, [w EXCEPT ![i] = s]}
  BY DEF World, disarm_failed
<1> HIDE DEF s
<1>3. SameQueue(w, [w EXCEPT ![i] = s]) /\ SameQueue(w, w)
  BY <1>1 DEF World, SameQueue
<1>4. Steady(w, [w EXCEPT ![i] = s]) /\ Steady(w, w)
  BY <1>1, OneSteady, SteadyReflexive
<1> QED
  BY <1>2, <1>3, <1>4

\* What was held for the worker goes to it, and the head's turn to the next one.
LEMMA ReleaseHeldSteady ==
  ASSUME NEW w \in World, NEW i \in Issue
  PROVE  LET v == release_held(w, i)
         IN /\ Steady(w, v)
            /\ SameQueue(w, v) \/ HeadsArmed(v, paused)
            /\ HeadsArmed(w, paused) => HeadsArmed(v, paused)
<1> DEFINE taken == [w EXCEPT ![i].held = FALSE]
           left == leave(taken, i, "babysit")
<1>1. /\ Steady(w, taken) /\ SameQueue(w, taken)
      /\ HeadsArmed(w, paused) => HeadsArmed(taken, paused)
  BY HeldSteady
<1>2. Steady(taken, left) /\ HeadsArmed(left, paused)
  BY <1>1, LeaveSteady DEF Steady, Phase
<1>3. release_held(w, i) \in {taken, left}
  BY DEF release_held
<1> HIDE DEF taken, left
<1>4. Steady(w, left)
  BY <1>1, <1>2, SteadyTransitive
<1> QED
  BY <1>1, <1>2, <1>3, <1>4

LEMMA FixSteady ==
  ASSUME NEW w \in World, NEW i \in Issue
  PROVE  Steady(w, fix(w, i)) /\ HeadsArmed(fix(w, i), paused)
<1> DEFINE off == set_armed(w, i, FALSE)
<1>1. Steady(w, off)
  BY SetArmedSteady
<1>2. Steady(off, leave(off, i, "babysit")) /\ HeadsArmed(leave(off, i, "babysit"), paused)
  BY <1>1, LeaveSteady DEF Steady, Phase
<1>3. fix(w, i) = leave(off, i, "babysit")
  BY DEF fix
<1> HIDE DEF off
<1> QED
  BY <1>1, <1>2, <1>3, SteadyTransitive

LEMMA HandoffSteady ==
  ASSUME NEW w \in World, NEW i \in Issue
  PROVE  Steady(w, handoff(w, i)) /\ HeadsArmed(handoff(w, i), paused)
<1> DEFINE off == set_armed(w, i, FALSE)
           left == leave(off, i, "rebasing")
           freed == [left EXCEPT ![i].held = FALSE]
<1>1. Steady(w, off)
  BY SetArmedSteady
<1>2. Steady(off, left) /\ HeadsArmed(left, paused)
  BY <1>1, LeaveSteady DEF Steady, Phase
<1>3. handoff(w, i) = freed
  BY DEF handoff
<1>4. /\ Steady(left, freed)
      /\ HeadsArmed(left, paused) => HeadsArmed(freed, paused)
  BY <1>2, HeldSteady DEF Steady
<1> HIDE DEF off, left, freed
<1>5. Steady(w, left)
  BY <1>1, <1>2, SteadyTransitive
<1>6. Steady(w, freed)
  BY <1>4, <1>5, SteadyTransitive
<1> QED
  BY <1>2, <1>3, <1>4, <1>6

\* Only the stage and the pending action change, and they go forward.
LEMMA StagedOnward ==
  ASSUME NEW w \in World, NEW i \in Issue, NEW stage \in Stage, NEW p,
         LET s == [w[i] EXCEPT !.stage = stage]
         IN OnwardRecord(w[i], s)
  PROVE  LET v == arm_ready([w EXCEPT ![i].stage = stage], p)
         IN Onward(w, v) /\ HeadsArmed(v, p)
<1> DEFINE s == [w[i] EXCEPT !.stage = stage]
           staged == [w EXCEPT ![i] = s]
           v == arm_ready(staged, p)
<1>1. s \in Record /\ OnwardRecord(w[i], s)
  BY DEF World, Record
<1> HIDE DEF s
<1>2. Onward(w, staged)
  BY <1>1, OneOnward
<1>3. Steady(staged, v) /\ HeadsArmed(v, p)
  BY <1>2, ArmReadySteady DEF Onward
<1> HIDE DEF v, staged
<1>4. Onward(staged, v)
  BY <1>3, SteadyOnward
<1>5. Onward(w, v)
  BY <1>2, <1>4, OnwardTransitive
<1> QED
  BY <1>3, <1>5 DEF v, staged, s
LEMMA CloseSteps ==
  ASSUME NEW w \in World, NEW i \in Issue
  PROVE  LET v == close(w, i)
         IN /\ v \in World /\ SameQueue(w, v) /\ v[i].pending = NoPending
            /\ \A j \in Issue : Forward(w[j], v[j]) /\ (Tearing(w[j]) => Tearing(v[j]))
<1> DEFINE s == [w[i] EXCEPT !.pending = NoPending]
           v == [w EXCEPT ![i] = s]
<1>0. w[i] \in Record
  BY DEF World
<1>1. /\ s \in Record /\ s.pending = NoPending
      /\ s.phase = w[i].phase /\ s.ahead = w[i].ahead /\ s.stage = w[i].stage
  BY <1>0, FreshType DEF Record
<1>2. close(w, i) = v
  BY DEF close, World
<1> HIDE DEF s
<1>3. v \in World /\ v[i] = s /\ \A j \in Issue \ {i} : v[j] = w[j]
  BY <1>1 DEF World
<1>4. SameQueue(w, v)
  BY <1>1, <1>3 DEF SameQueue
<1>5. \A j \in Issue : Forward(w[j], v[j]) /\ (Tearing(w[j]) => Tearing(v[j]))
  BY <1>1, <1>3 DEF Forward, Tearing, NoPending, fresh
<1> QED
  BY <1>1, <1>2, <1>3, <1>4, <1>5

\* The outcome of a merge step: the stages go forward, and an issue that leaves the
\* queue leaves its turn to the next.
LEMMA OutcomeSteps ==
  ASSUME NEW w \in World, NEW i \in Issue, NEW out \in Outcome \ {"merged"},
         out = "closed" => w[i].stage \in {"running", "closed"},
         w[i].pending = NoPending
  PROVE  LET v == outcome(w, i, out)
         IN /\ Onward(w, v)
            /\ SameQueue(w, v) \/ HeadsArmed(v, paused)
<1>1. CASE out \in {"armed", "unarmed"}
  <2>1. outcome(w, i, out) = set_armed(w, i, out = "armed")
    BY <1>1 DEF outcome
  <2> QED
    BY <2>1, SetArmedSteady, SteadyOnward
<1>2. CASE out = "disarmed"
  BY <1>2, DisarmedSteady, SteadyOnward DEF outcome
<1>3. CASE out = "error"
  BY <1>3, DisarmFailedSteady, SteadyOnward DEF outcome
<1>4. CASE out \in {"rebase-uncertain", "uncertain"}
  <2> DEFINE hold == IF out = "uncertain" THEN "merge" ELSE "rebase"
  <2>1. /\ outcome(w, i, out) = [w EXCEPT ![i].deferred = hold]
        /\ hold \in {"none", "merge", "rebase"}
    BY <1>4 DEF outcome
  <2> HIDE DEF hold
  <2>2. LET v == [w EXCEPT ![i].deferred = hold]
        IN Steady(w, v) /\ SameQueue(w, v)
    BY <2>1, DeferredSteady
  <2> QED
    BY <2>1, <2>2, SteadyOnward
<1>5. CASE out = "handoff"
  BY <1>5, HandoffSteady, SteadyOnward DEF outcome
<1>6. CASE out = "fix"
  BY <1>6, FixSteady, SteadyOnward DEF outcome
<1>7. CASE out = "closed"
  <2>1. LET s == [w[i] EXCEPT !.stage = "closed"]
        IN OnwardRecord(w[i], s)
    <3> DEFINE s == [w[i] EXCEPT !.stage = "closed"]
    <3>1. w[i] \in Record
      BY DEF World
    <3>2. s.stage = "closed" /\ s.pending = w[i].pending
      BY <3>1 DEF Record
    <3> QED
      BY <1>7, <3>2 DEF OnwardRecord, Forward, Tearing, NoPending, fresh
  <2>2. outcome(w, i, out) = arm_ready([w EXCEPT ![i].stage = "closed"], paused)
    BY <1>7 DEF outcome, closed
  <2> QED
    BY <2>1, <2>2, StagedOnward DEF Stage
<1>8. CASE out \in {"kept", "applied", "failed"}
  <2>1. outcome(w, i, out) = w
    BY <1>8 DEF outcome
  <2> QED
    BY <2>1, SteadyReflexive, SteadyOnward DEF SameQueue
<1> QED
  BY <1>1, <1>2, <1>3, <1>4, <1>5, <1>6, <1>7, <1>8 DEF Outcome, MergeOutcome

\* What the commit of an answer does to the stages, and to the head's turn.
Steps(w, v) ==
  /\ \A j \in Issue : Forward(w[j], v[j]) /\ (Tearing(w[j]) => Tearing(v[j]))
  /\ SameQueue(w, v) \/ HeadsArmed(v, paused)

LEMMA StepsOnward ==
  ASSUME NEW u, NEW w, NEW v, SameQueue(u, w),
         \A j \in Issue : Forward(u[j], w[j]) /\ (Tearing(u[j]) => Tearing(w[j])),
         Onward(w, v), SameQueue(w, v) \/ HeadsArmed(v, paused)
  PROVE  Steps(u, v)
<1>1. \A j \in Issue : Forward(u[j], v[j]) /\ (Tearing(u[j]) => Tearing(v[j]))
  BY DEF Onward, OnwardRecord, Forward
<1>2. SameQueue(u, v) \/ HeadsArmed(v, paused)
  BY SameQueueTransitive
<1> QED
  BY <1>1, <1>2 DEF Steps

LEMMA CommitMergeSteps ==
  ASSUME NEW w \in World, NEW i \in Issue, NEW out \in Outcome,
         w[i].pending.act = "merge", ~w[i].pending.cleanup,
         out = "merged" => w[i].stage = "running",
         out = "closed" => w[i].stage \in {"running", "closed"}
  PROVE  Steps(w, commit_merge(w, i, out))
<1>1. CASE out = "merged"
  <2> DEFINE next == [w[i].pending EXCEPT !.applied = TRUE]
             s == [w[i] EXCEPT !.pending = next, !.stage = "cleaning"]
             v == [w EXCEPT ![i] = s]
             armed == arm_ready(v, paused)
  <2>1. w[i] \in Record
    BY DEF World
  <2>2. next \in Pending /\ next.act = "merge"
    BY <2>1 DEF Record, Pending
  <2>3. s \in Record /\ s.stage = "cleaning" /\ s.pending = next
    BY <2>1, <2>2 DEF Record, Stage
  <2>4. commit_merge(w, i, out) = armed
    BY <1>1, <2>1 DEF commit_merge, World
  <2> HIDE DEF s, next
  <2>5. v \in World /\ v[i] = s /\ \A j \in Issue \ {i} : v[j] = w[j]
    BY <2>3 DEF World
  <2> HIDE DEF v
  <2>6. \A j \in Issue : Forward(w[j], v[j]) /\ (Tearing(w[j]) => Tearing(v[j]))
    BY <1>1, <2>3, <2>5 DEF Forward, Tearing
  <2>7. Onward(v, armed) /\ HeadsArmed(armed, paused)
    BY <2>5, ArmReadySteady, SteadyOnward
  <2> HIDE DEF armed
  <2>8. \A j \in Issue : Forward(w[j], armed[j]) /\ (Tearing(w[j]) => Tearing(armed[j]))
    BY <2>6, <2>7 DEF Onward, OnwardRecord, Forward
  <2> QED
    BY <2>4, <2>7, <2>8 DEF Steps
<1>2. CASE out # "merged"
  <2> DEFINE shut == close(w, i)
             committed == outcome(shut, i, out)
             released == release_held(committed, i)
  <2>1. /\ shut \in World /\ SameQueue(w, shut)
        /\ \A j \in Issue : Forward(w[j], shut[j]) /\ (Tearing(w[j]) => Tearing(shut[j]))
        /\ shut[i].pending = NoPending
    BY CloseSteps
  <2>2. shut[i].stage = w[i].stage
    BY <2>1 DEF SameQueue
  <2>3. commit_merge(w, i, out) = IF out = "rebase-uncertain" THEN committed ELSE released
    BY <1>2 DEF commit_merge
  <2> HIDE DEF shut
  <2>4. Onward(shut, committed) /\ (SameQueue(shut, committed) \/ HeadsArmed(committed, paused))
    BY <1>2, <2>1, <2>2, OutcomeSteps
  <2> HIDE DEF committed
  <2>5. /\ Steady(committed, released)
        /\ SameQueue(committed, released) \/ HeadsArmed(released, paused)
        /\ HeadsArmed(committed, paused) => HeadsArmed(released, paused)
    BY <2>4, ReleaseHeldSteady DEF Onward
  <2> HIDE DEF released
  <2>6. Onward(shut, released) /\ (SameQueue(shut, released) \/ HeadsArmed(released, paused))
    BY <2>4, <2>5, SteadyOnward, OnwardTransitive, SameQueueTransitive
  <2>7. Steps(w, committed) /\ Steps(w, released)
    BY <2>1, <2>4, <2>6, StepsOnward
  <2> QED
    BY <2>3, <2>7
<1> QED
  BY <1>1, <1>2

LEMMA AppliedSteps ==
  ASSUME NEW w \in World, NEW i \in Issue
  PROVE  Steps(w, [w EXCEPT ![i].pending.applied = TRUE])
<1> DEFINE next == [w[i].pending EXCEPT !.applied = TRUE]
           s == [w[i] EXCEPT !.pending = next]
           v == [w EXCEPT ![i] = s]
<1>1. w[i] \in Record
  BY DEF World
<1>2. next.act = w[i].pending.act /\ next.cleanup = w[i].pending.cleanup
  BY <1>1 DEF Record, Pending
<1> HIDE DEF next
<1>3. /\ s.phase = w[i].phase /\ s.ahead = w[i].ahead /\ s.stage = w[i].stage
      /\ s.pending = next
  BY <1>1 DEF Record
<1> HIDE DEF s
<1>4. v[i] = s /\ \A j \in Issue \ {i} : v[j] = w[j]
  BY DEF World
<1> HIDE DEF v
<1>5. SameQueue(w, v)
  BY <1>3, <1>4 DEF SameQueue
<1>6. \A j \in Issue : Forward(w[j], v[j]) /\ (Tearing(w[j]) => Tearing(v[j]))
  BY <1>2, <1>3, <1>4 DEF Forward, Tearing
<1>7. Steps(w, v)
  BY <1>5, <1>6 DEF Steps
<1> QED
  BY <1>7 DEF v, s, next

\* A head is not torn down: only its stage changes, and it is not running.
LEMMA CommitCleanupSteps ==
  ASSUME NEW w \in World, NEW i \in Issue, NEW out,
         w[i].pending.act = "cleanup", Tearing(w[i])
  PROVE  LET v == commit_cleanup(w, i, out)
         IN /\ \A j \in Issue : Forward(w[j], v[j]) /\ (Tearing(w[j]) => Tearing(v[j]))
            /\ ~is_head(w, paused, i)
<1>1. w[i].stage = "cleaning" /\ ~is_head(w, paused, i)
  BY DEF Tearing, is_head, queued
<1>2. CASE out = "applied"
  BY <1>1, <1>2, AppliedSteps DEF commit_cleanup, Steps
<1>3. CASE out # "applied"
  <2> DEFINE s == [w[i] EXCEPT !.pending = NoPending, !.stage = "cleanup-incomplete"]
             v == [w EXCEPT ![i] = s]
  <2>1. w[i] \in Record
    BY DEF World
  <2>2. s.pending = NoPending /\ s.stage = "cleanup-incomplete"
    BY <2>1 DEF Record
  <2>3. commit_cleanup(w, i, out) = v
    BY <1>3, <2>1 DEF commit_cleanup, close, World
  <2> HIDE DEF s
  <2>4. v[i] = s /\ \A j \in Issue \ {i} : v[j] = w[j]
    BY DEF World
  <2> HIDE DEF v
  <2>5. Forward(w[i], v[i]) /\ Tearing(v[i])
    BY <1>1, <2>2, <2>4 DEF Forward, Tearing, NoPending, fresh
  <2>6. \A j \in Issue \ {i} : Forward(w[j], v[j]) /\ (Tearing(w[j]) => Tearing(v[j]))
    BY <2>4 DEF Forward
  <2> QED
    BY <1>1, <2>3, <2>5, <2>6
<1> QED
  BY <1>2, <1>3

LEMMA CommitCheckpointSteps ==
  ASSUME NEW w \in World, NEW i \in Issue, NEW out
  PROVE  Steps(w, commit_checkpoint(w, i, out))
<1>1. Steps(w, close(w, i))
  BY CloseSteps DEF Steps
<1>2. Steps(w, [w EXCEPT ![i].pending.applied = TRUE])
  BY AppliedSteps
<1> QED
  BY <1>1, <1>2 DEF commit_checkpoint

LEMMA FinishActionForward ==
  ASSUME NEW w \in World, NEW i \in Issue, w[i].pending # NoPending,
         w[i].pending.act # "none", Tearing(w[i]),
         w[i].pending.act = "merge" => w[i].stage = "cleaning"
  PROVE  LET v == finish_action(w, i)
         IN /\ \A j \in Issue : Forward(w[j], v[j]) /\ (Tearing(w[j]) => Tearing(v[j]))
            /\ \A j \in Issue \ {i} : v[j] = w[j]
<1>0. w[i] \in Record /\ w[i].pending.act \in Act
  BY DEF World, Record, Pending
<1> DEFINE v == finish_action(w, i)
<1>1. CASE w[i].pending.act = "merge"
  <2> DEFINE s == [w[i] EXCEPT !.stage = "cleaning", !.pending = fresh("cleanup")]
  <2>1. s.stage = "cleaning"
    BY <1>0 DEF Record
  <2>2. v = [w EXCEPT ![i] = s]
    BY <1>0, <1>1 DEF finish_action, World
  <2> HIDE DEF s, v
  <2>3. v[i] = s /\ \A j \in Issue \ {i} : v[j] = w[j]
    BY <2>2 DEF World
  <2> QED
    BY <1>1, <2>1, <2>3 DEF Forward, Tearing, v
<1>2. CASE w[i].pending.act = "cleanup"
  <2> DEFINE s == [w[i] EXCEPT !.stage = "merged", !.pending = NoPending]
  <2>1. s.stage = "merged" /\ s.pending = NoPending
    BY <1>0 DEF Record
  <2>2. v = [w EXCEPT ![i] = s]
    BY <1>0, <1>2 DEF finish_action, World
  <2> HIDE DEF s, v
  <2>3. v[i] = s /\ \A j \in Issue \ {i} : v[j] = w[j]
    BY <2>2 DEF World
  <2> QED
    BY <1>2, <2>1, <2>3 DEF Forward, Tearing, NoPending, fresh, v
<1>3. CASE w[i].pending.act = "checkpoint"
  <2> DEFINE next == IF w[i].pending.cleanup THEN fresh("cleanup") ELSE NoPending
             s == [w[i] EXCEPT !.pending = next]
  <2>1. s.stage = w[i].stage /\ s.pending = next
    BY <1>0 DEF Record
  <2>2. v = [w EXCEPT ![i] = s]
    BY <1>0, <1>3 DEF finish_action, World
  <2> HIDE DEF s, v
  <2>3. v[i] = s /\ \A j \in Issue \ {i} : v[j] = w[j]
    BY <2>2 DEF World
  <2> QED
    BY <1>3, <2>1, <2>3 DEF Forward, Tearing, NoPending, fresh, v
<1> QED
  BY <1>0, <1>1, <1>2, <1>3 DEF Act
-----------------------------------------------------------------------------
(* The inductive invariant. *)

\* A step that may merge works an issue that was its queue's head when the call
\* started: no message has torn it down since.
Headed ==
  /\ running # NoCall /\ running.act = "merge"
  /\ running.head \/ running.verdict \notin {"none", "disarm"} \/ running.outcome = "merged"
  => issue[running.key].stage \in {"running", "closed"}

SInv ==
  /\ IInv
  /\ \A i \in Issue : Tearing(issue[i])
  /\ Headed

LEMMA InitSInv == Init => SInv
<1> SUFFICES ASSUME Init PROVE SInv
  OBVIOUS
<1>1. \A i \in Issue : Tearing(issue[i])
  BY DEF Init, Tearing, NoPending, fresh
<1>2. Headed
  BY DEF Init, Headed
<1> QED
  BY <1>1, <1>2, InitInv DEF SInv

LEMMA MessagesOnward == ASSUME IInv, Messages PROVE Onward(issue, issue')
<1>0. issue \in World /\ Sound(issue, pr, told)
  BY DEF IInv, TypeOK, World
<1>1. ASSUME NEW i \in Issue, NEW phase \in Phase, Report(i, phase)
      PROVE  Onward(issue, issue')
  BY <1>0, <1>1, LocalReadyType, ApplyReportSteady, SteadyOnward DEF Report
<1>2. ASSUME NEW i \in Issue, NEW next \in {"keep-going", "merge-queue", "prompt", "merged"},
             Check(i, next)
      PROVE  Onward(issue, issue')
  <2> DEFINE unread  == pr[i] # "open" /\ ~seen[i]
             changed == CASE unread /\ pr[i] = "merged" -> merged(issue, i)
                          [] unread /\ pr[i] = "closed" -> [issue EXCEPT ![i].stage = "closed"]
                          [] OTHER -> issue
             ticks   == watched(changed, i) /\ ~local(i)
             decided == IF ticks THEN babysit(changed, i, next) ELSE changed
  <2>1. Onward(issue, changed)
    <3>1. CASE unread /\ pr[i] = "merged"
      BY <1>0, <3>1, MergedOnward
    <3>2. CASE unread /\ pr[i] = "closed"
      <4> DEFINE s == [issue[i] EXCEPT !.stage = "closed"]
      <4>1. issue[i] \in Record /\ SoundRecord(issue[i], pr[i], told[i])
        BY <1>0 DEF Sound
      <4>2. s \in Record /\ s.stage = "closed" /\ s.pending = issue[i].pending
        BY <4>1 DEF Record, Stage
      <4>3. issue[i].stage \in {"running", "closed"}
        BY <3>2, <4>1 DEF SoundRecord, Cleaned, Record, Stage
      <4>4. issue[i].pending.act # "cleanup" /\ ~issue[i].pending.cleanup
        BY <3>2, <4>1 DEF SoundRecord
      <4>5. OnwardRecord(issue[i], s)
        BY <4>2, <4>3, <4>4 DEF OnwardRecord, Forward, Tearing
      <4>6. changed = [issue EXCEPT ![i] = s]
        BY <1>0, <3>2 DEF World
      <4> HIDE DEF s
      <4> QED
        BY <1>0, <4>2, <4>5, <4>6, OneOnward
    <3>3. CASE ~(unread /\ pr[i] \in {"merged", "closed"})
      <4>1. changed = issue
        BY <3>3
      <4> QED
        BY <1>0, <4>1, SteadyReflexive, SteadyOnward
    <3> QED
      BY <3>1, <3>2, <3>3
  <2>2. issue' = arm_merge(decided, i)
    BY <1>2 DEF Check
  <2> HIDE DEF changed
  <2>3. Onward(changed, decided)
    BY <2>1, BabysitOnward, SteadyReflexive, SteadyOnward DEF Onward
  <2> HIDE DEF decided
  <2>4. Onward(decided, issue')
    BY <2>2, <2>3, ArmMergeSteady, SteadyOnward DEF Onward
  <2> QED
    BY <2>1, <2>3, <2>4, OnwardTransitive
<1>3. ASSUME NEW i \in Issue, EventMerged(i) PROVE Onward(issue, issue')
  BY <1>0, <1>3, MergedOnward DEF EventMerged
<1>4. ASSUME NEW i \in Issue, BaseMoved(i) PROVE Onward(issue, issue')
  BY <1>0, <1>4, ArmMergeSteady, SteadyOnward DEF BaseMoved
<1>5. ASSUME NEW i \in Issue, RetryDue(i) PROVE Onward(issue, issue')
  <2> DEFINE s == [issue[i] EXCEPT !.cooling = FALSE]
  <2>1. issue[i] \in Record
    BY <1>0 DEF World
  <2>2. s \in Record /\ s.stage = issue[i].stage /\ s.pending = issue[i].pending
    BY <2>1 DEF Record
  <2>3. issue' = [issue EXCEPT ![i] = s]
    BY <1>0, <1>5 DEF RetryDue, World
  <2> HIDE DEF s
  <2> QED
    BY <1>0, <2>2, <2>3, OneSteady, SteadyOnward DEF SteadyRecord
<1>6. ASSUME NEW i \in Issue, ArmCheckpoint(i) PROVE Onward(issue, issue')
  <2> DEFINE s == [issue[i] EXCEPT !.pending = fresh("checkpoint")]
  <2>1. issue[i] \in Record /\ issue[i].pending = NoPending
    BY <1>0, <1>6 DEF World, ArmCheckpoint
  <2>2. s \in Record /\ s.stage = issue[i].stage /\ s.pending = fresh("checkpoint")
    BY <2>1, FreshType DEF Record, Act
  <2>3. issue' = [issue EXCEPT ![i] = s]
    BY <1>0, <1>6 DEF ArmCheckpoint, World
  <2> HIDE DEF s
  <2> QED
    BY <1>0, <2>1, <2>2, <2>3, OneSteady, SteadyOnward DEF SteadyRecord
<1>7. ASSUME NEW e \in Epic, Pause(e) \/ Resume(e) PROVE Onward(issue, issue')
  BY <1>0, <1>7, ArmReadySteady, SteadyReflexive, SteadyOnward DEF Pause, Resume
<1> QED
  BY <1>1, <1>2, <1>3, <1>4, <1>5, <1>6, <1>7 DEF Messages, Checks

\* The call in flight, if it is a merge step, is the pending action of its issue.
LEMMA CallPending ==
  ASSUME IInv, running # NoCall
  PROVE  /\ running.key \in Issue /\ running.act \in Act
         /\ running.outcome \in Outcome \cup {"none"}
         /\ issue[running.key].pending.act = running.act
         /\ ~issue[running.key].pending.applied
BY DEF IInv, TypeOK, Call, AnswerMatchesPending

LEMMA HeadedKept ==
  ASSUME IInv, Headed, Onward(issue, issue'), UNCHANGED running
  PROVE  Headed'
BY CallPending DEF Headed, Onward, OnwardRecord

\* A step of the state thread takes the stages forward.
StageStep ==
  \A i \in Issue : /\ Forward(issue[i], issue'[i])
                   /\ Tearing(issue[i]) => Tearing(issue'[i])

LEMMA PumpSteps == ASSUME SInv, Pump PROVE StageStep /\ Headed'
<1>0. issue \in World
  BY DEF SInv, IInv, TypeOK, World
<1>1. CASE ArmDisarm
  <2>1. ASSUME NEW i \in Issue PROVE issue'[i] \in Record /\ SteadyRecord(issue[i], issue'[i])
    <3>1. issue[i] \in Record /\ fresh("merge") \in Pending
      BY <1>0, FreshType DEF World, Act
    <3>2. CASE disarmable(i)
      <4>1. issue'[i] = [issue[i] EXCEPT !.pending = fresh("merge")]
        BY <1>1, <3>2 DEF ArmDisarm
      <4> QED
        BY <3>1, <3>2, <4>1 DEF disarmable, Record, SteadyRecord
    <3>3. CASE ~disarmable(i)
      BY <1>1, <3>1, <3>3 DEF ArmDisarm, SteadyRecord
    <3> QED
      BY <3>2, <3>3
  <2>2. issue' \in World
    BY <1>1, <2>1 DEF ArmDisarm, World
  <2>3. Onward(issue, issue')
    BY <2>1, <2>2, SteadyOnward DEF Steady
  <2> QED
    BY <1>1, <2>3, HeadedKept DEF SInv, ArmDisarm, StageStep, Onward, OnwardRecord
<1>2. ASSUME NEW i \in Issue, StartCall(i) PROVE StageStep /\ Headed'
  <2>1. StageStep
    BY <1>2 DEF StartCall, StageStep, Forward
  <2>2. running'.verdict = "none" /\ running'.outcome = "none" /\ running'.key = i
    BY <1>2 DEF StartCall
  <2>3. running'.head => issue[i].stage = "running"
    BY <1>2 DEF StartCall, is_head, queued
  <2> QED
    BY <1>2, <2>1, <2>2, <2>3 DEF StartCall, Headed
<1>3. ASSUME NEW i \in Issue, WriteDone(i) PROVE StageStep /\ Headed'
  <2>1. /\ issue[i].pending # NoPending /\ issue[i].pending.applied
        /\ issue' = finish_action(issue, i) /\ running' = running
    BY <1>3 DEF WriteDone, turn, steppable
  <2>2. /\ issue[i].pending.act # "none" /\ Tearing(issue[i])
        /\ issue[i].pending.act = "merge" => issue[i].stage = "cleaning"
    BY <2>1 DEF SInv, IInv, Sound, SoundRecord
  <2>3. StageStep /\ \A j \in Issue \ {i} : issue'[j] = issue[j]
    BY <1>0, <2>1, <2>2, FinishActionForward DEF StageStep
  <2>4. running # NoCall => running.key # i
    BY <2>1, CallPending DEF SInv
  <2> QED
    BY <2>1, <2>3, <2>4, CallPending DEF Headed, SInv
<1> QED
  BY <1>1, <1>2, <1>3 DEF Pump

\* The commit of an answer, too; and if the head's turn ends, the next one's begins.
LEMMA EffectDoneSteps ==
  ASSUME SInv, EffectDone
  PROVE  /\ StageStep
         /\ \/ SameQueue(issue, issue') \/ HeadsArmed(issue', paused)
            \/ ~is_head(issue, paused, running.key)
<1> DEFINE k == running.key
<1>0. /\ issue \in World /\ running # NoCall /\ k \in Issue /\ running.act \in Act
      /\ running.outcome \in Outcome
      /\ issue[k].pending.act = running.act /\ Tearing(issue[k])
      /\ SoundRecord(issue[k], pr[k], told[k]) /\ issue[k] \in Record
  BY CallPending DEF SInv, IInv, TypeOK, World, EffectDone, Sound
<1>1. CASE running.act = "merge"
  <2>1. issue' = commit_merge(issue, k, running.outcome)
    BY <1>1 DEF EffectDone, commit_effect
  <2>2. ~issue[k].pending.cleanup
    BY <1>0, <1>1 DEF SoundRecord
  <2>3. running.outcome \in {"merged", "closed"} => pr[k] = running.outcome
    BY <1>0 DEF SInv, IInv, CallInv
  <2>4. running.outcome = "merged" => issue[k].stage = "running"
    BY <1>0, <1>1, <2>3 DEF SInv, Headed, SoundRecord
  <2>5. running.outcome = "closed" => issue[k].stage \in {"running", "closed"}
    BY <1>0, <2>3 DEF SoundRecord, Cleaned, Record, Stage
  <2> QED
    BY <1>0, <1>1, <2>1, <2>2, <2>4, <2>5, CommitMergeSteps DEF Steps, StageStep
<1>2. CASE running.act = "cleanup"
  <2>1. issue' = commit_cleanup(issue, k, running.outcome)
    BY <1>2 DEF EffectDone, commit_effect
  <2> QED
    BY <1>0, <1>2, <2>1, CommitCleanupSteps DEF StageStep
<1>3. CASE running.act = "checkpoint"
  <2>1. issue' = commit_checkpoint(issue, k, running.outcome)
    BY <1>3 DEF EffectDone, commit_effect
  <2> QED
    BY <1>0, <2>1, CommitCheckpointSteps DEF Steps, StageStep
<1> QED
  BY <1>0, <1>1, <1>2, <1>3 DEF Act

\* An answer that says merged is the answer of a step that may merge.
LEMMA AnswerHeaded ==
  ASSUME SInv, Stepping, NEW out \in Outcome, Answer(out), UNCHANGED issue,
         out = "merged" => running.verdict \notin {"none", "disarm"}
  PROVE  Headed'
<1>1. running \in Call
  BY DEF Stepping, SInv, IInv, TypeOK
<1>2. /\ running'.key = running.key /\ running'.act = running.act
      /\ running'.outcome = out /\ running'.verdict = "none" /\ ~running'.head
  BY <1>1 DEF Answer, Call
<1> QED
  BY <1>2 DEF Headed, SInv, Stepping

LEMMA EffectHeaded == ASSUME SInv, Effect PROVE Headed'
<1>1. CASE Assess
  <2>1. PICK verdict \in Verdict :
          /\ ~running.head => verdict = "disarm"
          /\ running' = [running EXCEPT !.verdict = verdict, !.armed = auto[running.key]]
    BY <1>1 DEF Assess
  <2>2. running \in Call /\ running.verdict = "none" /\ Stepping
    BY <1>1 DEF Assess, Stepping, SInv, IInv, TypeOK
  <2>3. /\ running'.key = running.key /\ running'.act = running.act
        /\ running'.outcome = "none" /\ running'.verdict = verdict
        /\ running'.head = running.head
    BY <2>1, <2>2 DEF Call, Stepping
  <2>4. issue' = issue
    BY <1>1 DEF Assess, EngineUnchanged
  <2> QED
    BY <2>1, <2>2, <2>3, <2>4 DEF Headed, SInv, Stepping
<1>2. CASE AssessFails
  BY <1>2, AnswerHeaded DEF AssessFails, EngineUnchanged, Outcome, MergeOutcome
<1>3. CASE ActDisarm \/ ActFix \/ ActRebase
  <2>1. PICK out \in {"disarmed", "fix", "kept", "handoff", "rebase-uncertain"} : Answer(out)
    BY <1>3 DEF ActDisarm, ActFix, ActRebase, Disarm
  <2>2. Stepping /\ UNCHANGED issue /\ out \in Outcome /\ out # "merged"
    BY <1>3, <2>1 DEF ActDisarm, ActFix, ActRebase, Disarm, Acting, EngineUnchanged, Outcome,
                      MergeOutcome
  <2> QED
    BY <2>1, <2>2, AnswerHeaded
<1>4. CASE DisarmFails
  BY <1>4, AnswerHeaded DEF DisarmFails, Acting, EngineUnchanged, Outcome, MergeOutcome
<1>5. CASE ActSettled
  BY <1>5, AnswerHeaded DEF ActSettled, Acting, EngineUnchanged, Outcome, MergeOutcome
<1>6. CASE ActWaitLocal \/ ActWait
  <2>1. PICK out \in {"unarmed", "fix", "armed", "error"} : Answer(out)
    BY <1>6 DEF ActWaitLocal, ActWait
  <2>2. Stepping /\ UNCHANGED issue /\ out \in Outcome /\ out # "merged"
    BY <1>6, <2>1 DEF ActWaitLocal, ActWait, Acting, EngineUnchanged, Outcome, MergeOutcome
  <2> QED
    BY <2>1, <2>2, AnswerHeaded
<1>7. CASE ActMerge
  <2>1. PICK out \in {"merged", "uncertain", "kept", "error"} : Answer(out)
    BY <1>7 DEF ActMerge
  <2>2. Stepping /\ UNCHANGED issue /\ out \in Outcome /\ running.verdict = "merge"
    BY <1>7, <2>1 DEF ActMerge, Acting, EngineUnchanged, Outcome, MergeOutcome
  <2> QED
    BY <2>1, <2>2, AnswerHeaded
<1>8. CASE ActCleanup \/ ActCheckpoint
  <2>1. running # NoCall /\ running.act # "merge" /\ \E out : Answer(out)
    BY <1>8 DEF ActCleanup, ActCheckpoint
  <2>2. running'.act = running.act
    BY <2>1 DEF Answer, SInv, IInv, TypeOK, Call
  <2> QED
    BY <2>1, <2>2 DEF Headed
<1> QED
  BY <1>1, <1>2, <1>3, <1>4, <1>5, <1>6, <1>7, <1>8 DEF Effect

\* Every step keeps the invariant and takes the stages forward.
LEMMA StepSInv == ASSUME SInv, [Next]_vars PROVE SInv' /\ StageStep
<1>0. IInv'
  BY StepInv DEF SInv
<1>1. CASE Pump
  BY <1>0, <1>1, PumpSteps DEF SInv, StageStep
<1>2. CASE EffectDone
  <2>1. running' = NoCall
    BY <1>2 DEF EffectDone
  <2> QED
    BY <1>0, <1>2, <2>1, EffectDoneSteps DEF SInv, StageStep, Headed
<1>3. CASE Effect
  <2>1. issue' = issue
    BY <1>3 DEF Effect, EngineUnchanged, Assess, AssessFails, ActDisarm, ActFix, ActRebase,
                Disarm, DisarmFails, ActSettled, ActWaitLocal, ActWait, ActMerge, ActCleanup,
                ActCheckpoint
  <2> QED
    BY <1>0, <1>3, <2>1, EffectHeaded DEF SInv, StageStep, Forward
<1>4. CASE Messages
  <2>1. running' = running
    BY <1>4 DEF Messages, Report, Checks, Check, EventMerged, BaseMoved, RetryDue,
                ArmCheckpoint, Pause, Resume
  <2>2. Onward(issue, issue')
    BY <1>4, MessagesOnward DEF SInv
  <2>3. Headed'
    BY <2>1, <2>2, HeadedKept DEF SInv
  <2> QED
    BY <1>0, <2>2, <2>3 DEF SInv, StageStep, Onward, OnwardRecord
<1>5. CASE GitHub \/ UNCHANGED vars
  <2>1. issue' = issue /\ running' = running
    BY <1>5 DEF GitHub, AutoMerge, MergeElsewhere, CloseElsewhere, Settle, vars
  <2> QED
    BY <1>0, <2>1 DEF SInv, StageStep, Forward, Headed
<1> QED
  BY <1>1, <1>2, <1>3, <1>4, <1>5 DEF Next

-----------------------------------------------------------------------------
(* The steps. *)

\* No handler takes a stage back: merged, closed, finish_action and the commit of
\* an answer find the issue in a stage they may leave, however late they come.
THEOREM StagesGoForward == Spec => StageNeverRegresses
<1> DEFINE Onwards ==
      \A i \in Issue :
        LET stage == issue[i].stage
            next  == issue'[i].stage
        IN stage # next =>
             \/ stage = "running"
             \/ stage = "cleaning" /\ next \in {"cleanup-incomplete", "merged"}
<1>1. SInv /\ [Next]_vars => SInv'
  BY StepSInv
<1>2. SInv /\ [Next]_vars => [Onwards]_vars
  <2> SUFFICES ASSUME SInv, [Next]_vars PROVE Onwards
    OBVIOUS
  <2>1. StageStep
    BY StepSInv
  <2> QED
    BY <2>1 DEF StageStep, Forward
<1>3. StageNeverRegresses <=> [][Onwards]_vars
  BY DEF StageNeverRegresses
<1> HIDE DEF Onwards
<1> QED
  BY <1>1, <1>2, <1>3, InitSInv, PTL DEF Spec

\* The commit that takes the head out of its queue (merged, closed, handed to the
\* worker, released to it) arms the next head with arm_ready before it returns.
THEOREM TheNextHeadIsArmed == Spec => NextHeadArmed
<1> DEFINE Armed ==
      \A i, j \in Issue :
        /\ EffectDone /\ running.key = i
        /\ is_head(issue, paused, i) /\ ~is_head(issue', paused, i)
        /\ RepoOf[j] = RepoOf[i] /\ is_head(issue', paused, j)
        => issue'[j].pending # NoPending \/ issue'[j].deferred # "none"
<1>1. SInv /\ [Next]_vars => SInv'
  BY StepSInv
<1>2. SInv /\ [Next]_vars => [Armed]_vars
  <2> SUFFICES ASSUME SInv, NEW i \in Issue, NEW j \in Issue, EffectDone, running.key = i,
                      is_head(issue, paused, i), ~is_head(issue', paused, i),
                      is_head(issue', paused, j)
               PROVE  issue'[j].pending # NoPending \/ issue'[j].deferred # "none"
    OBVIOUS
  <2>1. SameQueue(issue, issue') \/ HeadsArmed(issue', paused)
    BY EffectDoneSteps
  <2>2. HeadsArmed(issue', paused)
    BY <2>1, SameHeads
  <2> QED
    BY <2>2 DEF HeadsArmed
<1>3. NextHeadArmed <=> [][Armed]_vars
  BY DEF NextHeadArmed
<1> HIDE DEF Armed
<1> QED
  BY <1>1, <1>2, <1>3, InitSInv, PTL DEF Spec
=============================================================================
