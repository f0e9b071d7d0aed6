-------------------------- MODULE MergeQueueProofs --------------------------
(***************************************************************************)
(* Proofs about MergeQueue.  `Sound' relates a world to GitHub; every        *)
(* handler preserves it, and leaves a pending action in place (`Kept')       *)
(* unless it is the handler of that action's own answer.                    *)
(***************************************************************************)
EXTENDS MergeQueue, TLAPS

Cleaned == {"cleaning", "cleanup-incomplete", "merged"}

\* What the record r of an issue owes to its PR's state p.  With a, GitHub has
\* auto-merge armed on it and the engine was told.
SoundRecord(r, p, a) ==
  /\ r.pending.act = "none" => r.pending = NoPending
  /\ r.pending.cleanup => r.pending.act = "checkpoint" /\ p = "merged"
  /\ r.pending.act = "merge" /\ r.pending.applied => r.stage = "cleaning"
  /\ r.pending.act = "cleanup" => p = "merged"
  /\ r.stage \in Cleaned => p = "merged"
  /\ r.stage = "closed" => p = "closed"
  /\ a => r.auto_armed
  /\ r.auto_armed /\ r.phase # "ready" => r.disarm_due

Sound(w, P, A) ==
  /\ w \in [Issue -> Record]
  /\ \A i \in Issue : SoundRecord(w[i], P[i], A[i])

KeptRecord(r, s) ==
  r.pending.act # "none" => /\ s.pending.act = r.pending.act
                            /\ s.pending.applied = r.pending.applied

\* The pending actions of w are those of v, with what v arms beside them.
Kept(w, v) == \A i \in Issue : KeptRecord(w[i], v[i])

-----------------------------------------------------------------------------
(* Records. *)

LEMMA FreshType ==
  /\ NoPending \in Pending
  /\ \A act \in Act : fresh(act) \in Pending /\ fresh(act) # NoPending
BY DEF NoPending, Pending, fresh, Act

LEMMA ArmedRecord ==
  ASSUME NEW r \in Record, NEW p, NEW a, SoundRecord(r, p, a), r.pending = NoPending,
         NEW s, s = [r EXCEPT !.pending = fresh("merge")]
  PROVE  s \in Record /\ SoundRecord(s, p, a) /\ KeptRecord(r, s)
<1>1. s.pending = fresh("merge") /\ s \in Record
  BY FreshType DEF Record, Act
<1>2. /\ s.stage = r.stage /\ s.phase = r.phase
      /\ s.auto_armed = r.auto_armed /\ s.disarm_due = r.disarm_due
  BY DEF Record
<1> QED
  BY <1>1, <1>2 DEF SoundRecord, KeptRecord, NoPending, fresh

-----------------------------------------------------------------------------
(* The queue's handlers. *)

\* A world whose records are sound, one by one, is.
LEMMA SoundWorld ==
  ASSUME NEW w, NEW P, NEW A, NEW v, v = [j \in Issue |-> v[j]],
         \A j \in Issue :
           v[j] \in Record /\ SoundRecord(v[j], P[j], A[j]) /\ KeptRecord(w[j], v[j])
  PROVE  Sound(v, P, A) /\ Kept(w, v)
<1>1. v \in [Issue -> Record]
  OBVIOUS
<1> QED
  BY <1>1 DEF Sound, Kept

LEMMA ArmReadySound ==
  ASSUME NEW w, NEW P, NEW A, NEW p, Sound(w, P, A)
  PROVE  Sound(arm_ready(w, p), P, A) /\ Kept(w, arm_ready(w, p))
<1>1. ASSUME NEW j \in Issue
      PROVE  LET s == arm_ready(w, p)[j]
             IN s \in Record /\ SoundRecord(s, P[j], A[j]) /\ KeptRecord(w[j], s)
  <2>1. w[j] \in Record /\ SoundRecord(w[j], P[j], A[j])
    BY DEF Sound
  <2>2. CASE armable(w, p, j)
    <3>1. /\ arm_ready(w, p)[j] = [w[j] EXCEPT !.pending = fresh("merge")]
          /\ w[j].pending = NoPending
      BY <2>2 DEF arm_ready, armable
    <3> QED
      BY <2>1, <3>1, ArmedRecord
  <2>3. CASE ~armable(w, p, j)
    BY <2>1, <2>3 DEF arm_ready, KeptRecord
  <2> QED
    BY <2>2, <2>3
<1>2. arm_ready(w, p) = [j \in Issue |-> arm_ready(w, p)[j]]
  BY DEF arm_ready
<1> QED
  BY <1>1, <1>2, SoundWorld

LEMMA ArmMergeSound ==
  ASSUME NEW w, NEW P, NEW A, NEW i \in Issue, Sound(w, P, A)
  PROVE  Sound(arm_merge(w, i), P, A) /\ Kept(w, arm_merge(w, i))
<1>1. CASE ~armable(w, paused, i)
  BY <1>1 DEF arm_merge, Kept, KeptRecord
<1>2. CASE armable(w, paused, i)
  <2> DEFINE s == [w[i] EXCEPT !.pending = fresh("merge")]
  <2>1. arm_merge(w, i) = [w EXCEPT ![i] = s]
    BY <1>2 DEF arm_merge
  <2>2. s \in Record /\ SoundRecord(s, P[i], A[i]) /\ KeptRecord(w[i], s)
    BY <1>2, ArmedRecord DEF armable, Sound
  <2> QED
    BY <2>1, <2>2 DEF Sound, Kept, KeptRecord
<1> QED
  BY <1>1, <1>2

LEMMA NotePhaseSound ==
  ASSUME NEW w, NEW P, NEW A, NEW i \in Issue, NEW phase \in Phase, Sound(w, P, A)
  PROVE  Sound(note_phase(w, i, phase), P, A) /\ Kept(w, note_phase(w, i, phase))
<1> DEFINE v(j) == note_phase(w, i, phase)[j]
<1>1. ASSUME NEW j \in Issue
      PROVE  v(j) \in Record /\ SoundRecord(v(j), P[j], A[j]) /\ KeptRecord(w[j], v(j))
  <2>1. w[j] \in Record /\ SoundRecord(w[j], P[j], A[j])
    BY DEF Sound
  <2>2. /\ v(j).pending = w[j].pending /\ v(j).stage = w[j].stage
        /\ v(j).auto_armed = w[j].auto_armed
        /\ v(j).phase # "ready" /\ w[j].auto_armed => v(j).disarm_due
    BY <2>1 DEF Sound, note_phase, Record, SoundRecord
  <2>3. v(j) \in Record
    BY <2>1 DEF Sound, note_phase, Record
  <2> QED
    BY <2>1, <2>2, <2>3 DEF SoundRecord, KeptRecord
<1>2. note_phase(w, i, phase) = [j \in Issue |-> v(j)]
  BY DEF note_phase, Sound
<1> QED
  BY <1>1, <1>2, SoundWorld

\* One record changes.
LEMMA OneRecord ==
  ASSUME NEW w, NEW P, NEW A, NEW i \in Issue, Sound(w, P, A),
         NEW s \in Record, SoundRecord(s, P[i], A[i])
  PROVE  Sound([w EXCEPT ![i] = s], P, A)
BY DEF Sound

LEMMA OneKept ==
  ASSUME NEW w, NEW P, NEW A, NEW i \in Issue, Sound(w, P, A),
         NEW s, KeptRecord(w[i], s)
  PROVE  Kept(w, [w EXCEPT ![i] = s])
BY DEF Sound, Kept, KeptRecord

LEMMA KeptReflexive == ASSUME NEW w PROVE Kept(w, w)
BY DEF Kept, KeptRecord

LEMMA KeptTransitive ==
  ASSUME NEW u, NEW v, NEW w, Kept(u, v), Kept(v, w)
  PROVE  Kept(u, w)
BY DEF Kept, KeptRecord

\* deferred and held say nothing of the PR.
LEMMA DeferredSound ==
  ASSUME NEW w, NEW P, NEW A, NEW i \in Issue, Sound(w, P, A),
         NEW hold \in {"none", "merge", "rebase"}
  PROVE  LET v == [w EXCEPT ![i].deferred = hold]
         IN Sound(v, P, A) /\ Kept(w, v)
<1> DEFINE s == [w[i] EXCEPT !.deferred = hold]
<1>1. s \in Record /\ SoundRecord(s, P[i], A[i]) /\ KeptRecord(w[i], s)
  BY DEF Sound, SoundRecord, KeptRecord, Record
<1> QED
  BY <1>1, OneRecord, OneKept

LEMMA HeldSound ==
  ASSUME NEW w, NEW P, NEW A, NEW i \in Issue, Sound(w, P, A), NEW held \in BOOLEAN
  PROVE  LET v == [w EXCEPT ![i].held = held]
         IN Sound(v, P, A) /\ Kept(w, v)
<1> DEFINE s == [w[i] EXCEPT !.held = held]
<1>1. s \in Record /\ SoundRecord(s, P[i], A[i]) /\ KeptRecord(w[i], s)
  BY DEF Sound, SoundRecord, KeptRecord, Record
<1> QED
  BY <1>1, OneRecord, OneKept

LEMMA LeaveSound ==
  ASSUME NEW w, NEW P, NEW A, NEW i \in Issue, NEW phase \in Phase, Sound(w, P, A)
  PROVE  Sound(leave(w, i, phase), P, A) /\ Kept(w, leave(w, i, phase))
<1> DEFINE noted == note_phase(w, i, phase)
           freed == [noted EXCEPT ![i].deferred = "none"]
<1>1. Sound(noted, P, A) /\ Kept(w, noted)
  BY NotePhaseSound
<1>2. Sound(freed, P, A) /\ Kept(noted, freed)
  BY <1>1, DeferredSound
<1>3. Sound(arm_ready(freed, paused), P, A) /\ Kept(freed, arm_ready(freed, paused))
  BY <1>2, ArmReadySound
<1>4. leave(w, i, phase) = arm_ready(freed, paused)
  BY DEF leave
<1> HIDE DEF noted, freed
<1> QED
  BY <1>1, <1>2, <1>3, <1>4, KeptTransitive

LEMMA LocalReadyType == \A i \in Issue, phase \in Phase : local_ready(i, phase) \in Phase
BY DEF local_ready, Phase

LEMMA ApplyReportSound ==
  ASSUME NEW w, NEW P, NEW A, NEW i \in Issue, NEW phase \in Phase, Sound(w, P, A)
  PROVE  Sound(apply_report(w, i, phase), P, A) /\ Kept(w, apply_report(w, i, phase))
<1> DEFINE noted == note_phase(w, i, phase)
           after == IF w[i].phase # phase THEN [noted EXCEPT ![i].deferred = "none"]
                    ELSE noted
<1>1. Sound(noted, P, A) /\ Kept(w, noted)
  BY NotePhaseSound
<1>2. Sound(after, P, A) /\ Kept(noted, after)
  <2>1. LET v == [noted EXCEPT ![i].deferred = "none"]
        IN Sound(v, P, A) /\ Kept(noted, v)
    BY <1>1, DeferredSound
  <2> QED
    BY <1>1, <2>1, KeptReflexive
<1>3. Sound(arm_merge(after, i), P, A) /\ Kept(after, arm_merge(after, i))
  BY <1>2, ArmMergeSound
<1>4. apply_report(w, i, phase) = IF phase = "ready" THEN arm_merge(after, i) ELSE after
  BY DEF apply_report
<1> HIDE DEF noted, after
<1> QED
  BY <1>1, <1>2, <1>3, <1>4, KeptTransitive

LEMMA MergedSound ==
  ASSUME NEW w, NEW P, NEW A, NEW i \in Issue, Sound(w, P, A), P[i] = "merged"
  PROVE  Sound(merged(w, i), P, A) /\ Kept(w, merged(w, i))
<1> DEFINE guard == w[i].stage = "running" /\ w[i].pending.act \in {"none", "checkpoint"}
           next == IF w[i].pending.act = "checkpoint"
                   THEN [w[i].pending EXCEPT !.cleanup = TRUE] ELSE fresh("cleanup")
           s == [w[i] EXCEPT !.stage = "cleaning", !.deferred = "none", !.pending = next]
<1>1. w[i] \in Record /\ SoundRecord(w[i], P[i], A[i])
  BY DEF Sound
<1>2. next \in Pending
  BY <1>1, FreshType DEF Record, Pending, Act
<1>3. s \in Record
  BY <1>1, <1>2 DEF Record, Stage
<1>4. /\ s.stage = "cleaning" /\ s.pending = next
      /\ s.phase = w[i].phase /\ s.auto_armed = w[i].auto_armed
      /\ s.disarm_due = w[i].disarm_due
  BY <1>1 DEF Record
<1>5. CASE guard
  <2>1. SoundRecord(s, P[i], A[i]) /\ KeptRecord(w[i], s)
    BY <1>1, <1>4, <1>5 DEF SoundRecord, KeptRecord, fresh, Record, Pending
  <2>2. merged(w, i) = [w EXCEPT ![i] = s]
    BY <1>1, <1>5 DEF merged, Sound
  <2> HIDE DEF s
  <2>3. Sound([w EXCEPT ![i] = s], P, A)
    BY <1>3, <2>1, OneRecord
  <2>4. Kept(w, [w EXCEPT ![i] = s])
    BY <2>1, OneKept
  <2> QED
    BY <2>2, <2>3, <2>4
<1>6. CASE ~guard
  BY <1>6 DEF merged, Kept, KeptRecord
<1> QED
  BY <1>5, <1>6

LEMMA PromptSound ==
  ASSUME NEW w, NEW P, NEW A, NEW i \in Issue, Sound(w, P, A)
  PROVE  Sound(prompt(w, i), P, A) /\ Kept(w, prompt(w, i))
<1>1. CASE w[i].pending.act = "merge"
  BY <1>1, HeldSound DEF prompt
<1>2. CASE w[i].pending.act # "merge" /\ queued(w, i)
  BY <1>2, LeaveSound DEF prompt, Phase
<1>3. CASE w[i].pending.act # "merge" /\ ~queued(w, i)
  BY <1>3, KeptReflexive DEF prompt
<1> QED
  BY <1>1, <1>2, <1>3

LEMMA BabysitSound ==
  ASSUME NEW w, NEW P, NEW A, NEW i \in Issue, Sound(w, P, A),
         NEW next \in {"keep-going", "merge-queue", "prompt", "merged"},
         next = "merged" => P[i] = "merged"
  PROVE  Sound(babysit(w, i, next), P, A) /\ Kept(w, babysit(w, i, next))
<1>1. CASE next = "merged"
  BY <1>1, MergedSound DEF babysit
<1>2. CASE next = "merge-queue" /\ w[i].phase # "ready"
  BY <1>2, NotePhaseSound DEF babysit, Phase
<1>3. CASE next = "prompt"
  BY <1>3, PromptSound DEF babysit
<1>4. CASE next = "keep-going" \/ (next = "merge-queue" /\ w[i].phase = "ready")
  BY <1>4, KeptReflexive DEF babysit
<1> QED
  BY <1>1, <1>2, <1>3, <1>4

-----------------------------------------------------------------------------
(* The handlers of a merge step's answer. *)

\* The engine was told whether auto-merge is armed on i.
LEMMA SetArmedSound ==
  ASSUME NEW w, NEW P, NEW A, NEW i \in Issue, NEW armed \in BOOLEAN,
         Sound(w, P, A), A[i] => armed
  PROVE  Sound(set_armed(w, i, armed), P, A)
<1> DEFINE s == [w[i] EXCEPT !.auto_armed = armed,
                             !.disarm_due = @ \/ (armed /\ ~queued(w, i))]
<1>1. w[i] \in Record /\ SoundRecord(w[i], P[i], A[i])
  BY DEF Sound
<1>2. s \in Record
  BY <1>1 DEF Record
<1>3. /\ s.stage = w[i].stage /\ s.pending = w[i].pending /\ s.phase = w[i].phase
      /\ s.auto_armed = armed
      /\ s.disarm_due = (w[i].disarm_due \/ (armed /\ ~queued(w, i)))
  BY <1>1 DEF Record
<1>4. SoundRecord(s, P[i], A[i])
  BY <1>1, <1>3 DEF SoundRecord, queued
<1>5. set_armed(w, i, armed) = [w EXCEPT ![i] = s]
  BY DEF set_armed, Sound
<1> HIDE DEF s
<1>6. Sound([w EXCEPT ![i] = s], P, A)
  BY <1>2, <1>4, OneRecord
<1> QED
  BY <1>5, <1>6

LEMMA ReleaseHeldSound ==
  ASSUME NEW w, NEW P, NEW A, NEW i \in Issue, Sound(w, P, A)
  PROVE  Sound(release_held(w, i), P, A)
<1> DEFINE taken == [w EXCEPT ![i].held = FALSE]
<1>1. Sound(taken, P, A)
  BY HeldSound
<1>2. Sound(leave(taken, i, "babysit"), P, A)
  BY <1>1, LeaveSound DEF Phase
<1>3. release_held(w, i) = IF w[i].held /\ queued(w, i) THEN leave(taken, i, "babysit")
                           ELSE taken
  BY DEF release_held
<1> HIDE DEF taken
<1> QED
  BY <1>1, <1>2, <1>3

LEMMA HandoffSound ==
  ASSUME NEW w, NEW P, NEW A, NEW i \in Issue, Sound(w, P, A), ~A[i]
  PROVE  Sound(handoff(w, i), P, A)
<1> DEFINE left == leave(set_armed(w, i, FALSE), i, "rebasing")
<1>1. Sound(left, P, A)
  BY SetArmedSound, LeaveSound DEF Phase
<1>2. Sound([left EXCEPT ![i].held = FALSE], P, A)
  BY <1>1, HeldSound
<1> QED
  BY <1>2 DEF handoff

LEMMA FixSound ==
  ASSUME NEW w, NEW P, NEW A, NEW i \in Issue, Sound(w, P, A), ~A[i]
  PROVE  Sound(fix(w, i), P, A)
BY SetArmedSound, LeaveSound DEF fix, Phase

LEMMA ClosedStageSound ==
  ASSUME NEW w, NEW P, NEW A, NEW i \in Issue, Sound(w, P, A), P[i] = "closed"
  PROVE  LET v == [w EXCEPT ![i].stage = "closed"]
         IN Sound(v, P, A) /\ Kept(w, v)
<1> DEFINE s == [w[i] EXCEPT !.stage = "closed"]
<1>1. w[i] \in Record /\ SoundRecord(w[i], P[i], A[i])
  BY DEF Sound
<1>2. s \in Record
  BY <1>1 DEF Record, Stage
<1>3. /\ s.stage = "closed" /\ s.pending = w[i].pending /\ s.phase = w[i].phase
      /\ s.auto_armed = w[i].auto_armed /\ s.disarm_due = w[i].disarm_due
  BY <1>1 DEF Record
<1>4. SoundRecord(s, P[i], A[i]) /\ KeptRecord(w[i], s)
  BY <1>1, <1>3 DEF SoundRecord, KeptRecord, Cleaned
<1> HIDE DEF s
<1>5. Sound([w EXCEPT ![i] = s], P, A)
  BY <1>2, <1>4, OneRecord
<1>6. Kept(w, [w EXCEPT ![i] = s])
  BY <1>4, OneKept
<1> QED
  BY <1>5, <1>6 DEF s

LEMMA ClosedSound ==
  ASSUME NEW w, NEW P, NEW A, NEW i \in Issue, Sound(w, P, A), P[i] = "closed"
  PROVE  Sound(closed(w, i), P, A)
BY ClosedStageSound, ArmReadySound DEF closed

LEMMA DisarmedSound ==
  ASSUME NEW w, NEW P, NEW A, NEW i \in Issue, Sound(w, P, A), ~A[i]
  PROVE  Sound(disarmed(w, i), P, A)
<1> DEFINE s == [w[i] EXCEPT !.auto_armed = FALSE, !.disarm_due = FALSE]
<1>1. s \in Record /\ SoundRecord(s, P[i], A[i])
  BY DEF Sound, SoundRecord, Record
<1>2. disarmed(w, i) = [w EXCEPT ![i] = s]
  BY DEF disarmed, Sound
<1> HIDE DEF s
<1>3. Sound([w EXCEPT ![i] = s], P, A)
  BY <1>1, OneRecord
<1> QED
  BY <1>2, <1>3

LEMMA DisarmFailedSound ==
  ASSUME NEW w, NEW P, NEW A, NEW i \in Issue, Sound(w, P, A)
  PROVE  Sound(disarm_failed(w, i), P, A)
<1> DEFINE s == [w[i] EXCEPT !.cooling = TRUE]
<1>1. s \in Record /\ SoundRecord(s, P[i], A[i])
  <2>1. w[i] \in Record /\ SoundRecord(w[i], P[i], A[i])
    BY DEF Sound
  <2>2. s \in Record
    BY <2>1 DEF Record
  <2>3. /\ s.stage = w[i].stage /\ s.pending = w[i].pending /\ s.phase = w[i].phase
        /\ s.auto_armed = w[i].auto_armed /\ s.disarm_due = w[i].disarm_due
    BY <2>1 DEF Record
  <2> QED
    BY <2>1, <2>2, <2>3 DEF SoundRecord
<1> HIDE DEF s
<1>2. Sound([w EXCEPT ![i] = s], P, A)
  BY <1>1, OneRecord
<1>3. CASE w[i].disarm_due /\ ~queued(w, i)
  BY <1>2, <1>3 DEF disarm_failed, s
<1>4. CASE ~(w[i].disarm_due /\ ~queued(w, i))
  BY <1>4 DEF disarm_failed
<1> QED
  BY <1>3, <1>4

LEMMA CloseSound ==
  ASSUME NEW w, NEW P, NEW A, NEW i \in Issue, Sound(w, P, A)
  PROVE  Sound(close(w, i), P, A) /\ close(w, i)[i].pending = NoPending
<1> DEFINE s == [w[i] EXCEPT !.pending = NoPending]
<1>1. s \in Record /\ SoundRecord(s, P[i], A[i]) /\ s.pending = NoPending
  BY FreshType DEF Sound, SoundRecord, Record, NoPending, fresh
<1>2. Sound([w EXCEPT ![i] = s], P, A)
  BY <1>1, OneRecord
<1> QED
  BY <1>1, <1>2 DEF close, Sound

\* An answer is bound to its PR: a merge step that says merged or closed is
\* right, and one that says auto-merge is off is, unless an arm's answer was lost.
Answered(p, a, out) ==
  /\ out = "merged" => p = "merged"
  /\ out = "closed" => p = "closed"
  /\ out \in {"unarmed", "disarmed", "fix", "handoff"} => ~a

LEMMA OutcomeSound ==
  ASSUME NEW w, NEW P, NEW A, NEW i \in Issue, NEW out \in Outcome \ {"armed"},
         Sound(w, P, A), Answered(P[i], A[i], out)
  PROVE  Sound(outcome(w, i, out), P, A)
<1>1. CASE out = "unarmed"
  <2>1. Sound(set_armed(w, i, FALSE), P, A)
    BY <1>1, SetArmedSound DEF Answered
  <2> QED
    BY <1>1, <2>1 DEF outcome
<1>2. CASE out = "disarmed"
  <2>1. Sound(disarmed(w, i), P, A)
    BY <1>2, DisarmedSound DEF Answered
  <2> QED
    BY <1>2, <2>1 DEF outcome
<1>3. CASE out = "error"
  BY <1>3, DisarmFailedSound DEF outcome
<1>4. CASE out = "rebase-uncertain"
  BY <1>4, DeferredSound DEF outcome
<1>5. CASE out = "handoff"
  <2>1. Sound(handoff(w, i), P, A)
    BY <1>5, HandoffSound DEF Answered
  <2> QED
    BY <1>5, <2>1 DEF outcome
<1>6. CASE out = "fix"
  <2>1. Sound(fix(w, i), P, A)
    BY <1>6, FixSound DEF Answered
  <2> QED
    BY <1>6, <2>1 DEF outcome
<1>7. CASE out = "closed"
  BY <1>7, ClosedSound DEF outcome, Answered
<1>8. CASE out = "uncertain"
  BY <1>8, DeferredSound DEF outcome
<1>9. CASE out \in {"merged", "kept", "applied", "failed"}
  BY <1>9 DEF outcome
<1> QED
  BY <1>1, <1>2, <1>3, <1>4, <1>5, <1>6, <1>7, <1>8, <1>9 DEF Outcome, MergeOutcome

-----------------------------------------------------------------------------
(* Answers. *)

LEMMA CommitMergeSound ==
  ASSUME NEW w, NEW P, NEW A, NEW i \in Issue, NEW out \in Outcome \ {"armed"},
         Sound(w, P, A), Answered(P[i], A[i], out), w[i].pending.act = "merge"
  PROVE  Sound(commit_merge(w, i, out), P, A)
<1>1. CASE out = "merged"
  <2> DEFINE s == [w[i] EXCEPT !.pending = [w[i].pending EXCEPT !.applied = TRUE],
                               !.stage = "cleaning"]
  <2>1. w[i] \in Record /\ SoundRecord(w[i], P[i], A[i])
    BY DEF Sound
  <2>2. s \in Record
    BY <2>1 DEF Record, Stage, Pending
  <2>3. /\ s.stage = "cleaning" /\ s.pending.act = "merge" /\ s.phase = w[i].phase
        /\ s.pending.cleanup = w[i].pending.cleanup
        /\ s.auto_armed = w[i].auto_armed /\ s.disarm_due = w[i].disarm_due
    BY <2>1 DEF Record, Pending
  <2>4. P[i] = "merged"
    BY <1>1 DEF Answered
  <2>5. SoundRecord(s, P[i], A[i])
    BY <2>1, <2>3, <2>4 DEF SoundRecord, Cleaned
  <2>6. commit_merge(w, i, out) = arm_ready([w EXCEPT ![i] = s], paused)
    BY <1>1, <2>1 DEF commit_merge, Sound
  <2> HIDE DEF s
  <2>7. Sound([w EXCEPT ![i] = s], P, A)
    BY <2>2, <2>5, OneRecord
  <2> QED
    BY <2>6, <2>7, ArmReadySound
<1>2. CASE out # "merged"
  <2> DEFINE committed == outcome(close(w, i), i, out)
  <2>1. Sound(committed, P, A)
    BY CloseSound, OutcomeSound
  <2>2. Sound(release_held(committed, i), P, A)
    BY <2>1, ReleaseHeldSound
  <2>3. commit_merge(w, i, out) = IF out = "rebase-uncertain" THEN committed
                                  ELSE release_held(committed, i)
    BY <1>2 DEF commit_merge
  <2> HIDE DEF committed
  <2> QED
    BY <2>1, <2>2, <2>3
<1> QED
  BY <1>1, <1>2

\* The done line of a cleanup or a checkpoint is due.
LEMMA AppliedSound ==
  ASSUME NEW w, NEW P, NEW A, NEW i \in Issue, Sound(w, P, A),
         w[i].pending.act \in {"cleanup", "checkpoint"}
  PROVE  Sound([w EXCEPT ![i].pending.applied = TRUE], P, A)
<1> DEFINE s == [w[i] EXCEPT !.pending = [w[i].pending EXCEPT !.applied = TRUE]]
<1>1. w[i] \in Record /\ SoundRecord(w[i], P[i], A[i])
  BY DEF Sound
<1>2. s \in Record
  BY <1>1 DEF Record, Pending
<1>3. /\ s.pending.act = w[i].pending.act /\ s.pending.cleanup = w[i].pending.cleanup
      /\ s.stage = w[i].stage /\ s.phase = w[i].phase
      /\ s.auto_armed = w[i].auto_armed /\ s.disarm_due = w[i].disarm_due
  BY <1>1 DEF Record, Pending
<1>4. SoundRecord(s, P[i], A[i])
  BY <1>1, <1>3 DEF SoundRecord
<1>5. Sound([w EXCEPT ![i] = s], P, A)
  <2> HIDE DEF s
  <2> QED
    BY <1>2, <1>4, OneRecord
<1> QED
  BY <1>5

LEMMA CommitCleanupSound ==
  ASSUME NEW w, NEW P, NEW A, NEW i \in Issue, NEW out,
         Sound(w, P, A), w[i].pending.act = "cleanup"
  PROVE  Sound(commit_cleanup(w, i, out), P, A)
<1>1. CASE out = "applied"
  BY <1>1, AppliedSound DEF commit_cleanup
<1>2. CASE out # "applied"
  <2> DEFINE s == [w[i] EXCEPT !.pending = NoPending, !.stage = "cleanup-incomplete"]
  <2>1. w[i] \in Record /\ SoundRecord(w[i], P[i], A[i])
    BY DEF Sound
  <2>2. s \in Record
    BY <2>1, FreshType DEF Record, Stage
  <2>3. /\ s.stage = "cleanup-incomplete" /\ s.pending = NoPending /\ s.phase = w[i].phase
        /\ s.auto_armed = w[i].auto_armed /\ s.disarm_due = w[i].disarm_due
    BY <2>1 DEF Record
  <2>4. P[i] = "merged"
    BY <2>1 DEF SoundRecord
  <2>5. SoundRecord(s, P[i], A[i])
    BY <2>1, <2>3, <2>4 DEF SoundRecord, NoPending, fresh
  <2>6. commit_cleanup(w, i, out) = [w EXCEPT ![i] = s]
    BY <1>2, <2>1 DEF commit_cleanup, close, Sound
  <2> HIDE DEF s
  <2>7. Sound([w EXCEPT ![i] = s], P, A)
    BY <2>2, <2>5, OneRecord
  <2> QED
    BY <2>6, <2>7
<1> QED
  BY <1>1, <1>2

LEMMA CommitCheckpointSound ==
  ASSUME NEW w, NEW P, NEW A, NEW i \in Issue, NEW out,
         Sound(w, P, A), w[i].pending.act = "checkpoint"
  PROVE  Sound(commit_checkpoint(w, i, out), P, A)
BY AppliedSound, CloseSound DEF commit_checkpoint

\* GitHub settles PRs and drops their auto-merge: nothing becomes unsound.
LEMMA SettledSound ==
  ASSUME NEW w, NEW P, NEW A, NEW Q, NEW B, Sound(w, P, A),
         \A j \in Issue : Q[j] = P[j] \/ P[j] = "open",
         \A j \in Issue : B[j] => A[j]
  PROVE  Sound(w, Q, B)
BY DEF Sound, SoundRecord, Cleaned

\* The answer that auto-merge was armed makes the engine know of it.
LEMMA CommitArmedSound ==
  ASSUME NEW w, NEW P, NEW A, NEW B, NEW i \in Issue, Sound(w, P, A),
         \A j \in Issue \ {i} : B[j] => A[j]
  PROVE  Sound(commit_merge(w, i, "armed"), P, B)
<1> DEFINE shut == close(w, i)
           told == set_armed(shut, i, TRUE)
<1>1. Sound(shut, P, A)
  BY CloseSound
<1>2. Sound(told, P, A)
  BY <1>1, SetArmedSound
<1>3. told[i].auto_armed
  BY <1>1 DEF Sound, set_armed, Record
<1> HIDE DEF told
<1>4. Sound(told, P, B)
  BY <1>2, <1>3 DEF Sound, SoundRecord
<1>5. commit_merge(w, i, "armed") = release_held(told, i)
  BY DEF commit_merge, outcome, told
<1> QED
  BY <1>4, <1>5, ReleaseHeldSound

LEMMA FinishActionSound ==
  ASSUME NEW w, NEW P, NEW A, NEW i \in Issue, Sound(w, P, A),
         w[i].pending # NoPending, w[i].pending.applied
  PROVE  /\ Sound(finish_action(w, i), P, A)
         /\ \A j \in Issue \ {i} : finish_action(w, i)[j] = w[j]
<1>0. w[i] \in Record /\ SoundRecord(w[i], P[i], A[i])
  BY DEF Sound
<1>1. CASE w[i].pending.act = "merge"
  <2> DEFINE s == [w[i] EXCEPT !.stage = "cleaning", !.pending = fresh("cleanup")]
  <2>1. s \in Record
    BY <1>0, FreshType DEF Record, Stage, Act
  <2>2. /\ s.stage = "cleaning" /\ s.pending = fresh("cleanup") /\ s.phase = w[i].phase
        /\ s.auto_armed = w[i].auto_armed /\ s.disarm_due = w[i].disarm_due
    BY <1>0 DEF Record
  <2>3. SoundRecord(s, P[i], A[i])
    BY <1>0, <1>1, <2>2 DEF SoundRecord, Cleaned, fresh
  <2>4. finish_action(w, i) = [w EXCEPT ![i] = s]
    BY <1>0, <1>1 DEF finish_action, Sound
  <2> HIDE DEF s
  <2>5. Sound([w EXCEPT ![i] = s], P, A)
    BY <2>1, <2>3, OneRecord
  <2> QED
    BY <2>4, <2>5 DEF Sound
<1>2. CASE w[i].pending.act = "cleanup"
  <2> DEFINE s == [w[i] EXCEPT !.stage = "merged", !.pending = NoPending]
  <2>1. s \in Record
    BY <1>0, FreshType DEF Record, Stage
  <2>2. /\ s.stage = "merged" /\ s.pending = NoPending /\ s.phase = w[i].phase
        /\ s.auto_armed = w[i].auto_armed /\ s.disarm_due = w[i].disarm_due
    BY <1>0 DEF Record
  <2>3. SoundRecord(s, P[i], A[i])
    BY <1>0, <1>2, <2>2 DEF SoundRecord, NoPending, fresh
  <2>4. finish_action(w, i) = [w EXCEPT ![i] = s]
    BY <1>0, <1>2 DEF finish_action, Sound
  <2> HIDE DEF s
  <2>5. Sound([w EXCEPT ![i] = s], P, A)
    BY <2>1, <2>3, OneRecord
  <2> QED
    BY <2>4, <2>5 DEF Sound
<1>3. CASE w[i].pending.act = "checkpoint"
  <2> DEFINE next == IF w[i].pending.cleanup THEN fresh("cleanup") ELSE NoPending
             s == [w[i] EXCEPT !.pending = next]
  <2>1. s \in Record
    BY <1>0, FreshType DEF Record, Act
  <2>2. /\ s.stage = w[i].stage /\ s.pending = next /\ s.phase = w[i].phase
        /\ s.auto_armed = w[i].auto_armed /\ s.disarm_due = w[i].disarm_due
    BY <1>0 DEF Record
  <2>3. SoundRecord(s, P[i], A[i])
    BY <1>0, <1>3, <2>2 DEF SoundRecord, NoPending, fresh
  <2>4. finish_action(w, i) = [w EXCEPT ![i] = s]
    BY <1>0, <1>3 DEF finish_action, Sound
  <2> HIDE DEF s
  <2>5. Sound([w EXCEPT ![i] = s], P, A)
    BY <2>1, <2>3, OneRecord
  <2> QED
    BY <2>4, <2>5 DEF Sound
<1> QED
  BY <1>0, <1>1, <1>2, <1>3 DEF SoundRecord, Record, Pending, Act

-----------------------------------------------------------------------------
(* The inductive invariant. *)

\* GitHub has auto-merge armed and the engine was told.  When an arm's answer can
\* be lost there is no telling.
told == [i \in Issue |-> auto[i] /\ ~arming(i) /\ "lost-arm" \notin Events]

\* Auto-merge ends with its PR, and under a local gate nothing arms it.
GitHubInv ==
  \A i \in Issue : /\ auto[i] => pr[i] = "open"
                   /\ local(i) => ~auto[i]

\* What the effect thread read, or did, still holds of its PR.
CallInv ==
  running # NoCall =>
    LET p == pr[running.key]
        a == auto[running.key]
    IN /\ running.verdict \in {"merged", "closed"} => p = running.verdict
       /\ running.outcome \in {"merged", "closed"} => p = running.outcome
       /\ running.act # "merge" => running.outcome \in {"none", "applied", "failed"}
       /\ running.verdict # "none" /\ ~running.armed => ~a
       /\ running.outcome \in {"fix", "handoff", "rebase-uncertain", "disarmed"} => ~a
       /\ running.outcome = "unarmed" /\ "lost-arm" \notin Events => ~a

IInv ==
  /\ TypeOK
  /\ Sound(issue, pr, told)
  /\ AnswerMatchesPending
  /\ GitHubInv
  /\ CallInv

LEMMA InitInv == Init => IInv
<1> SUFFICES ASSUME Init PROVE IInv
  OBVIOUS
<1>1. TypeOK
  BY FreshType DEF Init, TypeOK, Record, Phase, Stage, NoCall
<1>2. Sound(issue, pr, told)
  BY <1>1 DEF Init, TypeOK, Sound, SoundRecord, told, Cleaned, NoPending, fresh
<1>3. AnswerMatchesPending /\ GitHubInv /\ CallInv
  BY DEF Init, AnswerMatchesPending, GitHubInv, CallInv
<1> QED
  BY <1>1, <1>2, <1>3 DEF IInv

\* A step of the state thread that leaves the call and GitHub alone.
LEMMA WorldStep ==
  ASSUME IInv, UNCHANGED <<running, pr, auto>>,
         paused' \subseteq Epic, seen' \in [Issue -> BOOLEAN],
         Sound(issue', pr, told),
         running # NoCall =>
           KeptRecord(issue[running.key], issue'[running.key])
  PROVE  IInv'
<1>1. TypeOK'
  BY DEF IInv, TypeOK, Sound
<1>2. told' = told
  BY DEF told, arming
<1>3. Sound(issue', pr', told')
  BY <1>2
<1>4. AnswerMatchesPending'
  <2> SUFFICES ASSUME running # NoCall
               PROVE  /\ issue'[running.key].pending.act = running.act
                      /\ ~issue'[running.key].pending.applied
    BY DEF AnswerMatchesPending
  <2>1. running.act # "none"
    BY DEF IInv, TypeOK, Call, Act
  <2> QED
    BY <2>1 DEF IInv, AnswerMatchesPending, KeptRecord
<1>5. GitHubInv' /\ CallInv'
  BY DEF IInv, GitHubInv, CallInv
<1> QED
  BY <1>1, <1>3, <1>4, <1>5 DEF IInv

\* A step of the effect thread: the call moves on, the engine's world does not.
LEMMA EffectStep ==
  ASSUME IInv, UNCHANGED <<issue, paused, seen>>,
         running # NoCall, running' \in Call,
         running'.key = running.key, running'.act = running.act,
         pr' \in [Issue -> {"open", "merged", "closed"}],
         auto' \in [Issue -> BOOLEAN],
         \A j \in Issue : pr'[j] = pr[j] \/ pr[j] = "open",
         \A j \in Issue : told'[j] => told[j],
         GitHubInv', CallInv'
  PROVE  IInv'
<1>1. TypeOK'
  BY DEF IInv, TypeOK
<1>2. Sound(issue', pr', told')
  BY SettledSound DEF IInv
<1>3. AnswerMatchesPending'
  BY DEF IInv, AnswerMatchesPending
<1> QED
  BY <1>1, <1>2, <1>3 DEF IInv

LEMMA SyncedType == ASSUME NEW w, NEW read PROVE Synced(w, read) \in [Issue -> BOOLEAN]
BY DEF Synced, watched

LEMMA MessagesInv == ASSUME IInv, Messages PROVE IInv'
<1> USE DEF IInv
<1>0. Sound(issue, pr, told) /\ TypeOK
  OBVIOUS
<1>k. running # NoCall => running.key \in Issue
  BY DEF TypeOK, Call
<1>1. ASSUME NEW i \in Issue, NEW phase \in Phase, Report(i, phase)
      PROVE  IInv'
  <2>1. Sound(issue', pr, told) /\ Kept(issue, issue')
    BY <1>0, <1>1, ApplyReportSound, LocalReadyType DEF Report
  <2>2. seen' \in [Issue -> BOOLEAN] /\ paused' \subseteq Epic
    BY <1>1, SyncedType DEF Report, TypeOK
  <2> QED
    BY <1>1, <1>k, <2>1, <2>2, WorldStep DEF Report, Kept
<1>2. ASSUME NEW i \in Issue, NEW next \in {"keep-going", "merge-queue", "prompt", "merged"},
             Check(i, next)
      PROVE  IInv'
  <2> DEFINE unread  == pr[i] # "open" /\ ~seen[i]
             changed == CASE unread /\ pr[i] = "merged" -> merged(issue, i)
                          [] unread /\ pr[i] = "closed" -> [issue EXCEPT ![i].stage = "closed"]
                          [] OTHER -> issue
             ticks   == watched(changed, i) /\ ~local(i)
             decided == IF ticks THEN babysit(changed, i, next) ELSE changed
  <2>1. Sound(changed, pr, told) /\ Kept(issue, changed)
    <3>1. CASE unread /\ pr[i] = "merged"
      BY <1>0, <3>1, MergedSound
    <3>2. CASE unread /\ pr[i] = "closed"
      BY <1>0, <3>2, ClosedStageSound
    <3>3. CASE ~(unread /\ pr[i] \in {"merged", "closed"})
      <4>1. changed = issue
        BY <3>3
      <4> QED
        BY <1>0, <4>1, KeptReflexive
    <3> QED
      BY <3>1, <3>2, <3>3
  <2> HIDE DEF changed
  <2>2. Sound(decided, pr, told) /\ Kept(changed, decided)
    <3>1. CASE ticks
      <4>1. next = "merged" => pr[i] = "merged"
        BY <1>2, <3>1 DEF Check, changed
      <4> QED
        BY <2>1, <3>1, <4>1, BabysitSound
    <3>2. CASE ~ticks
      BY <2>1, <3>2, KeptReflexive
    <3> QED
      BY <3>1, <3>2
  <2>3. issue' = arm_merge(decided, i)
    BY <1>2 DEF Check, changed
  <2> HIDE DEF decided
  <2>4. Sound(issue', pr, told) /\ Kept(decided, issue')
    BY <2>2, <2>3, ArmMergeSound
  <2>5. Kept(issue, issue')
    BY <2>1, <2>2, <2>4, KeptTransitive
  <2>6. /\ seen' \in [Issue -> BOOLEAN] /\ paused' \subseteq Epic
        /\ UNCHANGED <<running, pr, auto>>
    BY <1>2, SyncedType DEF Check, TypeOK
  <2> QED
    BY <1>k, <2>4, <2>5, <2>6, WorldStep DEF Kept
<1>3. ASSUME NEW i \in Issue, EventMerged(i)
      PROVE  IInv'
  <2>1. Sound(issue', pr, told) /\ Kept(issue, issue')
    BY <1>0, <1>3, MergedSound DEF EventMerged
  <2> QED
    BY <1>3, <1>k, <2>1, WorldStep DEF EventMerged, Kept, TypeOK
<1>4. ASSUME NEW i \in Issue, BaseMoved(i)
      PROVE  IInv'
  <2>1. Sound(issue', pr, told) /\ Kept(issue, issue')
    BY <1>0, <1>4, ArmMergeSound DEF BaseMoved
  <2> QED
    BY <1>4, <1>k, <2>1, WorldStep DEF BaseMoved, Kept, TypeOK
<1>5. ASSUME NEW i \in Issue, RetryDue(i)
      PROVE  IInv'
  <2> DEFINE s == [issue[i] EXCEPT !.cooling = FALSE]
  <2>1. issue[i] \in Record /\ SoundRecord(issue[i], pr[i], told[i])
    BY <1>0 DEF Sound
  <2>2. s \in Record
    BY <2>1 DEF Record
  <2>3. /\ s.stage = issue[i].stage /\ s.pending = issue[i].pending
        /\ s.phase = issue[i].phase /\ s.auto_armed = issue[i].auto_armed
        /\ s.disarm_due = issue[i].disarm_due
    BY <2>1 DEF Record
  <2>4. SoundRecord(s, pr[i], told[i]) /\ KeptRecord(issue[i], s)
    BY <2>1, <2>3 DEF SoundRecord, KeptRecord
  <2>5. issue' = [issue EXCEPT ![i] = s]
    BY <1>5 DEF RetryDue
  <2> HIDE DEF s
  <2>6. Sound([issue EXCEPT ![i] = s], pr, told)
    BY <1>0, <2>2, <2>4, OneRecord
  <2>7. Kept(issue, [issue EXCEPT ![i] = s])
    BY <1>0, <2>4, OneKept
  <2> QED
    BY <1>5, <1>k, <2>5, <2>6, <2>7, WorldStep DEF RetryDue, Kept, TypeOK
<1>6. ASSUME NEW i \in Issue, ArmCheckpoint(i)
      PROVE  IInv'
  <2> DEFINE s == [issue[i] EXCEPT !.pending = fresh("checkpoint")]
  <2>1. /\ issue[i] \in Record /\ SoundRecord(issue[i], pr[i], told[i])
        /\ issue[i].pending = NoPending
    BY <1>0, <1>6 DEF Sound, ArmCheckpoint
  <2>2. s \in Record
    BY <2>1, FreshType DEF Record, Act
  <2>3. /\ s.stage = issue[i].stage /\ s.pending = fresh("checkpoint")
        /\ s.phase = issue[i].phase /\ s.auto_armed = issue[i].auto_armed
        /\ s.disarm_due = issue[i].disarm_due
    BY <2>1 DEF Record
  <2>4. SoundRecord(s, pr[i], told[i]) /\ KeptRecord(issue[i], s)
    BY <2>1, <2>3 DEF SoundRecord, KeptRecord, fresh, NoPending
  <2>5. issue' = [issue EXCEPT ![i] = s]
    BY <1>6 DEF ArmCheckpoint
  <2> HIDE DEF s
  <2>6. Sound([issue EXCEPT ![i] = s], pr, told)
    BY <1>0, <2>2, <2>4, OneRecord
  <2>7. Kept(issue, [issue EXCEPT ![i] = s])
    BY <1>0, <2>4, OneKept
  <2> QED
    BY <1>6, <1>k, <2>5, <2>6, <2>7, WorldStep DEF ArmCheckpoint, Kept, TypeOK
<1>7. ASSUME NEW e \in Epic, Pause(e)
      PROVE  IInv'
  <2>1. Sound(issue', pr, told) /\ Kept(issue, issue')
    BY <1>0, <1>7, KeptReflexive DEF Pause
  <2> QED
    BY <1>7, <1>k, <2>1, WorldStep DEF Pause, Kept, TypeOK
<1>8. ASSUME NEW e \in Epic, Resume(e)
      PROVE  IInv'
  <2>1. Sound(issue', pr, told) /\ Kept(issue, issue')
    BY <1>0, <1>8, ArmReadySound DEF Resume
  <2> QED
    BY <1>8, <1>k, <2>1, WorldStep DEF Resume, Kept, TypeOK
<1> QED
  BY <1>1, <1>2, <1>3, <1>4, <1>5, <1>6, <1>7, <1>8 DEF Messages, Checks

LEMMA GitHubStepInv == ASSUME IInv, GitHub PROVE IInv'
<1> USE DEF IInv
<1>1. PICK i \in Issue, state \in {"merged", "closed"} : Settle(i, state)
  BY DEF GitHub, AutoMerge, MergeElsewhere, CloseElsewhere
<1>2. TypeOK'
  BY <1>1 DEF Settle, TypeOK
<1>3. \A j \in Issue : (pr'[j] = pr[j] \/ pr[j] = "open") /\ (told'[j] => told[j])
  BY <1>1 DEF Settle, TypeOK, told, arming
<1>4. Sound(issue', pr', told')
  BY <1>1, <1>3, SettledSound DEF Settle
<1>5. AnswerMatchesPending'
  BY <1>1 DEF AnswerMatchesPending, Settle
<1>6. GitHubInv'
  BY <1>1 DEF Settle, TypeOK, GitHubInv
<1>7. CallInv'
  BY <1>1 DEF Settle, TypeOK, CallInv, Call
<1> QED
  BY <1>2, <1>4, <1>5, <1>6, <1>7

LEMMA PumpInv == ASSUME IInv, Pump PROVE IInv'
<1> USE DEF IInv
<1>0. Sound(issue, pr, told) /\ TypeOK
  OBVIOUS
<1>1. ASSUME ArmDisarm
      PROVE  IInv'
  <2>1. ASSUME NEW j \in Issue
        PROVE  LET s == issue'[j]
               IN s \in Record /\ SoundRecord(s, pr[j], told[j]) /\ KeptRecord(issue[j], s)
    <3>1. issue[j] \in Record /\ SoundRecord(issue[j], pr[j], told[j])
      BY <1>0 DEF Sound
    <3>2. CASE disarmable(j)
      <4>1. /\ issue'[j] = [issue[j] EXCEPT !.pending = fresh("merge")]
            /\ issue[j].pending = NoPending
        BY <1>1, <3>2 DEF ArmDisarm, disarmable
      <4> QED
        BY <3>1, <4>1, ArmedRecord
    <3>3. CASE ~disarmable(j)
      BY <1>1, <3>1, <3>3 DEF ArmDisarm, KeptRecord
    <3> QED
      BY <3>2, <3>3
  <2>2. issue' = [j \in Issue |-> issue'[j]]
    BY <1>1 DEF ArmDisarm
  <2>3. Sound(issue', pr, told) /\ Kept(issue, issue')
    BY <2>1, <2>2, SoundWorld
  <2>4. running # NoCall => running.key \in Issue
    BY DEF TypeOK, Call
  <2> QED
    BY <1>1, <2>3, <2>4, WorldStep DEF ArmDisarm, Kept, TypeOK
<1>2. ASSUME NEW i \in Issue, StartCall(i)
      PROVE  IInv'
  <2>1. issue[i] \in Record /\ SoundRecord(issue[i], pr[i], told[i])
    BY <1>0 DEF Sound
  <2>2. issue[i].pending.act \in Act /\ ~issue[i].pending.applied /\ running = NoCall
    BY <1>2, <2>1 DEF StartCall, turn, steppable, SoundRecord, Record, Pending
  <2>3. /\ running' \in Call /\ running'.key = i /\ running'.act = issue[i].pending.act
        /\ running'.verdict = "none" /\ running'.outcome = "none"
    BY <1>2, <2>2 DEF StartCall, Call, is_head, queued
  <2>4. TypeOK' /\ AnswerMatchesPending'
    BY <1>2, <2>2, <2>3 DEF StartCall, TypeOK, AnswerMatchesPending
  <2>5. \A j \in Issue : told'[j] => told[j]
    BY <1>2, <2>2 DEF StartCall, told, arming
  <2>6. Sound(issue', pr', told')
    BY <1>0, <1>2, <2>5, SettledSound DEF StartCall
  <2>7. GitHubInv' /\ CallInv'
    BY <1>2, <2>3 DEF StartCall, GitHubInv, CallInv
  <2> QED
    BY <2>4, <2>6, <2>7
<1>3. ASSUME NEW i \in Issue, WriteDone(i)
      PROVE  IInv'
  <2>1. /\ Sound(issue', pr, told)
        /\ \A j \in Issue \ {i} : issue'[j] = issue[j]
    BY <1>0, <1>3, FinishActionSound DEF WriteDone, turn, steppable
  <2>2. running # NoCall => running.key \in Issue \ {i}
    BY <1>3 DEF TypeOK, Call, AnswerMatchesPending, WriteDone
  <2> QED
    BY <1>3, <2>1, <2>2, WorldStep DEF WriteDone, KeptRecord, TypeOK
<1> QED
  BY <1>1, <1>2, <1>3 DEF Pump

LEMMA EffectDoneInv == ASSUME IInv, EffectDone PROVE IInv'
<1> USE DEF IInv
<1> DEFINE k == running.key
<1>0. /\ Sound(issue, pr, told) /\ TypeOK
      /\ running \in Call /\ k \in Issue /\ running.outcome \in Outcome
      /\ issue[k].pending.act = running.act /\ running' = NoCall
  BY DEF EffectDone, TypeOK, Call, AnswerMatchesPending
<1>1. \A j \in Issue \ {k} : told'[j] => told[j]
  BY DEF EffectDone, told, arming
<1>2. CASE running.outcome = "armed"
  <2>1. running.act = "merge"
    BY <1>0, <1>2 DEF CallInv, EffectDone
  <2>2. issue' = commit_merge(issue, k, "armed")
    BY <1>2, <2>1 DEF EffectDone, commit_effect
  <2> QED
    BY <1>0, <1>1, <2>2, CommitArmedSound
    DEF EffectDone, TypeOK, AnswerMatchesPending, GitHubInv, CallInv, Sound
<1>3. CASE running.outcome # "armed"
  <2>1. \A j \in Issue : told'[j] => told[j]
    BY <1>0, <1>3 DEF EffectDone, told, arming
  <2>2. Answered(pr[k], told[k], running.outcome)
    BY <1>0 DEF Answered, CallInv, told, EffectDone
  <2>3. Sound(issue', pr, told)
    <3>1. CASE running.act = "merge"
      <4>1. issue' = commit_merge(issue, k, running.outcome)
        BY <3>1 DEF EffectDone, commit_effect
      <4> QED
        BY <1>0, <1>3, <2>2, <3>1, <4>1, CommitMergeSound
    <3>2. CASE running.act = "cleanup"
      <4>1. issue' = commit_cleanup(issue, k, running.outcome)
        BY <3>2 DEF EffectDone, commit_effect
      <4> QED
        BY <1>0, <3>2, <4>1, CommitCleanupSound
    <3>3. CASE running.act = "checkpoint"
      <4>1. issue' = commit_checkpoint(issue, k, running.outcome)
        BY <3>3 DEF EffectDone, commit_effect
      <4> QED
        BY <1>0, <3>3, <4>1, CommitCheckpointSound
    <3> QED
      BY <1>0, <3>1, <3>2, <3>3 DEF Call, Act
  <2>4. Sound(issue', pr', told')
    BY <2>1, <2>3, SettledSound DEF EffectDone
  <2> QED
    BY <1>0, <2>4
    DEF EffectDone, TypeOK, AnswerMatchesPending, GitHubInv, CallInv, Sound
<1> QED
  BY <1>2, <1>3

LEMMA AnswerCall ==
  ASSUME running \in Call, NEW out \in Outcome, Answer(out)
  PROVE  /\ running' \in Call /\ running' # NoCall
         /\ running'.key = running.key /\ running'.act = running.act
         /\ running'.outcome = out /\ running'.verdict = "none" /\ ~running'.armed
BY DEF Answer, Call, NoCall, Act

\* An answer given without touching GitHub.
LEMMA AnswerStep ==
  ASSUME IInv, running \in Call, running # NoCall, running.outcome = "none",
         NEW out \in Outcome, Answer(out), GitHubUnchanged, EngineUnchanged,
         out \in {"merged", "closed"} => pr[running.key] = out,
         running.act # "merge" => out \in {"applied", "failed"},
         out \in {"fix", "handoff", "rebase-uncertain", "disarmed", "unarmed"}
           => ~auto[running.key]
  PROVE  IInv'
<1> USE DEF IInv
<1>1. /\ running' \in Call /\ running' # NoCall
      /\ running'.key = running.key /\ running'.act = running.act
      /\ running'.outcome = out /\ running'.verdict = "none" /\ ~running'.armed
  BY AnswerCall
<1>2. \A j \in Issue : told'[j] => told[j]
  BY <1>1 DEF told, arming, GitHubUnchanged
<1>3. GitHubInv' /\ CallInv'
  BY <1>1 DEF GitHubInv, CallInv, GitHubUnchanged
<1> QED
  BY <1>1, <1>2, <1>3, EffectStep DEF GitHubUnchanged, EngineUnchanged, TypeOK

\* An answer given after auto-merge was disarmed, or found disarmed.
LEMMA DisarmStep ==
  ASSUME IInv, running \in Call, Stepping, running.verdict # "none",
         NEW outs \in SUBSET {"disarmed", "fix", "kept", "handoff", "rebase-uncertain"},
         Disarm(outs)
  PROVE  IInv'
<1> USE DEF IInv
<1>1. PICK out \in outs : Answer(out)
  BY DEF Disarm
<1>2. out \in Outcome
  BY DEF Outcome, MergeOutcome
<1>3. /\ running' \in Call /\ running' # NoCall
      /\ running'.key = running.key /\ running'.act = running.act
      /\ running'.outcome = out /\ running'.verdict = "none" /\ ~running'.armed
  BY <1>1, <1>2, AnswerCall
<1>4. /\ auto' \in [Issue -> BOOLEAN]
      /\ ~auto'[running.key]
      /\ \A j \in Issue : auto'[j] => auto[j]
  BY DEF Disarm, TypeOK, CallInv, Call, Stepping
<1>5. \A j \in Issue : told'[j] => told[j]
  BY <1>3, <1>4 DEF told, arming, Stepping
<1>6. GitHubInv' /\ CallInv'
  BY <1>3, <1>4 DEF GitHubInv, CallInv, Disarm, Stepping
<1> QED
  BY <1>3, <1>4, <1>5, <1>6, EffectStep DEF Disarm, EngineUnchanged, TypeOK, Stepping

LEMMA EffectInv == ASSUME IInv, Effect PROVE IInv'
<1> USE DEF IInv
<1> DEFINE k == running.key
<1>0. TypeOK /\ running \in Call /\ running # NoCall /\ k \in Issue
      /\ running.outcome = "none"
  BY DEF TypeOK, Call, Effect, Assess, AssessFails, ActDisarm, ActFix, ActRebase,
         DisarmFails, ActSettled, ActWaitLocal, ActWait, ActMerge, ActCleanup,
         ActCheckpoint, Acting, Stepping
<1>1. CASE Assess
  <2>1. PICK verdict \in Verdict :
          /\ verdict \in {"merged", "closed"} => pr[k] = verdict
          /\ running' = [running EXCEPT !.verdict = verdict, !.armed = auto[k]]
    BY <1>0, <1>1 DEF Assess, Verdict, TypeOK
  <2>2. /\ running' \in Call /\ running' # NoCall
        /\ running'.key = k /\ running'.act = "merge" /\ running'.outcome = "none"
        /\ running'.verdict = verdict /\ running'.armed = auto[k]
    BY <1>0, <1>1, <2>1 DEF Assess, Stepping, Call, TypeOK, NoCall, Act
  <2>3. \A j \in Issue : told'[j] => told[j]
    BY <1>0, <1>1, <2>2 DEF Assess, told, arming, GitHubUnchanged
  <2>4. GitHubInv' /\ CallInv'
    BY <1>0, <1>1, <2>1, <2>2 DEF Assess, GitHubUnchanged, GitHubInv, CallInv
  <2> QED
    BY <1>0, <1>1, <2>2, <2>3, <2>4, EffectStep
    DEF Assess, Stepping, GitHubUnchanged, EngineUnchanged, TypeOK
<1>2. CASE AssessFails
  BY <1>0, <1>2, AnswerStep DEF AssessFails, Stepping, Outcome, MergeOutcome
<1>3. CASE ActDisarm
  BY <1>0, <1>3, DisarmStep DEF ActDisarm, Acting
<1>4. CASE ActFix
  BY <1>0, <1>4, DisarmStep DEF ActFix, Acting
<1>5. CASE ActRebase
  BY <1>0, <1>5, DisarmStep DEF ActRebase, Acting
<1>6. CASE DisarmFails
  <2>1. /\ running' \in Call /\ running' # NoCall
        /\ running'.key = k /\ running'.act = running.act
        /\ running'.outcome = "error" /\ running'.verdict = "none" /\ ~running'.armed
        /\ running.act = "merge"
    BY <1>0, <1>6, AnswerCall DEF DisarmFails, Outcome, MergeOutcome, Acting, Stepping
  <2>2. auto' \in [Issue -> BOOLEAN] /\ \A j \in Issue : auto'[j] => auto[j]
    BY <1>0, <1>6 DEF DisarmFails, TypeOK
  <2>3. \A j \in Issue : told'[j] => told[j]
    BY <1>0, <2>1, <2>2 DEF told, arming
  <2>4. GitHubInv' /\ CallInv'
    BY <1>6, <2>1, <2>2 DEF GitHubInv, CallInv, DisarmFails
  <2> QED
    BY <1>0, <1>6, <2>1, <2>2, <2>3, <2>4, EffectStep
    DEF DisarmFails, EngineUnchanged, TypeOK
<1>7. CASE ActSettled
  <2>1. running.verdict \in Outcome /\ pr[k] = running.verdict /\ running.act = "merge"
        /\ running.verdict \in {"merged", "closed"}
    BY <1>0, <1>7 DEF ActSettled, Acting, Stepping, CallInv, Outcome, MergeOutcome
  <2> QED
    BY <1>0, <1>7, <2>1, AnswerStep DEF ActSettled
<1>8. CASE ActWaitLocal
  <2>1. PICK out \in {"unarmed", "fix"} : Answer(out)
    BY <1>8 DEF ActWaitLocal
  <2>2. ~auto[k]
    BY <1>0, <1>8 DEF ActWaitLocal, GitHubInv
  <2> QED
    BY <1>0, <1>8, <2>1, <2>2, AnswerStep
    DEF ActWaitLocal, Acting, Stepping, Outcome, MergeOutcome
<1>9. CASE ActWait
  <2>0. running.act = "merge" /\ running.verdict = "wait" /\ ~local(k)
        /\ UNCHANGED <<pr, issue, paused, seen>>
    BY <1>9 DEF ActWait, Acting, Stepping, EngineUnchanged
  <2>1. CASE running.armed /\ Answer("armed") /\ UNCHANGED auto
    BY <1>0, <2>0, <2>1, AnswerStep
    DEF Outcome, MergeOutcome, GitHubUnchanged, EngineUnchanged
  <2>2. CASE ~running.armed /\ (Answer("unarmed") \/ Answer("error")) /\ UNCHANGED auto
    <3>1. ~auto[k]
      BY <2>0, <2>2, <1>0 DEF CallInv
    <3> QED
      BY <1>0, <2>0, <2>2, <3>1, AnswerStep
      DEF Outcome, MergeOutcome, GitHubUnchanged, EngineUnchanged
  <2>3. CASE /\ ~running.armed /\ pr[k] = "open"
             /\ auto' = [auto EXCEPT ![k] = TRUE]
             /\ Answer("armed") \/ ("lost-arm" \in Events /\ Answer("unarmed"))
    <3>1. PICK out \in {"armed", "unarmed"} :
            Answer(out) /\ (out = "unarmed" => "lost-arm" \in Events)
      BY <2>3
    <3>2. /\ running' \in Call /\ running' # NoCall
          /\ running'.key = k /\ running'.act = running.act
          /\ running'.outcome = out /\ running'.verdict = "none" /\ ~running'.armed
      BY <1>0, <3>1, AnswerCall DEF Outcome, MergeOutcome
    <3>3. auto' \in [Issue -> BOOLEAN] /\ \A j \in Issue \ {k} : auto'[j] = auto[j]
      BY <1>0, <2>3 DEF TypeOK
    <3>4. \A j \in Issue : told'[j] => told[j]
      BY <1>0, <3>1, <3>2, <3>3 DEF told, arming
    <3>5. GitHubInv' /\ CallInv'
      BY <2>0, <2>3, <3>1, <3>2, <3>3 DEF GitHubInv, CallInv, local
    <3> QED
      BY <1>0, <2>0, <3>2, <3>3, <3>4, <3>5, EffectStep DEF TypeOK
  <2> QED
    BY <1>9, <2>1, <2>2, <2>3 DEF ActWait
<1>10. CASE ActMerge
  <2>0. running.act = "merge" /\ EngineUnchanged
    BY <1>10 DEF ActMerge, Acting, Stepping
  <2>1. CASE /\ pr[k] = "open" /\ pr' = [pr EXCEPT ![k] = "merged"]
             /\ auto' = [auto EXCEPT ![k] = FALSE]
             /\ \E out \in {"merged", "uncertain"} : Answer(out)
    <3>1. PICK out \in {"merged", "uncertain"} : Answer(out)
      BY <2>1
    <3>2. /\ running' \in Call /\ running' # NoCall
          /\ running'.key = k /\ running'.act = running.act
          /\ running'.outcome = out /\ running'.verdict = "none" /\ ~running'.armed
      BY <1>0, <3>1, AnswerCall DEF Outcome, MergeOutcome
    <3>3. /\ pr' \in [Issue -> {"open", "merged", "closed"}] /\ pr'[k] = "merged"
          /\ \A j \in Issue : pr'[j] = pr[j] \/ pr[j] = "open"
          /\ \A j \in Issue \ {k} : pr'[j] = pr[j]
          /\ auto' \in [Issue -> BOOLEAN] /\ ~auto'[k]
          /\ \A j \in Issue : auto'[j] => auto[j]
      BY <1>0, <2>1 DEF TypeOK
    <3>4. \A j \in Issue : told'[j] => told[j]
      BY <1>0, <3>2, <3>3 DEF told, arming
    <3>5. GitHubInv' /\ CallInv'
      BY <2>0, <3>1, <3>2, <3>3 DEF GitHubInv, CallInv
    <3> QED
      BY <1>0, <2>0, <3>2, <3>3, <3>4, <3>5, EffectStep DEF EngineUnchanged
  <2>2. CASE GitHubUnchanged /\ \E out \in {"kept", "uncertain", "error"} : Answer(out)
    BY <1>0, <2>0, <2>2, AnswerStep DEF Outcome, MergeOutcome
  <2> QED
    BY <1>10, <2>1, <2>2 DEF ActMerge
<1>11. CASE ActCleanup
  BY <1>0, <1>11, AnswerStep DEF ActCleanup, Outcome
<1>12. CASE ActCheckpoint
  BY <1>0, <1>12, AnswerStep DEF ActCheckpoint, Outcome
<1> QED
  BY <1>1, <1>2, <1>3, <1>4, <1>5, <1>6, <1>7, <1>8, <1>9, <1>10, <1>11, <1>12 DEF Effect

-----------------------------------------------------------------------------
(* The theorems. *)

LEMMA StepInv == IInv /\ [Next]_vars => IInv'
<1> SUFFICES ASSUME IInv, [Next]_vars PROVE IInv'
  OBVIOUS
<1>1. CASE Next
  BY <1>1, PumpInv, EffectDoneInv, EffectInv, MessagesInv, GitHubStepInv DEF Next
<1>2. CASE UNCHANGED vars
  BY <1>2 DEF vars, IInv, TypeOK, Sound, told, arming, AnswerMatchesPending, GitHubInv,
              CallInv
<1> QED
  BY <1>1, <1>2

\* The inductive invariant holds of every behaviour, whatever the epics, their
\* queues and the optional events are.
THEOREM Inductive == Spec => []IInv
<1> QED
  BY InitInv, StepInv, PTL DEF Spec

\* The engine's world, the call in flight and GitHub keep their types: no handler
\* writes a phase, a stage or a pending action the others do not expect.
THEOREM TypeCorrect == Spec => []TypeOK
<1>1. IInv => TypeOK
  BY DEF IInv
<1> QED
  BY <1>1, Inductive, PTL

\* merged, closed and finish_action tear down an issue only once its PR merged, and
\* close one only if its PR was closed, in whatever order the messages come.
THEOREM NothingUnmergedIsCleaned == Spec => []CleanedOnlyMerged
<1>1. IInv => CleanedOnlyMerged
  BY DEF IInv, CleanedOnlyMerged, Sound, SoundRecord, Cleaned
<1> QED
  BY <1>1, Inductive, PTL

\* effect_done always finds the action the effect was started for: no report,
\* check, event, pause or checkpoint handled meanwhile replaced it.
THEOREM AnswersMatch == Spec => []AnswerMatchesPending
<1>1. IInv => AnswerMatchesPending
  BY DEF IInv
<1> QED
  BY <1>1, Inductive, PTL

\* An auto-merge armed on a PR that is not queued any more is due a disarm, or its
\* answer is not committed yet, provided GitHub's answer to an arm is never lost.
THEOREM ArmedIsDisarmedLater ==
  ASSUME "lost-arm" \notin Events
  PROVE  Spec => []ArmedOffQueueIsDue
<1>1. IInv => ArmedOffQueueIsDue
  <2> SUFFICES ASSUME IInv, NEW i \in Issue, auto[i], ~queued(issue, i), ~arming(i)
               PROVE  issue[i].disarm_due
    BY DEF ArmedOffQueueIsDue
  <2>1. told[i] /\ pr[i] = "open"
    BY DEF told, IInv, GitHubInv
  <2>2. issue[i].auto_armed /\ issue[i].stage = "running"
    BY <2>1 DEF IInv, TypeOK, Record, Stage, Sound, SoundRecord, Cleaned
  <2> QED
    BY <2>2 DEF IInv, Sound, SoundRecord, queued
<1> QED
  BY <1>1, Inductive, PTL

\* When a step decides on a fix, a hand-off or a rebase, auto-merge is off before
\* anything is pushed, even if the answer to an earlier arm was lost.
THEOREM PushesUnarmed == Spec => []PushesAreUnarmed
<1>1. IInv => PushesAreUnarmed
  BY DEF IInv, PushesAreUnarmed, CallInv
<1> QED
  BY <1>1, Inductive, PTL

=============================================================================
