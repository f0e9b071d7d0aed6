--------------------------- MODULE RecoveryFilesProofs ---------------------------
(***************************************************************************)
(* More theorems of Recovery, for every set of optional events: between two    *)
(* messages the files know what the memory knows, and a merge whose outcome is  *)
(* uncertain is not sent again.                                               *)
(***************************************************************************)
EXTENDS RecoveryProofs
LOCAL INSTANCE SequencesExt

-----------------------------------------------------------------------------
(* The steps the state thread still has to apply. *)

LEMMA ContainsFew ==
  /\ \A step : ~Contains(<<>>, step)
  /\ \A step, a : Contains(<<a>>, step) <=> step = a
  /\ \A step, a, b : Contains(<<a, b>>, step) <=> step = a \/ step = b
BY DEF Contains

LEMMA ContainsConcat ==
  ASSUME NEW s \in Seq(Step), NEW t \in Seq(Step), NEW step
  PROVE  Contains(s \o t, step) <=> Contains(s, step) \/ Contains(t, step)
<1>1. ASSUME Contains(s, step) \/ Contains(t, step)
      PROVE  Contains(s \o t, step)
  <2>1. CASE Contains(s, step)
    BY <2>1 DEF Contains
  <2>2. CASE Contains(t, step)
    <3>1. PICK i \in 1 .. Len(t) : t[i] = step
      BY <2>2 DEF Contains
    <3>2. Len(s) + i \in 1 .. Len(s \o t) /\ (s \o t)[Len(s) + i] = step
      BY <3>1
    <3> QED
      BY <3>2 DEF Contains
  <2> QED
    BY <1>1, <2>1, <2>2
<1>2. ASSUME Contains(s \o t, step)
      PROVE  Contains(s, step) \/ Contains(t, step)
  <2>1. PICK i \in 1 .. Len(s \o t) : (s \o t)[i] = step
    BY <1>2 DEF Contains
  <2>2. CASE i \in 1 .. Len(s)
    BY <2>1, <2>2 DEF Contains
  <2>3. CASE i \notin 1 .. Len(s)
    <3>1. i - Len(s) \in 1 .. Len(t) /\ t[i - Len(s)] = step
      BY <2>1, <2>3
    <3> QED
      BY <3>1 DEF Contains
  <2> QED
    BY <2>2, <2>3
<1> QED
  BY <1>1, <1>2

\* The first step is applied, and the others wait.
LEMMA ContainsTail ==
  ASSUME NEW s \in Seq(Step), s # <<>>, NEW step
  PROVE  Contains(s, step) <=> step = Head(s) \/ Contains(Tail(s), step)
<1>1. s = <<Head(s)>> \o Tail(s) /\ Head(s) \in Step /\ Tail(s) \in Seq(Step)
  OBVIOUS
<1>2. <<Head(s)>> \in Seq(Step)
  BY <1>1
<1>3. Contains(<<Head(s)>> \o Tail(s), step)
        <=> Contains(<<Head(s)>>, step) \/ Contains(Tail(s), step)
  BY <1>1, <1>2, ContainsConcat
<1>4. Contains(<<Head(s)>>, step) <=> step = Head(s)
  BY ContainsFew
<1> QED
  BY <1>1, <1>3, <1>4

LEMMA StepsApart ==
  /\ Record # Status /\ Record # Held /\ Status # Held
  /\ \A a \in Action : Kept(a) \notin {Record, Status, Held}
  /\ \A a, b \in Action : Kept(a) = Kept(b) => a = b
BY DEF Record, Status, Held, Kept

Steps == {Status, Record, Held, Kept("merge"), Kept("launch")}

\* The line that ends a launch is the last step.
LaunchLast(steps) ==
  \A n \in 1 .. Len(steps) : steps[n] = Kept("launch") => n = Len(steps)

LEMMA LaunchLastTail ==
  ASSUME NEW s \in Seq(Step), s # <<>>, LaunchLast(s)
  PROVE  /\ LaunchLast(Tail(s))
         /\ Head(s) = Kept("launch") => \A step : ~Contains(Tail(s), step)
<1>1. Tail(s) \in Seq(Step) /\ Len(Tail(s)) = Len(s) - 1 /\ Len(s) \in Nat /\ Len(s) # 0
  OBVIOUS
<1>2. ASSUME NEW n \in 1 .. Len(Tail(s)), Tail(s)[n] = Kept("launch")
      PROVE  n = Len(Tail(s))
  <2>1. n + 1 \in 1 .. Len(s) /\ s[n + 1] = Kept("launch") /\ n \in Int
    BY <1>1, <1>2
  <2>2. n + 1 = Len(s)
    BY <2>1 DEF LaunchLast
  <2> QED
    BY <2>2
<1>3. ASSUME Head(s) = Kept("launch"), NEW step PROVE ~Contains(Tail(s), step)
  <2>1. 1 \in 1 .. Len(s) /\ s[1] = Kept("launch")
    BY <1>1, <1>3
  <2>2. Len(s) = 1
    BY <2>1 DEF LaunchLast
  <2>3. Len(Tail(s)) = 0
    BY <1>1, <2>2
  <2>4. \A n : n \notin 1 .. 0
    OBVIOUS
  <2> QED
    BY <2>3, <2>4, Zenon DEF Contains
<1> QED
  BY <1>2, <1>3 DEF LaunchLast

LEMMA LaunchLastFew ==
  /\ LaunchLast(<<>>) /\ LaunchLast(<<Record>>) /\ LaunchLast(<<Status>>)
  /\ LaunchLast(<<Status, Record>>) /\ LaunchLast(<<Kept("launch")>>)
  /\ LaunchLast(<<Record, Kept("launch")>>)
BY DEF LaunchLast, Record, Status, Kept

PhaseAhead == Contains(todo, Status)
NotesAhead == Contains(todo, Record)
HeldAhead == Contains(todo, Held)
KeptMergeAhead == Contains(todo, Kept("merge"))
KeptLaunchAhead == Contains(todo, Kept("launch"))

-----------------------------------------------------------------------------
(* What the files and the memory owe each other.  A part that names `up' says   *)
(* nothing of an engine that is down; the others are about the files alone and   *)
(* are what a restart finds.                                                  *)

\* The record will be written before anything else happens.
Late == call.at = "none" /\ NotesAhead

\* The effect thread holds a copy of the record it will write back.
Copying == call.at \in {"torn", "replacing", "starting", "started"}

PhaseKept == up => status = issue.phase \/ PhaseAhead

ArmedKept ==
  up => /\ Late \/ record.armed = issue.armed
        /\ Copying => call.copy.armed = issue.armed

HeldKept ==
  up /\ issue.deferred # None =>
     /\ Late \/ held # None
     /\ Copying => journal.deferred # None \/ call.copy.deferred # None

\* An issue without a stage is not written: it must have nothing armed, in
\* memory and in the files a restart would rebuild it from.
NothingArmed ==
  up /\ issue.stage = "" /\ issue.deferred = None
     /\ ~(doing(issue, "launch") /\ issue.pending.phase # 0) =>
       ~issue.armed /\ ~record.armed

NothingArmedOnDisk ==
  record.stage = "" /\ journal.stage = "" /\ held = None /\ journal.pending # "launch" =>
     ~record.armed

\* Only the step of a running issue answers for the head.
HeadRuns ==
  \/ call.at = "merge" /\ call.head
  \/ call.at \in {"merged", "waiting", "unarmed", "kept", "fix", "uncertain"}
  => issue.stage = "running"

Fields ==
  PhaseKept /\ ArmedKept /\ HeldKept /\ NothingArmed /\ NothingArmedOnDisk /\ HeadRuns

\* The stage a restart would load is the memory's, unless the record is due or
\* the action in flight writes it.
StageKept ==
  up /\ ~NotesAhead /\ Kind(call.at) \in {"merge", "checkpoint"} =>
    loaded_stage = issue.stage \/ (loaded_stage = "merged" /\ issue.stage \in Torn)

\* The stages a replay of the journal can give.
Replayed ==
  /\ journal.stage \in {"", "running", "cleaning", "merged"}
  /\ up /\ journal.stage = "running" => issue.stage \notin {"", "starting"}

Unstaged == up /\ issue.stage = "" /\ ~doing(issue, "launch") => record.stage = ""

\* A teardown is in the memory before it is in a file, and in the record before
\* the journal says so.
TornInMemory ==
  up /\ (record.stage \in Torn \/ journal.stage \in {"cleaning", "merged"}) =>
    issue.stage \in Torn

TornInRecord ==
  journal.stage \in {"cleaning", "merged"} \/ journal.pending \in {"cleanup", "owed"} =>
    record.stage \in Torn

\* What an action in flight, or the one it chains, says of the stage.
PendingStage ==
  issue.pending # None =>
    /\ issue.pending.follow # None => issue.pending.action = "checkpoint"
    /\ issue.pending.follow = "launch" => issue.stage = "running"
    /\ issue.pending.follow = "cleanup" => issue.stage \in Torn
    /\ issue.pending.action = "cleanup" => issue.stage \in Torn
    /\ issue.pending.phase = 2 =>
         /\ issue.pending.action = "merge" => issue.stage \in Torn
         /\ issue.pending.action = "launch" => issue.stage = "running"
    /\ issue.pending.phase = 1 /\ call.at = "none" => todo = <<>>

\* A launch of a torn issue is in flight nowhere.
LaunchUntorn ==
  /\ doing(issue, "launch") \/ KeptLaunchAhead => issue.stage \notin Torn
  /\ journal.pending = "launch" =>
       record.stage \notin Torn /\ journal.stage \notin {"cleaning", "merged"}

\* Until a launch has begun, the record is what the memory decided it from.
LaunchBase ==
  up /\ doing(issue, "launch") /\ issue.pending.phase # 2 /\ call.at \in {"none", "launch"} =>
    /\ issue.stage \in {"", "running"}
    /\ record.stage = issue.stage \/ (Late /\ issue.stage = "running")

LaunchCalls ==
  /\ Kind(call.at) = "launch" => issue.stage \in {"", "running"}
  /\ call.at = "not launched" => record.stage \in {"", "running", "uncertain"}

\* A launch the journal leaves open is in flight, or the line that ends it is
\* the last step.
LaunchOpen ==
  /\ up /\ journal.pending = "launch" => doing(issue, "launch") \/ KeptLaunchAhead
  /\ KeptLaunchAhead => ~KeptMergeAhead /\ ~HeldAhead
  /\ LaunchLast(todo)

Stages ==
  /\ StageKept /\ Replayed /\ Unstaged /\ TornInMemory /\ TornInRecord
  /\ PendingStage /\ LaunchUntorn /\ LaunchBase /\ LaunchCalls /\ LaunchOpen

\* While an uncertain merge holds, in the journal and in memory, the issue is
\* not queued for as long as a merge is in flight, and a restart cannot queue it.
HeldInDoubt == doubt => journal.deferred = "merge" /\ (up => issue.deferred # None)

HeldNext ==
  /\ todo \in Seq(Steps)
  /\ HeldAhead => issue.deferred = "merge" /\ ~PhaseAhead

OffQueueInDoubt ==
  doubt /\ up =>
    /\ status = issue.phase
    /\ doing(issue, "merge") \/ journal.pending = "merge" => ~queued(issue)

OffQueueOnDisk ==
  doubt /\ journal.pending = "merge" => ~(status = "ready" /\ loaded_stage = "running")

NoHeadInDoubt ==
  doubt => /\ call.at \notin {"merged", "waiting", "unarmed", "kept", "fix", "uncertain"}
           /\ ~(call.at = "merge" /\ call.head)

Doubts == HeldInDoubt /\ HeldNext /\ OffQueueInDoubt /\ OffQueueOnDisk /\ NoHeadInDoubt

FInv == IInv /\ Fields /\ Stages /\ Doubts

-----------------------------------------------------------------------------
(* The stage a restart loads. *)

LEMMA Ranks ==
  /\ rank("") = 0 /\ rank("starting") = 1 /\ rank("running") = 2 /\ rank("cleaning") = 3
  /\ \A s \in {"replacing", "uncertain", "cleanup-incomplete", "merged"} : rank(s) = 4
BY DEF rank

LEMMA Further ==
  /\ \A s \in Stage : rank(s) >= rank("")
  /\ \A s \in Stage \ {"", "starting"} : rank(s) >= rank("running")
  /\ ~(rank("") >= rank("running")) /\ ~(rank("starting") >= rank("running"))
  /\ \A s \in Torn : rank(s) >= rank("cleaning")
  /\ \A s \in Torn \ {"cleaning"} : rank(s) >= rank("merged")
  /\ ~(rank("cleaning") >= rank("merged"))
<1>1. \A n \in {0, 1, 2, 3, 4} :
        /\ n >= 0 /\ (n \notin {0, 1} => n >= 2) /\ (n \in {0, 1} => ~(n >= 2))
        /\ (n \in {3, 4} => n >= 3) /\ (n = 4 => n >= 4) /\ (n = 3 => ~(n >= 4))
  OBVIOUS
<1>2. \A s \in Stage :
        /\ rank(s) \in {0, 1, 2, 3, 4}
        /\ s \notin {"", "starting"} => rank(s) \in {2, 3, 4}
        /\ s \in Torn => rank(s) \in {3, 4}
        /\ s \in Torn /\ s # "cleaning" => rank(s) = 4
  <2>1. \A s \in {"replacing", "uncertain", "cleanup-incomplete", "merged"} : rank(s) = 4
    BY Ranks
  <2>2. \A s \in Stage :
          s \in {"", "starting", "running", "cleaning"} \/
          s \in {"replacing", "uncertain", "cleanup-incomplete", "merged"}
    BY DEF Stage
  <2> QED
    BY <2>1, <2>2, Ranks, Zenon DEF Torn
<1>3. rank("merged") = 4
  BY Ranks
<1>4. Torn \subseteq Stage
  BY DEF Torn, Stage
<1>5. {2, 3, 4} \cap {0, 1} = {} /\ {2, 3, 4} \subseteq {0, 1, 2, 3, 4}
  OBVIOUS
<1> QED
  BY <1>1, <1>2, <1>3, <1>4, <1>5, Ranks, Zenon

\* The further of the record's stage and of the one the journal replays.
LEMMA FurtherStage ==
  ASSUME NEW r \in Stage, NEW j \in {"", "running", "cleaning", "merged"},
         j \in {"cleaning", "merged"} => r \in Torn,
         NEW l, l = IF rank(r) >= rank(j) THEN r ELSE j
  PROVE  /\ j = "" => l = r
         /\ j = "running" => l = IF r \in {"", "starting"} THEN "running" ELSE r
         /\ j = "cleaning" => l = r
         /\ j = "merged" => l = IF r = "cleaning" THEN "merged" ELSE r
BY Further, Zenon

LEMMA LoadedStage ==
  ASSUME TypeOK, Replayed, TornInRecord
  PROVE  /\ journal.stage = "" => loaded_stage = record.stage
         /\ journal.stage = "running" =>
              loaded_stage = IF record.stage \in {"", "starting"} THEN "running"
                             ELSE record.stage
         /\ journal.stage = "cleaning" => loaded_stage = record.stage
         /\ journal.stage = "merged" =>
              loaded_stage = IF record.stage = "cleaning" THEN "merged" ELSE record.stage
<1>1. record.stage \in Stage /\ journal.stage \in {"", "running", "cleaning", "merged"}
        /\ (journal.stage \in {"cleaning", "merged"} => record.stage \in Torn)
  BY DEF TypeOK, Document, Replayed, TornInRecord
<1>2. loaded_stage = IF rank(record.stage) >= rank(journal.stage) THEN record.stage
                     ELSE journal.stage
  BY DEF loaded_stage
<1> QED
  BY <1>1, <1>2, FurtherStage

LEMMA LoadedStageNext ==
  ASSUME record'.stage \in Stage, Replayed', TornInRecord'
  PROVE  /\ journal'.stage = "" => loaded_stage' = record'.stage
         /\ journal'.stage = "running" =>
              loaded_stage' = IF record'.stage \in {"", "starting"} THEN "running"
                              ELSE record'.stage
         /\ journal'.stage = "cleaning" => loaded_stage' = record'.stage
         /\ journal'.stage = "merged" =>
              loaded_stage' = IF record'.stage = "cleaning" THEN "merged" ELSE record'.stage
<1>1. journal'.stage \in {"", "running", "cleaning", "merged"}
        /\ (journal'.stage \in {"cleaning", "merged"} => record'.stage \in Torn)
  BY DEF Replayed, TornInRecord
<1>2. loaded_stage' = IF rank(record'.stage) >= rank(journal'.stage) THEN record'.stage
                      ELSE journal'.stage
  BY DEF loaded_stage
<1> QED
  BY <1>1, <1>2, FurtherStage

LEMMA InitFiles == Init => FInv
<1> SUFFICES ASSUME Init PROVE FInv
  OBVIOUS
<1>1. IInv
  BY InitInv
<1>2. todo = <<>> /\ call.at = "none" /\ issue = Unloaded /\ record = Blank /\ ~doubt
        /\ journal = [pending |-> None, stage |-> "", deferred |-> None] /\ status = ""
  BY DEF Init, Idle
<1>3. ~PhaseAhead /\ ~NotesAhead /\ ~HeldAhead /\ ~KeptLaunchAhead
  BY <1>2, ContainsFew DEF PhaseAhead, NotesAhead, HeldAhead, KeptLaunchAhead
<1>4. Fields
  BY <1>2, <1>3 DEF Fields, PhaseKept, ArmedKept, HeldKept, NothingArmed, NothingArmedOnDisk,
     HeadRuns, Unloaded, Blank, Copying
<1>5. loaded_stage = ""
  BY <1>2 DEF loaded_stage, rank, Blank
<1>6. Stages
  BY <1>2, <1>3, <1>5, RecoveryConstants, LaunchLastFew
     DEF Stages, StageKept, Replayed, Unstaged, TornInMemory, TornInRecord,
     PendingStage, LaunchUntorn, LaunchBase, LaunchCalls, LaunchOpen, Unloaded, Blank, Torn, Kind,
     doing
<1>7. todo \in Seq(Steps)
  <2>1. todo = <<>>
    BY <1>2
  <2> QED
    BY <2>1
<1>8. Doubts
  BY <1>2, <1>3, <1>7
     DEF Doubts, HeldInDoubt, HeldNext, OffQueueInDoubt, OffQueueOnDisk, NoHeadInDoubt
<1> QED
  BY <1>1, <1>4, <1>6, <1>8 DEF FInv

-----------------------------------------------------------------------------
(* The effect thread. *)

\* A call that moves on and writes nothing.
LEMMA CallMoves ==
  ASSUME FInv, call.at # "none", call'.at # "none", Kind(call'.at) = Kind(call.at),
         UNCHANGED <<journal, record, status, up, issue, todo, doubt>>,
         call'.at \notin {"torn", "replacing", "starting", "started", "launch"},
         call'.at = "not launched" => record.stage \in {"", "running", "uncertain"},
         \/ call'.at = "merge" /\ call'.head
         \/ call'.at \in {"merged", "waiting", "unarmed", "kept", "fix", "uncertain"}
         => call.at = "merge" /\ call.head
  PROVE  Fields' /\ Stages' /\ Doubts'
<1> USE DEF FInv
<1>1. UNCHANGED <<PhaseAhead, NotesAhead, HeldAhead, KeptMergeAhead, KeptLaunchAhead,
                  loaded_stage, held>>
  BY DEF PhaseAhead, NotesAhead, HeldAhead, KeptMergeAhead, KeptLaunchAhead, loaded_stage, held
<1>2. Fields'
  BY <1>1 DEF Fields, PhaseKept, ArmedKept, HeldKept, NothingArmed, NothingArmedOnDisk,
     HeadRuns, Late, Copying
<1>3. Stages'
  <2>1. (StageKept /\ Replayed /\ Unstaged /\ TornInMemory /\ TornInRecord)'
    BY <1>1 DEF Stages, StageKept, Replayed, Unstaged, TornInMemory, TornInRecord
  <2>2. (PendingStage /\ LaunchUntorn)'
    BY <1>1 DEF Stages, PendingStage, LaunchUntorn
  <2>3. (LaunchBase /\ LaunchCalls)'
    BY <1>1 DEF Stages, LaunchBase, LaunchCalls
  <2>4. LaunchOpen'
    BY <1>1 DEF Stages, LaunchOpen
  <2> QED
    BY <2>1, <2>2, <2>3, <2>4 DEF Stages
<1>4. Doubts'
  BY <1>1 DEF Doubts, HeldInDoubt, HeldNext, OffQueueInDoubt, OffQueueOnDisk, NoHeadInDoubt
<1> QED
  BY <1>2, <1>3, <1>4

\* The action a call runs for is open in the journal.
LEMMA InFlight ==
  ASSUME FInv, call.at # "none"
  PROVE  /\ up /\ issue.pending # None /\ issue.pending \in Pending
         /\ issue.pending.phase = 1 /\ issue.pending.phase # 0 /\ issue.pending.phase # 2
         /\ issue.pending.action = Kind(call.at) /\ journal.pending = Kind(call.at)
<1>1. /\ up /\ issue.pending # None /\ issue.pending.phase = 1
      /\ issue.pending.action = Kind(call.at) /\ issue \in Issue
  BY DEF FInv, IInv, OneAction, TypeOK
<1>2. \A n : n = 1 => n # 0 /\ n # 2
  OBVIOUS
<1>3. issue.pending.phase # 0 /\ issue.pending.phase # 2
  BY <1>1, <1>2
<1>4. journal.pending = issue.pending.action
  BY <1>1, <1>3 DEF FInv, IInv, Intent
<1> QED
  BY <1>1, <1>3, <1>4 DEF Issue

\* A teardown or a launch takes its copy of the record, and may write the stage
\* it begins with.
LEMMA CopyHeld ==
  ASSUME FInv, call.at \in {"cleanup", "launch"},
         call'.at \in {"torn", "replacing", "starting"}, call'.copy = record,
         Kind(call'.at) = Kind(call.at),
         UNCHANGED <<journal, status, up, issue, todo, doubt>>,
         record'.armed = record.armed, record'.deferred = record.deferred,
         \/ call.at = "cleanup" /\ UNCHANGED record
         \/ call.at = "launch" /\ record'.stage \in {"starting", "replacing"}
  PROVE  Fields' /\ Stages' /\ Doubts'
<1> USE DEF FInv
<1>1. UNCHANGED <<PhaseAhead, NotesAhead, HeldAhead, KeptMergeAhead, KeptLaunchAhead, held>>
  BY DEF PhaseAhead, NotesAhead, HeldAhead, KeptMergeAhead, KeptLaunchAhead, held
<1>2. /\ up /\ issue.pending # None /\ issue.pending.phase # 0 /\ issue.pending.phase # 2
      /\ issue.pending.action = call.at /\ journal.pending = call.at
  BY InFlight DEF Kind
<1>3. ~Late /\ ~Late' /\ ~Copying
  BY DEF Late, Copying
<1>4. Fields'
  <2>1. held = (IF journal.deferred # None THEN journal.deferred ELSE record.deferred)
    BY DEF held
  <2>2. (PhaseKept /\ ArmedKept)'
    BY <1>1, <1>2, <1>3 DEF Fields, PhaseKept, ArmedKept
  <2>3. HeldKept'
    BY <1>1, <1>2, <1>3, <2>1 DEF Fields, HeldKept
  <2>4. (NothingArmed /\ NothingArmedOnDisk /\ HeadRuns)'
    <3>1. call.at = "cleanup" => issue.stage \in Torn
      BY <1>2 DEF Stages, PendingStage
    <3> QED
      BY <1>1, <1>2, <3>1 DEF Fields, NothingArmed, NothingArmedOnDisk, HeadRuns, doing, Torn
  <2> QED
    BY <2>2, <2>3, <2>4 DEF Fields
<1>5. Stages'
  <2>1. (StageKept /\ Replayed)'
    BY <1>1 DEF Stages, StageKept, Replayed, Kind
  <2>2. (Unstaged /\ TornInMemory /\ TornInRecord)'
    BY <1>1, <1>2 DEF Stages, Unstaged, TornInMemory, TornInRecord, LaunchUntorn, doing, Torn
  <2>3. (PendingStage /\ LaunchUntorn)'
    BY <1>1, <1>2 DEF Stages, PendingStage, LaunchUntorn, Torn
  <2>4. (LaunchBase /\ LaunchCalls)'
    BY <1>1, <1>2 DEF Stages, LaunchBase, LaunchCalls, Kind
  <2>5. LaunchOpen'
    BY <1>1 DEF Stages, LaunchOpen
  <2> QED
    BY <2>1, <2>2, <2>3, <2>4, <2>5 DEF Stages
<1>6. Doubts'
  BY <1>1, <1>2 DEF Doubts, HeldInDoubt, HeldNext, OffQueueInDoubt, OffQueueOnDisk, NoHeadInDoubt
<1> QED
  BY <1>4, <1>5, <1>6

\* The copy is written back with the stage the teardown or the launch gives it.
LEMMA CopyWritten ==
  ASSUME FInv, Copying, call'.at # "none", Kind(call'.at) = Kind(call.at),
         UNCHANGED <<journal, status, up, issue, todo, doubt>>,
         record'.armed = call.copy.armed, record'.deferred = call.copy.deferred,
         call'.at \in {"starting", "cleaned", "incomplete", "launched", "not launched"},
         call'.at = "starting" => call'.copy = call.copy,
         IF call.at = "torn" THEN record'.stage \in Torn
         ELSE record'.stage \in {"", "starting", "running", "uncertain"},
         call'.at = "not launched" => record'.stage \in {"", "uncertain"}
  PROVE  Fields' /\ Stages' /\ Doubts'
<1> USE DEF FInv
<1>1. UNCHANGED <<PhaseAhead, NotesAhead, HeldAhead, KeptMergeAhead, KeptLaunchAhead>>
  BY DEF PhaseAhead, NotesAhead, HeldAhead, KeptMergeAhead, KeptLaunchAhead
<1>2. /\ up /\ issue.pending # None /\ issue.pending.phase # 0 /\ issue.pending.phase # 2
      /\ issue.pending.action = Kind(call.at) /\ journal.pending = Kind(call.at)
      /\ Kind(call.at) = IF call.at = "torn" THEN "cleanup" ELSE "launch"
  <2>1. call.at # "none"
    BY DEF Copying
  <2> QED
    BY <2>1, InFlight DEF Kind, Copying
<1>3. ~Late /\ ~Late' /\ (Copying' => call'.at = "starting")
  BY DEF Late, Copying
<1>4. Fields'
  <2>1. /\ held = (IF journal.deferred # None THEN journal.deferred ELSE record.deferred)
        /\ held' = (IF journal.deferred # None THEN journal.deferred ELSE record'.deferred)
    BY DEF held
  <2>2. (PhaseKept /\ ArmedKept)'
    BY <1>1, <1>2, <1>3 DEF Fields, PhaseKept, ArmedKept
  <2>3. HeldKept'
    BY <1>1, <1>2, <1>3, <2>1 DEF Fields, HeldKept
  <2>4. (NothingArmed /\ NothingArmedOnDisk /\ HeadRuns)'
    <3>1. call.at = "torn" => issue.stage \in Torn
      BY <1>2 DEF Stages, PendingStage
    <3> QED
      BY <1>1, <1>2, <3>1 DEF Fields, NothingArmed, NothingArmedOnDisk, HeadRuns, doing, Torn
  <2> QED
    BY <2>2, <2>3, <2>4 DEF Fields
<1>5. Stages'
  <2>1. (StageKept /\ Replayed)'
    BY <1>1, <1>2 DEF Stages, StageKept, Replayed
  <2>2. (Unstaged /\ TornInMemory /\ TornInRecord)'
    BY <1>1, <1>2 DEF Stages, Unstaged, TornInMemory, TornInRecord, LaunchUntorn, PendingStage,
       doing, Torn
  <2>3. (PendingStage /\ LaunchUntorn)'
    BY <1>1, <1>2 DEF Stages, PendingStage, LaunchUntorn, Torn
  <2>4. (LaunchBase /\ LaunchCalls)'
    BY <1>1, <1>2 DEF Stages, LaunchBase, LaunchCalls
  <2>5. LaunchOpen'
    BY <1>1 DEF Stages, LaunchOpen
  <2> QED
    BY <2>1, <2>2, <2>3, <2>4, <2>5 DEF Stages
<1>6. Doubts'
  BY <1>1, <1>2 DEF Doubts, HeldInDoubt, HeldNext, OffQueueInDoubt, OffQueueOnDisk, NoHeadInDoubt
<1> QED
  BY <1>4, <1>5, <1>6

\* The agent starts: the copy is kept.
LEMMA CopyKept ==
  ASSUME FInv, call.at = "starting", call'.at = "started", call'.copy = call.copy,
         UNCHANGED <<journal, record, status, up, issue, todo, doubt>>
  PROVE  Fields' /\ Stages' /\ Doubts'
<1> USE DEF FInv
<1>1. UNCHANGED <<PhaseAhead, NotesAhead, HeldAhead, KeptMergeAhead, KeptLaunchAhead,
                  loaded_stage, held>>
  BY DEF PhaseAhead, NotesAhead, HeldAhead, KeptMergeAhead, KeptLaunchAhead, loaded_stage, held
<1>2. Fields'
  BY <1>1 DEF Fields, PhaseKept, ArmedKept, HeldKept, NothingArmed, NothingArmedOnDisk,
     HeadRuns, Late, Copying
<1>3. Stages'
  <2>1. (StageKept /\ Replayed /\ Unstaged /\ TornInMemory /\ TornInRecord)'
    BY <1>1 DEF Stages, StageKept, Replayed, Unstaged, TornInMemory, TornInRecord, Kind
  <2>2. (PendingStage /\ LaunchUntorn)'
    BY <1>1 DEF Stages, PendingStage, LaunchUntorn
  <2>3. (LaunchBase /\ LaunchCalls)'
    BY <1>1 DEF Stages, LaunchBase, LaunchCalls, Kind
  <2>4. LaunchOpen'
    BY <1>1 DEF Stages, LaunchOpen
  <2> QED
    BY <2>1, <2>2, <2>3, <2>4 DEF Stages
<1>4. Doubts'
  BY <1>1 DEF Doubts, HeldInDoubt, HeldNext, OffQueueInDoubt, OffQueueOnDisk, NoHeadInDoubt
<1> QED
  BY <1>2, <1>3, <1>4

\* The step of the queue, the question to GitHub and the checkpoint write nothing.
LEMMA AskingFiles ==
  ASSUME FInv, MergeStep \/ Reconcile \/ Checkpoint
  PROVE  Fields' /\ Stages' /\ Doubts'
<1>0. Effect /\ TypeOK
  BY DEF Effect, FInv, IInv
<1>1. /\ call.at # "none" /\ Kind(call'.at) = Kind(call.at)
      /\ UNCHANGED <<journal, status, up, issue, todo, doubt>>
  BY <1>0, EffectKind, EffectKeeps
<1>2. UNCHANGED record
  BY DEF MergeStep, Reconcile, Checkpoint
<1>3. /\ \/ \E a \in {"merged", "waiting", "unarmed", "kept", "fix", "uncertain"} :
              answer(a) /\ call.at = "merge" /\ call.head
         \/ \E a \in {"disarmed", "error", "is merged", "is open", "is unknown", "snapped",
                      "no snapshot"} : answer(a)
  BY DEF MergeStep, Reconcile, Checkpoint
<1>4. \A a : answer(a) => call'.at = a
  BY DEF answer
<1> QED
  BY <1>1, <1>2, <1>3, <1>4, CallMoves

\* The record changes with the issue's action in flight: what stays, stays.
LEMMA CleanupFiles ==
  ASSUME FInv, Cleanup
  PROVE  Fields' /\ Stages' /\ Doubts'
<1>0. Effect /\ TypeOK /\ OneAction /\ Intent
  BY DEF Effect, FInv, IInv
<1>1. /\ call.at # "none" /\ Kind(call'.at) = Kind(call.at)
      /\ UNCHANGED <<journal, status, up, issue, todo, doubt>>
  BY <1>0, EffectKind, EffectKeeps
<1>2. call.at \in {"cleanup", "torn"}
  BY DEF Cleanup
<1>3. /\ issue.pending # None /\ issue.pending.action = "cleanup"
      /\ journal.pending = "cleanup"
  BY <1>2, InFlight DEF Kind
<1>4. issue.stage \in Torn /\ record.stage \in Torn
  BY <1>3 DEF FInv, Stages, PendingStage, TornInRecord
<1>5. CASE (answer("cleaned") \/ answer("incomplete")) /\ UNCHANGED record
  <2>1. call'.at \in {"cleaned", "incomplete"}
    BY <1>5 DEF answer
  <2> QED
    BY <1>1, <1>5, <2>1, CallMoves
<1>6. CASE call.at = "cleanup" /\ reads("torn") /\ UNCHANGED record
  <2>1. call'.at = "torn" /\ call'.copy = record
    BY <1>0, <1>6 DEF reads, TypeOK, Call
  <2> QED
    BY <1>1, <1>6, <2>1, CopyHeld
<1>7. CASE /\ call.at = "torn"
           /\ \/ answer("cleaned") /\ persist(call.copy, "merged")
              \/ answer("incomplete") /\ persist(call.copy, "cleanup-incomplete")
  <2>1. call'.at \in {"cleaned", "incomplete"}
    BY <1>7 DEF answer
  <2>2. /\ record'.stage \in {"merged", "cleanup-incomplete"}
        /\ record'.armed = call.copy.armed /\ record'.deferred = call.copy.deferred
    BY <1>0, <1>7 DEF persist, TypeOK, Call, Document
  <2> QED
    BY <1>1, <1>7, <2>1, <2>2, CopyWritten DEF Torn, Copying
<1> QED
  BY <1>5, <1>6, <1>7 DEF Cleanup

LEMMA LaunchFiles ==
  ASSUME FInv, LaunchBegins \/ Replaces \/ Starts \/ Launched \/ LaunchFails
  PROVE  Fields' /\ Stages' /\ Doubts'
<1>0. Effect /\ TypeOK
  BY DEF Effect, FInv, IInv
<1>1. /\ call.at # "none" /\ Kind(call'.at) = Kind(call.at)
      /\ UNCHANGED <<journal, status, up, issue, todo, doubt>>
  BY <1>0, EffectKind, EffectKeeps
<1>2. /\ \A a : answer(a) => call'.at = a
      /\ \A step : reads(step) => call'.at = step /\ call'.copy = record
      /\ \A step : proceeds(step) => call'.at = step /\ call'.copy = call.copy
  <2>1. ASSUME NEW a, answer(a) PROVE call'.at = a
    BY <2>1 DEF answer
  <2>2. ASSUME NEW step, reads(step) PROVE call'.at = step /\ call'.copy = record
    BY <1>0, <2>2 DEF reads, TypeOK, Call
  <2>3. ASSUME NEW step, proceeds(step) PROVE call'.at = step /\ call'.copy = call.copy
    BY <1>0, <2>3 DEF proceeds, TypeOK, Call
  <2> QED
    BY <2>1, <2>2, <2>3
<1>3. \A copy \in Document : \A stage : persist(copy, stage) =>
        record'.stage = stage /\ record'.armed = copy.armed /\ record'.deferred = copy.deferred
  BY DEF persist, Document
<1>4. record \in Document /\ call.copy \in Document
  BY <1>0 DEF TypeOK, Call
<1>5. CASE LaunchBegins
  <2>1. call.at = "launch"
    BY <1>5 DEF LaunchBegins
  <2>2. CASE \/ reads("starting") /\ persist(record, "starting")
             \/ reads("replacing") /\ persist(record, "replacing")
    BY <1>1, <1>2, <1>3, <1>4, <2>1, <2>2, CopyHeld
  <2>3. CASE answer("not launched") /\ UNCHANGED record
    <3>1. /\ up /\ issue.pending # None /\ issue.pending.phase # 2
          /\ issue.pending.action = "launch"
      BY <2>1, InFlight DEF Kind
    <3>2. record.stage \in {"", "running"}
      BY <2>1, <3>1 DEF FInv, Stages, LaunchBase, doing, Late
    <3> QED
      BY <1>1, <1>2, <2>3, <3>2, CallMoves
  <2> QED
    BY <1>5, <2>2, <2>3 DEF LaunchBegins
<1>6. CASE Replaces
  <2>1. call.at = "replacing" /\ proceeds("starting") /\ persist(call.copy, "starting")
    BY <1>6 DEF Replaces
  <2> QED
    BY <1>1, <1>2, <1>3, <1>4, <2>1, CopyWritten DEF Copying
<1>7. CASE Starts
  <2>1. call.at = "starting" /\ proceeds("started") /\ UNCHANGED record
    BY <1>7 DEF Starts
  <2> QED
    BY <1>1, <1>2, <2>1, CopyKept
<1>8. CASE Launched
  <2>1. call.at = "started" /\ answer("launched") /\ persist(call.copy, "running")
    BY <1>8 DEF Launched
  <2> QED
    BY <1>1, <1>2, <1>3, <1>4, <2>1, CopyWritten DEF Copying
<1>9. CASE LaunchFails
  <2>1. /\ call.at \in {"replacing", "starting", "started"} /\ answer("not launched")
        /\ persist(call.copy, "") \/ persist(call.copy, "uncertain")
    BY <1>9 DEF LaunchFails
  <2> QED
    BY <1>1, <1>2, <1>3, <1>4, <2>1, CopyWritten DEF Copying
<1> QED
  BY <1>5, <1>6, <1>7, <1>8, <1>9

-----------------------------------------------------------------------------
(* A crash and a restart. *)

\* GitHub and the worker's pane touch neither the files nor the memory.
LEMMA SameFiles ==
  ASSUME FInv, UNCHANGED <<journal, record, status, up, issue, todo, call, doubt>>
  PROVE  Fields' /\ Stages' /\ Doubts'
<1> USE DEF FInv
<1>1. UNCHANGED <<PhaseAhead, NotesAhead, HeldAhead, KeptMergeAhead, KeptLaunchAhead,
                  loaded_stage, held, Late, Copying>>
  BY DEF PhaseAhead, NotesAhead, HeldAhead, KeptMergeAhead, KeptLaunchAhead, loaded_stage, held,
         Late, Copying
<1>2. Fields'
  BY <1>1 DEF Fields, PhaseKept, ArmedKept, HeldKept, NothingArmed, NothingArmedOnDisk, HeadRuns
<1>3. Stages'
  <2>1. (StageKept /\ Replayed /\ Unstaged /\ TornInMemory /\ TornInRecord)'
    BY <1>1 DEF Stages, StageKept, Replayed, Unstaged, TornInMemory, TornInRecord
  <2>2. (PendingStage /\ LaunchUntorn)'
    BY <1>1 DEF Stages, PendingStage, LaunchUntorn
  <2>3. (LaunchBase /\ LaunchCalls)'
    BY <1>1 DEF Stages, LaunchBase, LaunchCalls
  <2>4. LaunchOpen'
    BY <1>1 DEF Stages, LaunchOpen
  <2> QED
    BY <2>1, <2>2, <2>3, <2>4 DEF Stages
<1>4. Doubts'
  BY <1>1 DEF Doubts, HeldInDoubt, HeldNext, OffQueueInDoubt, OffQueueOnDisk, NoHeadInDoubt
<1> QED
  BY <1>2, <1>3, <1>4

\* The parts about the files alone outlive the engine.
LEMMA CrashFiles ==
  ASSUME FInv, Crash
  PROVE  Fields' /\ Stages' /\ Doubts'
<1> USE DEF FInv
<1>1. /\ UNCHANGED <<journal, record, status, doubt>> /\ ~up' /\ issue'.pending = None
      /\ todo' = <<>> /\ call'.at = "none"
  BY DEF Crash, files, Idle, Unloaded
<1>2. ~(PhaseAhead \/ NotesAhead \/ HeldAhead \/ KeptMergeAhead \/ KeptLaunchAhead)'
  BY <1>1, ContainsFew
     DEF PhaseAhead, NotesAhead, HeldAhead, KeptMergeAhead, KeptLaunchAhead
<1>3. UNCHANGED <<loaded_stage, held>>
  BY <1>1 DEF loaded_stage, held
<1>4. Fields'
  BY <1>1, <1>2, <1>3
     DEF Fields, PhaseKept, ArmedKept, HeldKept, NothingArmed, NothingArmedOnDisk, HeadRuns
<1>5. Kind(call'.at) = "merge"
  BY <1>1 DEF Kind
<1>6. Stages'
  <2>1. (StageKept /\ Replayed /\ Unstaged /\ TornInMemory /\ TornInRecord)'
    BY <1>1, <1>2, <1>3 DEF Stages, StageKept, Replayed, Unstaged, TornInMemory, TornInRecord
  <2>2. (PendingStage /\ LaunchUntorn)'
    BY <1>1, <1>2, <1>3 DEF Stages, PendingStage, LaunchUntorn, doing
  <2>3. (LaunchBase /\ LaunchCalls)'
    BY <1>1, <1>5 DEF Stages, LaunchBase, LaunchCalls
  <2>4. LaunchOpen'
    BY <1>1, <1>2, LaunchLastFew DEF Stages, LaunchOpen
  <2> QED
    BY <2>1, <2>2, <2>3, <2>4 DEF Stages
<1>7. todo' \in Seq(Steps)
  <2>1. todo' = <<>>
    BY <1>1
  <2> QED
    BY <2>1
<1>8. Doubts'
  BY <1>1, <1>2, <1>3, <1>7
     DEF Doubts, HeldInDoubt, HeldNext, OffQueueInDoubt, OffQueueOnDisk, NoHeadInDoubt
<1> QED
  BY <1>4, <1>6, <1>8

\* What the replay takes up, line by line.
LEMMA Resumes ==
  ASSUME TypeOK
  PROVE  \/ resume = None /\ (journal.pending = "launch" => unsure)
         \/ /\ resume \in Pending /\ ~unsure /\ resume # None
            /\ resume.follow = None
            /\ \/ journal.pending = "owed" /\ resume.action = "cleanup" /\ resume.phase = 0
               \/ /\ resume.action = journal.pending
                  /\ IF journal.pending = "launch" /\ loaded_stage # ""
                     THEN resume.phase = 2 ELSE resume.phase = 1
<1>1. journal.pending \in Action \cup {"owed", None}
  BY DEF TypeOK, Replay
<1>2. CASE journal.pending = None
  BY <1>2, RecoveryConstants DEF resume, unsure
<1>3. CASE journal.pending = "owed"
  <2>1. "cleanup" \in Action
    BY DEF Action
  <2>2. resume = fresh("cleanup") /\ ~unsure
    BY <1>3, RecoveryConstants DEF resume, unsure
  <2> QED
    BY <1>3, <2>1, <2>2, FreshType, NoneIsNoAction
<1>4. CASE journal.pending = "merge"
  <2> DEFINE r == resumed("merge", 1)
  <2>1. resume = [r EXCEPT !.recovered = TRUE] /\ ~unsure
    BY <1>4, RecoveryConstants DEF resume, unsure
  <2>2. "merge" \in Action
    BY DEF Action
  <2>3. r \in Pending /\ r.action = "merge" /\ r.phase = 1 /\ r.follow = None
    BY <2>2, ResumedType
  <2> HIDE DEF r
  <2>4. resume \in Pending /\ resume.action = "merge" /\ resume.phase = 1 /\ resume.follow = None
    BY <2>1, <2>3 DEF Pending
  <2> QED
    BY <1>4, <2>1, <2>4, NoneIsNoAction
<1>5. CASE journal.pending = "launch"
  <2>1. CASE unsure
    BY <1>5, <2>1, RecoveryConstants DEF resume, unsure
  <2>2. CASE ~unsure
    <3>1. "launch" \in Action
      BY DEF Action
    <3>2. CASE loaded_stage = ""
      <4>1. resume = resumed("launch", 1)
        BY <1>5, <2>2, <3>2, RecoveryConstants DEF resume, unsure
      <4>2. /\ resume \in Pending /\ resume.action = "launch" /\ resume.phase = 1
            /\ resume.follow = None
        BY <3>1, <4>1, ResumedType
      <4> QED
        BY <1>5, <2>2, <3>2, <4>2, NoneIsNoAction
    <3>3. CASE loaded_stage # ""
      <4>1. resume = resumed("launch", 2)
        BY <1>5, <2>2, <3>3, RecoveryConstants DEF resume, unsure
      <4>2. /\ resume \in Pending /\ resume.action = "launch" /\ resume.phase = 2
            /\ resume.follow = None
        BY <3>1, <4>1, ResumedType
      <4> QED
        BY <1>5, <2>2, <3>3, <4>2, NoneIsNoAction
    <3> QED
      BY <3>2, <3>3
  <2> QED
    BY <2>1, <2>2
<1>6. CASE journal.pending \in {"cleanup", "checkpoint"}
  <2>1. resume = resumed(journal.pending, 1) /\ ~unsure
    BY <1>6, RecoveryConstants DEF resume, unsure
  <2>2. journal.pending \in Action
    BY <1>6 DEF Action
  <2>3. /\ resume \in Pending /\ resume.action = journal.pending
        /\ resume.phase = 1 /\ resume.follow = None
    BY <2>1, <2>2, ResumedType
  <2> QED
    BY <1>6, <2>1, <2>3, NoneIsNoAction
<1> QED
  BY <1>1, <1>2, <1>3, <1>4, <1>5, <1>6 DEF Action

\* What the memory of a restarted engine starts from.
LEMMA LoadedFacts ==
  ASSUME TypeOK, NEW s, s = arm_merge(loaded)
  PROVE  /\ s.phase = status /\ s.stage = loaded_stage /\ s.deferred = held
         /\ s.armed = record.armed
         /\ s.pending = None /\ journal.pending = "launch" => unsure
         /\ s.pending # None =>
              /\ ~unsure /\ s.pending.follow = None
              /\ \/ /\ s.pending.action = "cleanup" /\ s.pending.phase = 0
                    /\ journal.pending = "owed" \/ loaded_stage = "cleaning"
                 \/ /\ s.pending.action = "merge" /\ s.pending.phase = 0
                    /\ queued(loaded) /\ held = None /\ journal.pending # "launch"
                 \/ /\ s.pending.action = "merge" /\ s.pending.phase = 2
                    /\ loaded_stage = "cleaning"
                 \/ /\ s.pending.action = journal.pending
                    /\ IF journal.pending = "launch" /\ loaded_stage # ""
                       THEN s.pending.phase = 2 ELSE s.pending.phase = 1
<1> DEFINE p == reconciled(resume)
<1>1. /\ loaded \in Issue /\ loaded.pending = p /\ loaded.stage = loaded_stage
      /\ loaded.phase = status /\ loaded.deferred = held /\ loaded.armed = record.armed
  BY LoadedType DEF loaded
<1>2. \A a \in Action : /\ fresh(a) # None /\ fresh(a).action = a /\ fresh(a).phase = 0
                        /\ fresh(a).follow = None
  BY FreshType, NoneIsNoAction
<1>3. "cleanup" \in Action /\ "merge" \in Action
  BY DEF Action
<1>4. /\ p = None /\ journal.pending = "launch" => unsure
      /\ p # None =>
           /\ ~unsure /\ p.follow = None
           /\ \/ /\ p.action = "cleanup" /\ p.phase = 0
                 /\ journal.pending = "owed" \/ loaded_stage = "cleaning"
              \/ p.action = "merge" /\ p.phase = 2 /\ loaded_stage = "cleaning"
              \/ /\ p.action = journal.pending
                 /\ IF journal.pending = "launch" /\ loaded_stage # ""
                    THEN p.phase = 2 ELSE p.phase = 1
  <2>1. CASE loaded_stage # "cleaning"
    BY <2>1, Resumes DEF reconciled
  <2>2. CASE loaded_stage = "cleaning" /\ resume = None
    <3>1. p = fresh("cleanup")
      BY <2>2 DEF reconciled
    <3>2. ~unsure
      BY <2>2 DEF unsure, Unsure
    <3> QED
      BY <1>2, <1>3, <2>2, <3>1, <3>2
  <2>3. CASE loaded_stage = "cleaning" /\ resume # None /\ resume.action = "merge"
    <3>1. p = [resume EXCEPT !.phase = 2, !.recovered = FALSE] /\ resume \in Pending /\ ~unsure
            /\ resume.follow = None
      BY <2>3, Resumes DEF reconciled
    <3>2. p.phase = 2 /\ p.action = "merge" /\ p.follow = None
      BY <2>3, <3>1 DEF Pending
    <3>3. p # None
      <4>1. 2 \in 0 .. 2
        OBVIOUS
      <4>2. p \in Pending
        BY <3>1, <4>1 DEF Pending
      <4> QED
        BY <4>2, NoneIsNoAction
    <3> HIDE DEF p
    <3> QED
      BY <2>3, <3>1, <3>2, <3>3
  <2>4. CASE loaded_stage = "cleaning" /\ resume # None /\ resume.action # "merge"
    BY <2>4, Resumes DEF reconciled
  <2> QED
    BY <2>1, <2>2, <2>3, <2>4
<1> HIDE DEF p
<1>5. CASE armable(loaded)
  <2>1. /\ s.pending = fresh("merge") /\ s.phase = status /\ s.stage = loaded_stage
        /\ s.deferred = held /\ s.armed = record.armed
    BY <1>1, <1>5 DEF arm_merge, Issue
  <2>2. loaded_stage = "running" /\ p = None /\ held = None /\ queued(loaded)
    BY <1>1, <1>5 DEF armable, queued
  <2>3. journal.pending # "launch" /\ ~unsure
    BY <1>4, <2>2 DEF unsure, Unsure
  <2> QED
    BY <1>2, <1>3, <2>1, <2>2, <2>3
<1>6. CASE ~armable(loaded)
  <2>1. s = loaded
    BY <1>6 DEF arm_merge
  <2> QED
    BY <1>1, <1>4, <2>1
<1> QED
  BY <1>5, <1>6

LEMMA RestartFiles ==
  ASSUME FInv, Restart
  PROVE  Fields' /\ Stages' /\ Doubts'
<1> USE DEF FInv
<1>0. TypeOK
  BY DEF IInv
<1>1. /\ UNCHANGED <<journal, record, status, call, doubt>> /\ up' /\ ~up
      /\ issue' = arm_merge(loaded)
      /\ todo' = IF unsure THEN <<Kept("launch")>> ELSE <<>>
  BY DEF Restart, files
<1>2. call.at = "none" /\ call'.at = "none" /\ Kind(call'.at) = "merge"
  BY <1>1 DEF IInv, OneAction, Kind
<1>3. /\ ~(PhaseAhead \/ NotesAhead \/ HeldAhead \/ KeptMergeAhead)'
      /\ KeptLaunchAhead' <=> unsure
      /\ LaunchLast(todo') /\ todo' \in Seq(Steps)
  <2>1. CASE unsure
    <3>1. todo' = <<Kept("launch")>>
      BY <1>1, <2>1
    <3>2. Kept("launch") \notin {Status, Record, Held, Kept("merge")} /\ Kept("launch") \in Steps
      BY StepsApart DEF Action, Steps
    <3>3. todo' \in Seq(Steps)
      BY <3>1, <3>2
    <3> QED
      BY <2>1, <3>1, <3>2, <3>3, ContainsFew, LaunchLastFew
         DEF PhaseAhead, NotesAhead, HeldAhead, KeptMergeAhead, KeptLaunchAhead
  <2>2. CASE ~unsure
    <3>1. todo' = <<>>
      BY <1>1, <2>2
    <3>2. todo' \in Seq(Steps)
      BY <3>1
    <3> QED
      BY <2>2, <3>1, <3>2, ContainsFew, LaunchLastFew
         DEF PhaseAhead, NotesAhead, HeldAhead, KeptMergeAhead, KeptLaunchAhead
  <2> QED
    BY <2>1, <2>2
<1>4. UNCHANGED <<loaded_stage, held>>
  BY <1>1 DEF loaded_stage, held
<1>5. /\ issue'.phase = status /\ issue'.stage = loaded_stage /\ issue'.deferred = held
      /\ issue'.armed = record.armed
      /\ issue'.pending = None /\ journal.pending = "launch" => unsure
  BY <1>0, <1>1, LoadedFacts
<1>6. issue'.pending # None =>
        /\ ~unsure /\ issue'.pending.follow = None
        /\ \/ /\ issue'.pending.action = "cleanup" /\ issue'.pending.phase = 0
              /\ journal.pending = "owed" \/ loaded_stage = "cleaning"
           \/ /\ issue'.pending.action = "merge" /\ issue'.pending.phase = 0
              /\ queued(loaded) /\ held = None /\ journal.pending # "launch"
           \/ /\ issue'.pending.action = "merge" /\ issue'.pending.phase = 2
              /\ loaded_stage = "cleaning"
           \/ /\ issue'.pending.action = journal.pending
              /\ IF journal.pending = "launch" /\ loaded_stage # ""
                 THEN issue'.pending.phase = 2 ELSE issue'.pending.phase = 1
  BY <1>0, <1>1, LoadedFacts
<1>7. /\ loaded_stage \in Stage /\ record.stage \in Stage
      /\ record.stage \in Torn => loaded_stage \in Torn
      /\ loaded_stage = "" => record.stage = "" /\ journal.stage = ""
      /\ journal.stage = "running" => loaded_stage \notin {"", "starting"}
      /\ record.stage \notin Torn /\ journal.stage \notin {"cleaning", "merged"} =>
           loaded_stage \notin Torn
  <2>1. record.stage \in Stage /\ Replayed /\ TornInRecord
    BY <1>0 DEF Stages, TypeOK, Document
  <2> QED
    BY <1>0, <2>1, LoadedStage DEF Replayed, TornInRecord, Torn, Stage
<1>8. journal.pending = "launch" /\ ~unsure => loaded_stage \in {"", "running"}
  BY <1>7 DEF unsure, Unsure, Stages, LaunchUntorn, Stage, Torn
<1>9. \A n : n = 0 => n # 1 /\ n # 2
  OBVIOUS
<1>10. \A n : (n = 1 => n # 0 /\ n # 2) /\ (n = 2 => n # 0 /\ n # 1)
  OBVIOUS
<1>11. Fields'
  <2>1. (PhaseKept /\ ArmedKept /\ HeldKept)'
    BY <1>1, <1>2, <1>4, <1>5 DEF Fields, PhaseKept, ArmedKept, HeldKept, Late, Copying
  <2>2. NothingArmed'
    BY <1>1, <1>4, <1>5, <1>6, <1>7, <1>10
       DEF Fields, NothingArmed, NothingArmedOnDisk, doing, unsure, Unsure
  <2>3. (NothingArmedOnDisk /\ HeadRuns)'
    BY <1>1, <1>2, <1>4 DEF Fields, NothingArmedOnDisk, HeadRuns
  <2> QED
    BY <2>1, <2>2, <2>3 DEF Fields
<1>12. Stages'
  <2>1. (StageKept /\ Replayed /\ Unstaged)'
    BY <1>1, <1>4, <1>5, <1>7 DEF Stages, StageKept, Replayed, Unstaged
  <2>2. (TornInMemory /\ TornInRecord)'
    BY <1>1, <1>4, <1>5, <1>7 DEF Stages, TornInMemory, TornInRecord
  <2>3. PendingStage'
    <3>1. SUFFICES ASSUME issue'.pending # None
                   PROVE  PendingStage'
      BY DEF PendingStage
    <3>2. todo' = <<>> /\ ~unsure /\ issue'.pending.follow = None
      BY <1>1, <1>6, <3>1
    <3>3. issue'.pending.action = "cleanup" => issue'.stage \in Torn
      BY <1>5, <1>6, <1>7, <3>1 DEF Stages, TornInRecord, Torn
    <3>4. issue'.pending.phase = 2 =>
            /\ issue'.pending.action = "merge" => issue'.stage \in Torn
            /\ issue'.pending.action = "launch" => issue'.stage = "running"
      BY <1>5, <1>6, <1>8, <1>9, <1>10, <3>1, <3>2 DEF Torn
    <3> QED
      BY <3>2, <3>3, <3>4, RecoveryConstants DEF PendingStage
  <2>4. LaunchUntorn'
    BY <1>1, <1>3, <1>5, <1>6, <1>7 DEF Stages, LaunchUntorn, doing, unsure, Unsure, Torn
  <2>5. (LaunchBase /\ LaunchCalls)'
    BY <1>1, <1>2, <1>5, <1>6, <1>7, <1>8 DEF LaunchBase, LaunchCalls, doing
  <2>6. LaunchOpen'
    BY <1>1, <1>3, <1>5, <1>6, <1>8 DEF LaunchOpen, doing
  <2> QED
    BY <2>1, <2>2, <2>3, <2>4, <2>5, <2>6 DEF Stages
<1>13. Doubts'
  <2>1. (HeldInDoubt /\ HeldNext)'
    BY <1>1, <1>3, <1>5, RecoveryConstants DEF Doubts, HeldInDoubt, HeldNext, held
  <2>2. (OffQueueInDoubt /\ OffQueueOnDisk)'
    <3>1. doubt => held # None
      BY RecoveryConstants DEF Doubts, HeldInDoubt, held
    <3> QED
      BY <1>1, <1>4, <1>5, <1>6, <3>1 DEF Doubts, OffQueueInDoubt, OffQueueOnDisk, doing, queued
  <2>3. NoHeadInDoubt'
    BY <1>1, <1>2 DEF Doubts, NoHeadInDoubt
  <2> QED
    BY <2>1, <2>2, <2>3 DEF Doubts
<1> QED
  BY <1>11, <1>12, <1>13

-----------------------------------------------------------------------------
(* The steps of the state thread, each written to its file. *)

LEMMA StatusWritten ==
  ASSUME FInv, up, UNCHANGED <<journal, record, up, issue, call, doubt>>, status' = issue.phase,
         todo # <<>>, todo' \in Seq(Steps), LaunchLast(todo'),
         PhaseAhead' => PhaseAhead,
         UNCHANGED <<NotesAhead, HeldAhead, KeptMergeAhead, KeptLaunchAhead>>
  PROVE  Fields' /\ Stages' /\ Doubts'
<1> USE DEF FInv
<1>1. UNCHANGED <<loaded_stage, held, Late, Copying>>
  BY DEF loaded_stage, held, Late, Copying
<1>2. Fields'
  BY <1>1 DEF Fields, PhaseKept, ArmedKept, HeldKept, NothingArmed, NothingArmedOnDisk, HeadRuns
<1>3. Stages'
  <2>1. (StageKept /\ Replayed /\ Unstaged /\ TornInMemory /\ TornInRecord)'
    BY <1>1 DEF Stages, StageKept, Replayed, Unstaged, TornInMemory, TornInRecord
  <2>2. (PendingStage /\ LaunchUntorn)'
    BY <1>1 DEF Stages, PendingStage, LaunchUntorn
  <2>3. (LaunchBase /\ LaunchCalls)'
    BY <1>1 DEF Stages, LaunchBase, LaunchCalls
  <2>4. LaunchOpen'
    BY <1>1 DEF Stages, LaunchOpen
  <2> QED
    BY <2>1, <2>2, <2>3, <2>4 DEF Stages
<1>4. Doubts'
  BY <1>1 DEF Doubts, HeldInDoubt, HeldNext, OffQueueInDoubt, OffQueueOnDisk, NoHeadInDoubt
<1> QED
  BY <1>2, <1>3, <1>4

\* An issue with nothing to record is left alone, and so is the stage of a
\* settled record.
LEMMA WrittenFields ==
  ASSUME TypeOK
  PROVE  /\ written.stage = IF issue.stage = "" \/ record.stage = "merged" THEN record.stage
                            ELSE issue.stage
         /\ \/ /\ written.deferred = issue.deferred /\ written.armed = issue.armed
            \/ /\ issue.stage = "" /\ issue.deferred = None /\ issue.phase # "ready"
               /\ written = record
BY DEF written, TypeOK, Document

LEMMA RecordWritten ==
  ASSUME FInv, up, UNCHANGED <<journal, status, up, issue, call, doubt>>, record' = written,
         todo # <<>>, todo' \in Seq(Steps), LaunchLast(todo'), NotesAhead,
         NotesAhead' => NotesAhead,
         UNCHANGED <<PhaseAhead, HeldAhead, KeptMergeAhead, KeptLaunchAhead>>
  PROVE  Fields' /\ Stages' /\ Doubts'
<1> USE DEF FInv
<1>0. TypeOK /\ OneAction /\ Intent
  BY DEF IInv
<1>1. /\ record'.stage = IF issue.stage = "" \/ record.stage = "merged" THEN record.stage
                         ELSE issue.stage
      /\ \/ record'.deferred = issue.deferred /\ record'.armed = issue.armed
         \/ /\ issue.stage = "" /\ issue.deferred = None /\ issue.phase # "ready"
            /\ record' = record
  BY <1>0, WrittenFields
<1>2. \A n : (n = 1 => n # 0 /\ n # 2) /\ (n = 0 => n # 1 /\ n # 2) /\ (n = 2 => n # 1 /\ n # 0)
  OBVIOUS
<1>3. issue.pending # None => issue.pending.phase \in {0, 1, 2}
  <2>1. issue.pending # None => issue.pending \in Pending
    BY <1>0 DEF TypeOK, Issue
  <2>2. \A n \in 0 .. 2 : n \in {0, 1, 2}
    OBVIOUS
  <2> QED
    BY <2>1, <2>2 DEF Pending
<1>4. doing(issue, "launch") /\ call.at = "none" =>
        /\ issue.pending.phase # 1
        /\ issue.pending.phase # 2 => (issue.stage = "" => record.stage = "")
        /\ issue.pending.phase = 2 => issue.stage = "running"
  BY DEF Stages, PendingStage, LaunchBase, doing
<1>5. record.stage = "merged" => issue.stage \in Torn
  BY DEF Stages, TornInMemory, Torn
<1>6. call.at = "none" /\ issue.stage = "" => record.stage = ""
  BY <1>2, <1>3, <1>4 DEF Stages, Unstaged
<1>7. held' = (IF journal.deferred # None THEN journal.deferred ELSE record'.deferred)
        /\ held = (IF journal.deferred # None THEN journal.deferred ELSE record.deferred)
  BY DEF held
<1>8. record'.armed = issue.armed \/ (record'.armed = record.armed /\ call.at # "none")
  <2>1. CASE record' = record /\ call.at = "none" /\ issue.stage = "" /\ issue.deferred = None
    <3>1. ~issue.armed /\ ~record.armed
      BY <1>2, <1>3, <1>4, <2>1 DEF Fields, NothingArmed, doing
    <3>2. issue.armed \in BOOLEAN /\ record.armed \in BOOLEAN
      BY <1>0 DEF TypeOK, Issue, Document
    <3> QED
      BY <2>1, <3>1, <3>2
  <2> QED
    BY <1>1, <2>1
<1>9. Fields'
  <2>1. (PhaseKept /\ ArmedKept)'
    BY <1>8 DEF Fields, PhaseKept, ArmedKept, Late, Copying
  <2>2. HeldKept'
    BY <1>1, <1>7 DEF Fields, HeldKept, Late, Copying
  <2>3. NothingArmed'
    BY <1>1 DEF Fields, NothingArmed
  <2>4. NothingArmedOnDisk'
    <3>1. doing(issue, "launch") /\ issue.pending.phase # 0 => journal.pending = "launch"
      BY <1>0 DEF Intent, doing
    <3>2. record'.stage = "" /\ issue.stage # "" => record.stage = "merged"
      BY <1>1
    <3> QED
      BY <1>1, <1>5, <1>7, <3>1, <3>2 DEF Fields, NothingArmed, NothingArmedOnDisk, Torn
  <2>5. HeadRuns'
    BY DEF Fields, HeadRuns
  <2> QED
    BY <2>1, <2>2, <2>3, <2>4, <2>5 DEF Fields
<1>10. record'.stage \in Stage
  BY <1>0, <1>1 DEF TypeOK, Issue, Document
<1>11. Stages'
  <2>1. TornInRecord'
    BY <1>1 DEF Stages, TornInMemory, TornInRecord, Torn
  <2>2. (Replayed /\ Unstaged /\ TornInMemory)'
    BY <1>1 DEF Stages, Replayed, Unstaged, TornInMemory, Torn
  <2>3. StageKept'
    <3>1. SUFFICES ASSUME Kind(call.at) \in {"merge", "checkpoint"}
                   PROVE  \/ loaded_stage' = issue.stage
                          \/ loaded_stage' = "merged" /\ issue.stage \in Torn
      BY DEF StageKept
    <3>2. issue.stage = "" => record.stage = "" /\ journal.stage = ""
      <4>1. call.at # "none" => ~doing(issue, "launch")
        BY <1>0, <3>1 DEF OneAction, doing
      <4>2. issue.stage = "" => record.stage = ""
        BY <1>6, <4>1 DEF Stages, Unstaged
      <4> QED
        BY <4>2 DEF Stages, Replayed, TornInMemory, Torn
    <3>3. journal.stage = "running" => issue.stage \notin {"", "starting"}
      BY DEF Stages, Replayed
    <3>4. journal.stage \in {"cleaning", "merged"} => issue.stage \in Torn
      BY DEF Stages, TornInMemory
    <3>5. journal.stage \in {"", "running", "cleaning", "merged"}
      BY DEF Stages, Replayed
    <3> QED
      BY <1>1, <1>5, <1>10, <2>1, <2>2, <3>2, <3>3, <3>4, <3>5, LoadedStageNext DEF Torn
  <2>4. (PendingStage /\ LaunchUntorn)'
    BY <1>1 DEF Stages, PendingStage, LaunchUntorn, LaunchOpen, TornInMemory, Torn
  <2>5. (LaunchBase /\ LaunchCalls)'
    BY <1>1, <1>5 DEF Stages, LaunchBase, LaunchCalls, Late, Torn, Kind
  <2>6. LaunchOpen'
    BY DEF Stages, LaunchOpen
  <2> QED
    BY <2>1, <2>2, <2>3, <2>4, <2>5, <2>6 DEF Stages
<1>12. Doubts'
  <2>1. (HeldInDoubt /\ HeldNext /\ OffQueueInDoubt /\ NoHeadInDoubt)'
    BY DEF Doubts, HeldInDoubt, HeldNext, OffQueueInDoubt, NoHeadInDoubt
  <2>2. OffQueueOnDisk'
    <3>1. SUFFICES ASSUME doubt, journal.pending = "merge", status = "ready"
                   PROVE  loaded_stage' # "running"
      BY DEF OffQueueOnDisk
    <3>2. issue.stage # "running"
      BY <3>1 DEF Doubts, OffQueueInDoubt, queued
    <3>3. issue.stage = "" => record.stage = ""
      <4>1. CASE doing(issue, "launch")
        <5>1. call.at = "none"
          BY <1>2, <3>1, <4>1 DEF IInv, OneAction, Intent, doing
        <5> QED
          BY <1>6, <5>1
      <4>2. CASE ~doing(issue, "launch")
        BY <4>2 DEF Stages, Unstaged
      <4> QED
        BY <4>1, <4>2
    <3>4. record'.stage # "running"
      BY <1>1, <3>2, <3>3
    <3>5. journal.stage = "running" => record'.stage \notin {"", "starting"}
      BY <1>1 DEF Stages, Replayed
    <3>6. journal.stage \in {"", "running", "cleaning", "merged"} /\ Replayed' /\ TornInRecord'
      BY <1>11 DEF Stages, Replayed
    <3> QED
      BY <1>10, <3>4, <3>5, <3>6, LoadedStageNext
  <2> QED
    BY <2>1, <2>2 DEF Doubts
<1> QED
  BY <1>9, <1>11, <1>12

LEMMA LineWritten ==
  ASSUME FInv, up, UNCHANGED <<record, status, up, issue, call>>,
         issue.pending = None, call.at = "none", NEW step,
         journal'.pending = None, journal'.stage = journal.stage,
         journal'.deferred = (IF step = Held THEN "merge" ELSE journal.deferred),
         doubt' <=> doubt \/ step = Held,
         step = Held => HeldAhead /\ step # Kept("launch"),
         step # Kept("launch") => journal.pending # "launch",
         step = Kept("launch") => ~NotesAhead,
         todo' \in Seq(Steps), LaunchLast(todo'),
         UNCHANGED <<PhaseAhead, NotesAhead>>,
         HeldAhead' => HeldAhead, KeptMergeAhead' => KeptMergeAhead,
         KeptLaunchAhead' => KeptLaunchAhead
  PROVE  Fields' /\ Stages' /\ Doubts'
<1> USE DEF FInv
<1>0. TypeOK /\ Replayed /\ TornInRecord
  BY DEF IInv, Stages
<1>1. /\ held' = (IF journal'.deferred # None THEN journal'.deferred ELSE record.deferred)
      /\ held = (IF journal.deferred # None THEN journal.deferred ELSE record.deferred)
      /\ "merge" # None /\ UNCHANGED loaded_stage
  BY RecoveryConstants DEF held, loaded_stage
<1>2. held # None => held' # None
  BY <1>1
<1>3. Kind(call.at) = "merge" /\ ~doing(issue, "launch") /\ ~doing(issue, "merge")
  BY DEF Kind, doing
<1>4. Fields'
  <2>1. (PhaseKept /\ ArmedKept)'
    BY DEF Fields, PhaseKept, ArmedKept, Late, Copying
  <2>2. HeldKept'
    BY <1>2 DEF Fields, HeldKept, Late, Copying
  <2>3. (NothingArmed /\ HeadRuns)'
    BY <1>3 DEF Fields, NothingArmed, HeadRuns, doing
  <2>4. NothingArmedOnDisk'
    <3>1. SUFFICES ASSUME record.stage = "", journal.stage = "", held' = None
                   PROVE  ~record.armed
      BY DEF NothingArmedOnDisk
    <3>2. held = None
      BY <1>2, <3>1
    <3>3. CASE journal.pending # "launch"
      BY <3>1, <3>2, <3>3 DEF Fields, NothingArmedOnDisk
    <3>4. CASE journal.pending = "launch"
      <4>1. ~NotesAhead
        BY <3>4
      <4>2. loaded_stage = ""
        BY <1>0, <3>1, LoadedStage
      <4>3. issue.stage = ""
        BY <1>3, <4>1, <4>2 DEF Stages, StageKept
      <4>4. issue.deferred = None
        BY <3>2, <4>1 DEF Fields, HeldKept, Late
      <4> QED
        BY <1>3, <4>3, <4>4 DEF Fields, NothingArmed
    <3> QED
      BY <3>3, <3>4
  <2> QED
    BY <2>1, <2>2, <2>3, <2>4 DEF Fields
<1>5. Stages'
  <2>1. (StageKept /\ Replayed /\ Unstaged /\ TornInMemory /\ TornInRecord)'
    BY <1>1, RecoveryConstants
       DEF Stages, StageKept, Replayed, Unstaged, TornInMemory, TornInRecord
  <2>2. (PendingStage /\ LaunchUntorn)'
    BY RecoveryConstants DEF Stages, PendingStage, LaunchUntorn, doing
  <2>3. (LaunchBase /\ LaunchCalls)'
    BY <1>3 DEF Stages, LaunchBase, LaunchCalls, doing
  <2>4. LaunchOpen'
    BY RecoveryConstants DEF Stages, LaunchOpen
  <2> QED
    BY <2>1, <2>2, <2>3, <2>4 DEF Stages
<1>6. Doubts'
  <2>1. (HeldInDoubt /\ HeldNext)'
    BY <1>1 DEF Doubts, HeldInDoubt, HeldNext
  <2>2. (OffQueueInDoubt /\ OffQueueOnDisk /\ NoHeadInDoubt)'
    BY <1>3, RecoveryConstants
       DEF Doubts, Fields, PhaseKept, HeldNext, OffQueueInDoubt, OffQueueOnDisk, NoHeadInDoubt,
           doing
  <2> QED
    BY <2>1, <2>2 DEF Doubts
<1> QED
  BY <1>4, <1>5, <1>6

-----------------------------------------------------------------------------
(* The pump. *)

\* A line or a status is written.
LEMMA WriteFiles ==
  ASSUME FInv, Write
  PROVE  Fields' /\ Stages' /\ Doubts'
<1> USE DEF FInv
<1> DEFINE step == Head(todo)
<1>0. TypeOK /\ Replayed /\ TornInRecord
  BY DEF IInv, Stages
<1>1. up /\ UNCHANGED <<up, issue, call>> /\ todo # <<>> /\ todo' = Tail(todo)
  BY DEF Write
<1>2. todo \in Seq(Steps) /\ todo \in Seq(Step)
  BY <1>0 DEF Doubts, HeldNext, TypeOK
<1>3. step \in Steps /\ todo' \in Seq(Steps)
  BY <1>1, <1>2
<1>4. \A x : Contains(todo, x) <=> x = step \/ Contains(todo', x)
  BY <1>1, <1>2, ContainsTail
<1>5. /\ PhaseAhead <=> step = Status \/ PhaseAhead'
      /\ NotesAhead <=> step = Record \/ NotesAhead'
      /\ HeldAhead <=> step = Held \/ HeldAhead'
      /\ KeptMergeAhead <=> step = Kept("merge") \/ KeptMergeAhead'
      /\ KeptLaunchAhead <=> step = Kept("launch") \/ KeptLaunchAhead'
  BY <1>4 DEF PhaseAhead, NotesAhead, HeldAhead, KeptMergeAhead, KeptLaunchAhead
<1>14. /\ {PhaseAhead, NotesAhead, HeldAhead, KeptMergeAhead, KeptLaunchAhead} \subseteq BOOLEAN
       /\ {PhaseAhead', NotesAhead', HeldAhead', KeptMergeAhead', KeptLaunchAhead'}
            \subseteq BOOLEAN
  BY DEF PhaseAhead, NotesAhead, HeldAhead, KeptMergeAhead, KeptLaunchAhead, Contains
<1>6. /\ LaunchLast(todo')
      /\ step = Kept("launch") => ~(PhaseAhead \/ NotesAhead \/ HeldAhead \/ KeptMergeAhead
                                      \/ KeptLaunchAhead)'
  BY <1>1, <1>2, LaunchLastTail
     DEF Stages, LaunchOpen, PhaseAhead, NotesAhead, HeldAhead, KeptMergeAhead, KeptLaunchAhead
<1>7. issue.pending # None /\ issue.pending.phase = 1 => call.at # "none"
  BY <1>1 DEF Stages, PendingStage
<1>8. issue.pending # None => step.write \notin {"kept", "held"}
  <2>1. todo[1] = step /\ 1 \in 1 .. Len(todo)
    BY <1>1, <1>2
  <2> QED
    BY <2>1 DEF IInv, Intent, Quiet
<1>9. issue.pending = None => call.at = "none" /\ Kind(call.at) = "merge"
  BY DEF IInv, OneAction, Kind
<1> HIDE DEF step
<1>10. CASE step = Status
  <2>1. UNCHANGED <<journal, record, doubt>> /\ status' = issue.phase
    BY <1>10 DEF Write, step, Status
  <2>2. step # Record /\ step # Held /\ step # Kept("merge") /\ step # Kept("launch")
    BY <1>10, StepsApart DEF Action
  <2>3. UNCHANGED <<NotesAhead, HeldAhead, KeptMergeAhead, KeptLaunchAhead>>
    BY <1>5, <1>14, <2>2
  <2> QED
    BY <1>1, <1>3, <1>5, <1>6, <2>1, <2>3, StatusWritten
<1>11. CASE step = Record
  <2>1. UNCHANGED <<journal, status, doubt>> /\ record' = written
    BY <1>11 DEF Write, step, Record
  <2>2. step # Status /\ step # Held /\ step # Kept("merge") /\ step # Kept("launch")
    BY <1>11, StepsApart DEF Action
  <2>3. UNCHANGED <<PhaseAhead, HeldAhead, KeptMergeAhead, KeptLaunchAhead>> /\ NotesAhead
    BY <1>5, <1>11, <1>14, <2>2
  <2> QED
    BY <1>1, <1>3, <1>5, <1>6, <2>1, <2>3, RecordWritten
<1>12. CASE step \in {Held, Kept("merge"), Kept("launch")}
  <2>1. /\ UNCHANGED <<record, status>> /\ step.write \in {"kept", "held"}
        /\ journal' = noted(journal, step) /\ doubt' = (doubt \/ step.write = "held")
    BY <1>12 DEF Write, step, Held, Kept
  <2>2. issue.pending = None
    BY <1>8, <2>1
  <2>3. step # Status /\ step # Record
    BY <1>12, StepsApart DEF Action
  <2>4. /\ journal'.pending = None /\ journal'.stage = journal.stage
        /\ journal'.deferred = (IF step = Held THEN "merge" ELSE journal.deferred)
        /\ doubt' <=> doubt \/ step = Held
    <3>1. step.write = "held" <=> step = Held
      BY <1>12 DEF Held, Kept
    <3> QED
      BY <1>0, <2>1, <3>1 DEF noted, TypeOK, Replay
  <2>5. /\ step # Kept("launch") => journal.pending # "launch"
        /\ step = Kept("launch") => step # Held
    <3>1. Kept("launch") # Held /\ Kept("merge") # Kept("launch")
      BY StepsApart DEF Action
    <3> QED
      BY <1>1, <1>5, <1>12, <2>2, <3>1 DEF Stages, LaunchOpen, doing
  <2>6. UNCHANGED <<PhaseAhead, NotesAhead>>
    BY <1>5, <1>14, <2>3
  <2>7. step = Kept("launch") => ~NotesAhead
    BY <1>6, <2>6
  <2>8. step = Held => HeldAhead
    BY <1>5
  <2> QED
    BY <1>1, <1>3, <1>5, <1>6, <1>9, <2>1, <2>2, <2>4, <2>5, <2>6, <2>7, <2>8, LineWritten
<1> QED
  BY <1>3, <1>10, <1>11, <1>12 DEF Steps

\* Nothing is left to apply.
LEMMA NothingAhead ==
  ASSUME todo = <<>>
  PROVE  ~(PhaseAhead \/ NotesAhead \/ HeldAhead \/ KeptMergeAhead \/ KeptLaunchAhead)
BY ContainsFew DEF PhaseAhead, NotesAhead, HeldAhead, KeptMergeAhead, KeptLaunchAhead

\* With nothing to apply, the state thread is between two messages: the files
\* know what the memory knows.
LEMMA AtRest ==
  ASSUME FInv, up, todo = <<>>
  PROVE  /\ ~(PhaseAhead \/ NotesAhead \/ HeldAhead \/ KeptMergeAhead \/ KeptLaunchAhead)
         /\ status = issue.phase /\ record.armed = issue.armed
         /\ issue.deferred # None => held # None
         /\ Kind(call.at) \in {"merge", "checkpoint"} =>
              loaded_stage = issue.stage \/ (loaded_stage = "merged" /\ issue.stage \in Torn)
         /\ journal.pending = "launch" => doing(issue, "launch")
BY NothingAhead
   DEF FInv, Fields, Stages, PhaseKept, ArmedKept, HeldKept, StageKept, LaunchOpen, Late

LEMMA IntentFiles ==
  ASSUME FInv, WriteIntent
  PROVE  Fields' /\ Stages' /\ Doubts'
<1> USE DEF FInv
<1>0. TypeOK /\ Replayed /\ TornInRecord
  BY DEF IInv, Stages
<1>1. /\ up /\ todo = <<>> /\ issue.pending # None /\ issue.pending.phase = 0
      /\ UNCHANGED <<record, status, up, todo, call, doubt>>
      /\ issue' = [issue EXCEPT !.pending.phase = 1]
      /\ journal' = intended(journal, issue.pending.action)
  BY DEF WriteIntent, pumping, at
<1>2. issue \in Issue /\ issue.pending \in Pending
  BY <1>0, <1>1 DEF TypeOK, Issue
<1>3. /\ issue'.phase = issue.phase /\ issue'.stage = issue.stage
      /\ issue'.deferred = issue.deferred /\ issue'.armed = issue.armed
      /\ issue'.pending.action = issue.pending.action
      /\ issue'.pending.follow = issue.pending.follow
      /\ issue'.pending.phase = 1
      /\ issue'.pending # None
  <2>1. 1 \in 0 .. 2
    OBVIOUS
  <2>2. issue'.pending = [issue.pending EXCEPT !.phase = 1]
    BY <1>1, <1>2 DEF Issue
  <2>3. issue'.pending \in Pending
    BY <1>2, <2>1, <2>2 DEF Pending
  <2>4. /\ issue'.phase = issue.phase /\ issue'.stage = issue.stage
        /\ issue'.deferred = issue.deferred /\ issue'.armed = issue.armed
    BY <1>1, <1>2 DEF Issue
  <2>5. /\ issue'.pending.action = issue.pending.action
        /\ issue'.pending.follow = issue.pending.follow /\ issue'.pending.phase = 1
    BY <1>2, <2>2 DEF Pending
  <2> QED
    BY <2>3, <2>4, <2>5, NoneIsNoAction
<1>4. /\ journal'.pending = issue.pending.action /\ journal'.stage = journal.stage
      /\ journal'.deferred = journal.deferred
  BY <1>0, <1>1 DEF intended, TypeOK, Replay
<1>5. \A n : (n = 0 => n # 1 /\ n # 2) /\ (n = 1 => n # 0 /\ n # 2)
  OBVIOUS
<1>6. call.at = "none" /\ Kind(call.at) = "merge"
  BY <1>1, <1>5 DEF IInv, OneAction, Kind
<1>7. /\ ~(PhaseAhead \/ NotesAhead \/ HeldAhead \/ KeptMergeAhead \/ KeptLaunchAhead)
      /\ UNCHANGED <<PhaseAhead, NotesAhead, HeldAhead, KeptMergeAhead, KeptLaunchAhead>>
      /\ UNCHANGED <<loaded_stage, held>>
  BY <1>1, <1>4, NothingAhead
     DEF PhaseAhead, NotesAhead, HeldAhead, KeptMergeAhead, KeptLaunchAhead, loaded_stage, held
<1>8. /\ status = issue.phase
      /\ loaded_stage = issue.stage \/ (loaded_stage = "merged" /\ issue.stage \in Torn)
      /\ journal.pending = "launch" => doing(issue, "launch")
  BY <1>1, <1>6, AtRest
<1>9. Fields'
  <2>1. (PhaseKept /\ ArmedKept /\ HeldKept)'
    BY <1>1, <1>3, <1>4, <1>6, <1>7 DEF Fields, PhaseKept, ArmedKept, HeldKept, Late, Copying
  <2>2. NothingArmed'
    BY <1>1, <1>3, <1>5 DEF Fields, NothingArmed, doing
  <2>3. NothingArmedOnDisk'
    BY <1>1, <1>4, <1>7, <1>8 DEF Fields, NothingArmedOnDisk, doing
  <2>4. HeadRuns'
    BY <1>1, <1>3 DEF Fields, HeadRuns
  <2> QED
    BY <2>1, <2>2, <2>3, <2>4 DEF Fields
<1>10. Stages'
  <2>1. (StageKept /\ Replayed /\ Unstaged /\ TornInMemory)'
    BY <1>1, <1>3, <1>4, <1>7 DEF Stages, StageKept, Replayed, Unstaged, TornInMemory, doing
  <2>2. TornInRecord'
    <3>1. issue.pending.action = "cleanup" => issue.stage \in Torn
      BY <1>1 DEF Stages, PendingStage
    <3>2. issue.stage \in Torn => record.stage \in Torn
      BY <1>0, <1>8, LoadedStage DEF Replayed, Torn, TornInRecord
    <3>3. issue.pending.action # "owed"
      BY <1>2 DEF Pending, Action
    <3> QED
      BY <1>0, <1>1, <1>4, <3>1, <3>2, <3>3 DEF TornInRecord
  <2>3. PendingStage'
    BY <1>1, <1>3, <1>5 DEF Stages, PendingStage
  <2>4. LaunchUntorn'
    BY <1>1, <1>3, <1>4, <1>7 DEF Stages, LaunchUntorn, TornInMemory, doing
  <2>5. (LaunchBase /\ LaunchCalls)'
    BY <1>1, <1>3, <1>5, <1>6, <1>7 DEF Stages, LaunchBase, LaunchCalls, doing, Late
  <2>6. LaunchOpen'
    BY <1>1, <1>3, <1>4, <1>7 DEF Stages, LaunchOpen, doing
  <2> QED
    BY <2>1, <2>2, <2>3, <2>4, <2>5, <2>6 DEF Stages
<1>11. Doubts'
  <2>1. (HeldInDoubt /\ HeldNext /\ NoHeadInDoubt)'
    BY <1>1, <1>3, <1>4, <1>7 DEF Doubts, HeldInDoubt, HeldNext, NoHeadInDoubt
  <2>2. (OffQueueInDoubt /\ OffQueueOnDisk)'
    BY <1>1, <1>3, <1>4, <1>7, <1>8
       DEF Doubts, OffQueueInDoubt, OffQueueOnDisk, doing, queued, Torn
  <2> QED
    BY <2>1, <2>2 DEF Doubts
<1> QED
  BY <1>9, <1>10, <1>11

LEMMA CallFiles ==
  ASSUME FInv, StartCall
  PROVE  Fields' /\ Stages' /\ Doubts'
<1> USE DEF FInv
<1>1. /\ up /\ todo = <<>> /\ issue.pending # None /\ issue.pending.phase = 1
      /\ call.at = "none" /\ call'.head = queued(issue)
      /\ call'.at = (IF issue.pending.recovered THEN "reconcile" ELSE issue.pending.action)
      /\ UNCHANGED <<journal, record, status, up, issue, todo, doubt>>
  BY DEF StartCall, pumping, at, files
<1>2. /\ issue.pending.action \in Action
      /\ issue.pending.recovered => issue.pending.action = "merge"
  BY <1>1 DEF IInv, TypeOK, Issue, Pending, Recovered
<1>3. \A n : n = 1 => n # 0 /\ n # 2
  OBVIOUS
<1>4. /\ ~(PhaseAhead \/ NotesAhead \/ HeldAhead \/ KeptMergeAhead \/ KeptLaunchAhead)
      /\ UNCHANGED <<PhaseAhead, NotesAhead, HeldAhead, KeptMergeAhead, KeptLaunchAhead>>
      /\ UNCHANGED <<loaded_stage, held>>
  BY <1>1, NothingAhead
     DEF PhaseAhead, NotesAhead, HeldAhead, KeptMergeAhead, KeptLaunchAhead, loaded_stage, held
<1>5. /\ record.armed = issue.armed /\ (issue.deferred # None => held # None)
      /\ loaded_stage = issue.stage \/ (loaded_stage = "merged" /\ issue.stage \in Torn)
  BY <1>1, AtRest DEF Kind
<1>6. Kind(call'.at) = issue.pending.action /\ call'.at # "none"
        /\ call'.at \in {"merge", "reconcile", "cleanup", "checkpoint", "launch"}
  BY <1>1, <1>2 DEF Kind, Action
<1>7. Fields'
  <2>1. (PhaseKept /\ ArmedKept /\ HeldKept)'
    BY <1>1, <1>4, <1>5, <1>6 DEF Fields, PhaseKept, ArmedKept, HeldKept, Late, Copying
  <2>2. (NothingArmed /\ NothingArmedOnDisk)'
    BY <1>1, <1>4 DEF Fields, NothingArmed, NothingArmedOnDisk
  <2>3. HeadRuns'
    BY <1>1, <1>6 DEF HeadRuns, queued
  <2> QED
    BY <2>1, <2>2, <2>3 DEF Fields
<1>8. Stages'
  <2>1. (StageKept /\ Replayed /\ Unstaged /\ TornInMemory /\ TornInRecord)'
    BY <1>1, <1>4, <1>5 DEF Stages, StageKept, Replayed, Unstaged, TornInMemory, TornInRecord
  <2>2. (PendingStage /\ LaunchUntorn)'
    BY <1>1, <1>4, <1>6 DEF Stages, PendingStage, LaunchUntorn
  <2>3. (LaunchBase /\ LaunchCalls)'
    BY <1>1, <1>3, <1>4, <1>6 DEF Stages, LaunchBase, LaunchCalls, doing, Late
  <2>4. LaunchOpen'
    BY <1>1, <1>4 DEF Stages, LaunchOpen
  <2> QED
    BY <2>1, <2>2, <2>3, <2>4 DEF Stages
<1>9. Doubts'
  <2>1. (HeldInDoubt /\ HeldNext /\ OffQueueInDoubt /\ OffQueueOnDisk)'
    BY <1>1, <1>4 DEF Doubts, HeldInDoubt, HeldNext, OffQueueInDoubt, OffQueueOnDisk
  <2>2. NoHeadInDoubt'
    BY <1>1, <1>2, <1>6 DEF Doubts, OffQueueInDoubt, NoHeadInDoubt, doing, Kind
  <2> QED
    BY <2>1, <2>2 DEF Doubts
<1> QED
  BY <1>7, <1>8, <1>9

\* The record follows, and nothing else does.
LEMMA RecordNext ==
  ASSUME todo' = <<Record>>
  PROVE  /\ NotesAhead' /\ ~(PhaseAhead \/ HeldAhead \/ KeptMergeAhead \/ KeptLaunchAhead)'
         /\ LaunchLast(todo') /\ todo' \in Seq(Steps)
<1>1. Record \notin {Status, Held, Kept("merge"), Kept("launch")} /\ Record \in Steps
  BY StepsApart DEF Action, Steps
<1>2. todo' \in Seq(Steps)
  BY <1>1
<1> QED
  BY <1>1, <1>2, ContainsFew, LaunchLastFew
     DEF PhaseAhead, NotesAhead, HeldAhead, KeptMergeAhead, KeptLaunchAhead

LEMMA DoneFiles ==
  ASSUME FInv, WriteDone
  PROVE  Fields' /\ Stages' /\ Doubts'
<1> USE DEF FInv
<1>0. TypeOK /\ Replayed /\ TornInRecord
  BY DEF IInv, Stages
<1> DEFINE a == issue.pending.action
<1> DEFINE follow == IF a = "merge" THEN "cleanup" ELSE issue.pending.follow
<1>1. /\ up /\ todo = <<>> /\ issue.pending # None /\ issue.pending.phase = 2
      /\ UNCHANGED <<record, status, up, call, doubt>> /\ todo' = <<Record>>
      /\ issue' = closed(issue) /\ journal' = done(journal)
  BY DEF WriteDone, pumping, at
<1>2. issue \in Issue /\ issue.pending \in Pending /\ a \in Action
        /\ follow \in {None, "cleanup", "launch"}
  BY <1>0, <1>1 DEF TypeOK, Issue, Pending
<1>3. \A n : (n = 0 => n # 1 /\ n # 2) /\ (n = 2 => n # 0 /\ n # 1)
  OBVIOUS
<1>4. journal.pending = a /\ journal.pending # None
  BY <1>1, <1>2, <1>3, RecoveryConstants DEF IInv, Intent, Action
<1>5. /\ journal'.stage = finished(journal.stage, a) /\ journal'.deferred = journal.deferred
      /\ journal'.pending = IF a = "merge" THEN "owed" ELSE None
  BY <1>0, <1>1, <1>4 DEF done, TypeOK, Replay
<1>6. /\ issue'.phase = issue.phase /\ issue'.stage = finished(issue.stage, a)
      /\ issue'.deferred = issue.deferred /\ issue'.armed = issue.armed
      /\ issue'.pending = IF follow = None THEN None ELSE fresh(follow)
  BY <1>1, <1>2 DEF closed, Issue
<1> HIDE DEF follow
<1>7. issue'.pending # None =>
        /\ follow # None
        /\ issue'.pending.action = follow /\ issue'.pending.phase = 0
        /\ issue'.pending.follow = None
  BY <1>2, <1>6, FreshType DEF Action
<1>8. /\ a = "merge" => issue'.stage = "cleaning" /\ journal'.stage = "cleaning"
      /\ a = "cleanup" => issue'.stage = "merged" /\ journal'.stage = "merged"
      /\ a = "launch" => issue'.stage = "running" /\ journal'.stage = "running"
      /\ a = "checkpoint" => issue'.stage = issue.stage /\ journal'.stage = journal.stage
  BY <1>5, <1>6 DEF finished
<1>9. /\ follow = "launch" => a = "checkpoint" /\ issue.stage = "running"
      /\ follow = "cleanup" /\ a # "merge" => a = "checkpoint" /\ issue.stage \in Torn
      /\ a \in {"merge", "cleanup"} => issue.stage \in Torn
  BY <1>1, RecoveryConstants DEF Stages, PendingStage, follow
<1>10. call.at = "none" /\ Kind(call.at) = "merge"
  BY <1>1, <1>3 DEF IInv, OneAction, Kind
<1>11. /\ NotesAhead' /\ ~(PhaseAhead \/ HeldAhead \/ KeptMergeAhead \/ KeptLaunchAhead)'
       /\ LaunchLast(todo') /\ todo' \in Seq(Steps)
  BY <1>1, RecordNext
<1>12. /\ status = issue.phase
       /\ loaded_stage = issue.stage \/ (loaded_stage = "merged" /\ issue.stage \in Torn)
  BY <1>1, <1>10, AtRest
<1>13. issue.stage \in Torn => record.stage \in Torn
  BY <1>0, <1>12, LoadedStage DEF Replayed, Torn, TornInRecord
<1>14. UNCHANGED held
  BY <1>1, <1>5 DEF held
<1>15. journal'.pending \notin {"merge", "launch", "cleanup"}
  BY <1>5, RecoveryConstants
<1> HIDE DEF a
<1>16. a \in {"merge", "cleanup", "checkpoint", "launch"}
  BY <1>2 DEF Action
<1>17. doing(issue, a) /\ (doing(issue, "launch") <=> a = "launch")
  BY <1>1 DEF doing, a
<1>18. Fields'
  <2>1. (PhaseKept /\ ArmedKept /\ HeldKept)'
    BY <1>1, <1>6, <1>10, <1>11, <1>12 DEF PhaseKept, ArmedKept, HeldKept, Late, Copying
  <2>2. NothingArmed'
    BY <1>1, <1>6, <1>8, <1>16, <1>17 DEF Fields, NothingArmed
  <2>3. NothingArmedOnDisk'
    BY <1>1, <1>4, <1>8, <1>14, <1>16 DEF Fields, NothingArmedOnDisk
  <2>4. HeadRuns'
    BY <1>1, <1>10 DEF HeadRuns
  <2> QED
    BY <2>1, <2>2, <2>3, <2>4 DEF Fields
<1>19. Stages'
  <2>1. StageKept'
    BY <1>11 DEF StageKept
  <2>2. (Replayed /\ Unstaged)'
    BY <1>0, <1>1, <1>8, <1>16, <1>17 DEF Stages, Replayed, Unstaged
  <2>3. TornInMemory'
    BY <1>1, <1>4, <1>8, <1>16 DEF Stages, TornInMemory, LaunchUntorn, Torn
  <2>4. TornInRecord'
    BY <1>0, <1>1, <1>5, <1>8, <1>9, <1>13, <1>16, RecoveryConstants DEF TornInRecord
  <2>5. PendingStage'
    BY <1>2, <1>3, <1>7, <1>8, <1>9, RecoveryConstants DEF PendingStage, Torn
  <2>6. LaunchUntorn'
    BY <1>7, <1>8, <1>9, <1>11, <1>15 DEF LaunchUntorn, Torn, doing
  <2>7. (LaunchBase /\ LaunchCalls)'
    BY <1>1, <1>7, <1>8, <1>9, <1>10, <1>11 DEF LaunchBase, LaunchCalls, Late, doing
  <2>8. LaunchOpen'
    BY <1>11, <1>15 DEF LaunchOpen
  <2> QED
    BY <2>1, <2>2, <2>3, <2>4, <2>5, <2>6, <2>7, <2>8 DEF Stages
<1>20. Doubts'
  <2>1. (HeldInDoubt /\ HeldNext /\ NoHeadInDoubt)'
    BY <1>1, <1>5, <1>6, <1>11 DEF Doubts, HeldInDoubt, HeldNext, NoHeadInDoubt
  <2>2. (OffQueueInDoubt /\ OffQueueOnDisk)'
    BY <1>1, <1>2, <1>6, <1>7, <1>12, <1>15, RecoveryConstants
       DEF OffQueueInDoubt, OffQueueOnDisk, doing
  <2> QED
    BY <2>1, <2>2 DEF Doubts
<1> QED
  BY <1>18, <1>19, <1>20

-----------------------------------------------------------------------------
(* The messages. *)

LEMMA Numbers ==
  \A n : /\ n = 0 => n # 1 /\ n # 2
         /\ n = 1 => n # 0 /\ n # 2
         /\ n = 2 => n # 0 /\ n # 1
OBVIOUS

\* An action is armed, or the one in flight gets a follower.
LEMMA PendingMoves ==
  ASSUME FInv, up, todo = <<>>, NEW p \in Pending,
         issue' = [issue EXCEPT !.pending = p],
         UNCHANGED <<journal, record, status, up, todo, call, doubt>>,
         p.follow # None =>
           p.follow = "launch" /\ p.action = "checkpoint" /\ issue.stage = "running",
         \/ /\ issue.pending = None /\ p.phase = 0
            /\ p.action \in {"merge", "checkpoint", "launch"}
            /\ p.action = "launch" => issue.stage = "" /\ issue.deferred = None
            /\ p.action = "merge" /\ doubt => ~queued(issue)
         \/ /\ issue.pending # None /\ issue.pending.phase = 1 /\ call.at # "none"
            /\ p.phase = issue.pending.phase
            /\ p.action = "checkpoint" /\ issue.pending.action = "checkpoint"
  PROVE  Fields' /\ Stages' /\ Doubts'
<1> USE DEF FInv
<1>0. TypeOK /\ issue \in Issue
  BY DEF IInv, TypeOK
<1>1. /\ issue'.phase = issue.phase /\ issue'.stage = issue.stage
      /\ issue'.deferred = issue.deferred /\ issue'.armed = issue.armed
      /\ issue'.pending = p /\ p # None
  BY <1>0, NoneIsNoAction DEF Issue
<1>2. \A n : (n = 0 => n # 1 /\ n # 2) /\ (n = 1 => n # 0 /\ n # 2)
  BY Numbers
<1>3. issue.pending = None => call.at = "none" /\ Kind(call.at) = "merge"
  BY DEF IInv, OneAction, Kind
<1>4. /\ ~(PhaseAhead \/ NotesAhead \/ HeldAhead \/ KeptMergeAhead \/ KeptLaunchAhead)
      /\ UNCHANGED <<PhaseAhead, NotesAhead, HeldAhead, KeptMergeAhead, KeptLaunchAhead>>
      /\ UNCHANGED <<loaded_stage, held>>
  BY NothingAhead
     DEF PhaseAhead, NotesAhead, HeldAhead, KeptMergeAhead, KeptLaunchAhead, loaded_stage, held
<1>5. journal.pending = "launch" => doing(issue, "launch")
  BY AtRest
<1>6. Fields'
  <2>1. (PhaseKept /\ ArmedKept /\ HeldKept)'
    BY <1>1, <1>4 DEF Fields, PhaseKept, ArmedKept, HeldKept, Late, Copying
  <2>2. NothingArmed'
    BY <1>1, <1>2 DEF Fields, NothingArmed, doing
  <2>3. (NothingArmedOnDisk /\ HeadRuns)'
    BY <1>1, <1>4 DEF Fields, NothingArmedOnDisk, HeadRuns
  <2> QED
    BY <2>1, <2>2, <2>3 DEF Fields
<1>7. Stages'
  <2>1. (StageKept /\ Replayed /\ Unstaged)'
    BY <1>1, <1>4 DEF Stages, StageKept, Replayed, Unstaged, doing
  <2>2. (TornInMemory /\ TornInRecord)'
    BY <1>1 DEF Stages, TornInMemory, TornInRecord
  <2>3. PendingStage'
    BY <1>1, <1>2, RecoveryConstants DEF PendingStage
  <2>4. LaunchUntorn'
    BY <1>1, <1>4 DEF Stages, LaunchUntorn, doing, Torn
  <2>5. (LaunchBase /\ LaunchCalls)'
    BY <1>1, <1>3, <1>4 DEF Stages, LaunchBase, LaunchCalls, Unstaged, doing, Late
  <2>6. LaunchOpen'
    BY <1>1, <1>4, <1>5 DEF Stages, LaunchOpen, doing
  <2> QED
    BY <2>1, <2>2, <2>3, <2>4, <2>5, <2>6 DEF Stages
<1>8. Doubts'
  <2>1. (HeldInDoubt /\ HeldNext /\ NoHeadInDoubt)'
    BY <1>1, <1>4 DEF Doubts, HeldInDoubt, HeldNext, NoHeadInDoubt
  <2>2. (OffQueueInDoubt /\ OffQueueOnDisk)'
    BY <1>1, <1>4 DEF Doubts, OffQueueInDoubt, OffQueueOnDisk, doing, queued
  <2> QED
    BY <2>1, <2>2 DEF Doubts
<1> QED
  BY <1>6, <1>7, <1>8

LEMMA ArmFiles ==
  ASSUME FInv, ArmDisarm \/ ArmLaunch \/ Check \/ Wave
  PROVE  Fields' /\ Stages' /\ Doubts'
<1>1. PICK a \in {"merge", "launch", "checkpoint"} :
        /\ issue' = [issue EXCEPT !.pending = fresh(a)]
        /\ issue.pending = None /\ up /\ todo = <<>>
        /\ UNCHANGED <<journal, record, status, up, todo, call, doubt>>
        /\ a = "launch" => issue.stage = "" /\ issue.deferred = None
        /\ a = "merge" => ~queued(issue) \/ issue.deferred = None
  BY DEF ArmDisarm, ArmLaunch, Check, Wave, idle, armable, arm_merge, files
<1>2. /\ fresh(a) \in Pending /\ fresh(a).action = a /\ fresh(a).phase = 0
      /\ fresh(a).follow = None
  BY FreshType DEF Action
<1>3. a = "merge" /\ doubt => ~queued(issue)
  BY <1>1 DEF FInv, Doubts, HeldInDoubt
<1> HIDE DEF fresh
<1> QED
  BY <1>1, <1>2, <1>3, PendingMoves

LEMMA GoneFiles ==
  ASSUME FInv, Gone
  PROVE  Fields' /\ Stages' /\ Doubts'
<1> DEFINE q == IF issue.pending = None THEN fresh("checkpoint") ELSE issue.pending
<1> DEFINE p == [q EXCEPT !.follow = "launch"]
<1>0. TypeOK /\ issue \in Issue
  BY DEF FInv, IInv, TypeOK
<1>1. /\ up /\ todo = <<>> /\ (issue.pending = None \/ call.at # "none")
      /\ issue.stage = "running" /\ issue' = [issue EXCEPT !.pending = p]
      /\ issue.pending = None \/ doing(issue, "checkpoint")
      /\ UNCHANGED <<journal, record, status, up, todo, call, doubt>>
  BY <1>0 DEF Gone, idle, files, Issue
<1>2. /\ fresh("checkpoint") \in Pending /\ fresh("checkpoint").action = "checkpoint"
      /\ fresh("checkpoint").phase = 0
  BY FreshType DEF Action
<1>3. q \in Pending /\ q.action = "checkpoint"
      /\ q.phase = (IF issue.pending = None THEN 0 ELSE issue.pending.phase)
  BY <1>0, <1>1, <1>2 DEF Issue, doing
<1> HIDE DEF q
<1>4. p \in Pending /\ p.action = "checkpoint" /\ p.phase = q.phase /\ p.follow = "launch"
  BY <1>3 DEF Pending
<1> HIDE DEF p
<1>5. issue.pending # None => issue.pending.phase = 1
  BY <1>1, InFlight
<1> QED
  BY <1>1, <1>3, <1>4, <1>5, PendingMoves DEF doing

LEMMA DetectFiles ==
  ASSUME FInv, Detect
  PROVE  Fields' /\ Stages' /\ Doubts'
<1> USE DEF FInv
<1>0. TypeOK /\ issue \in Issue
  BY DEF IInv, TypeOK
<1>1. /\ up /\ todo = <<>> /\ (issue.pending = None \/ call.at # "none")
      /\ issue.stage = "running" /\ issue' = merged(issue)
      /\ issue.pending = None \/ doing(issue, "checkpoint")
      /\ todo' = <<Record>> /\ ~doubt'
      /\ UNCHANGED <<journal, record, status, up, call>>
  BY DEF Detect, idle, detects, files
<1>2. /\ issue'.phase = issue.phase /\ issue'.stage = "cleaning" /\ issue'.deferred = None
      /\ issue'.armed = issue.armed
      /\ issue'.pending = IF issue.pending = None THEN fresh("cleanup")
                          ELSE [issue.pending EXCEPT !.follow = "cleanup"]
  BY <1>0, <1>1 DEF merged, Issue
<1>3. issue.pending # None =>
        /\ issue.pending \in Pending /\ issue.pending.phase = 1
        /\ issue.pending.action = "checkpoint" /\ call.at # "none"
        /\ Kind(call.at) = "checkpoint" /\ journal.pending = "checkpoint"
  BY <1>1, InFlight DEF doing
<1>4. issue.pending = None => call.at = "none" /\ Kind(call.at) = "merge"
  BY DEF IInv, OneAction, Kind
<1>5. /\ issue'.pending # None
      /\ issue'.pending.action \in {"cleanup", "checkpoint"}
      /\ issue'.pending.follow \in {None, "cleanup"}
      /\ issue'.pending.follow = "cleanup" => issue'.pending.action = "checkpoint"
      /\ issue'.pending.phase = 0 \/ (issue'.pending.phase = 1 /\ call.at # "none")
  <2>1. CASE issue.pending = None
    BY <1>2, <2>1, FreshType, NoneIsNoAction, RecoveryConstants DEF Action
  <2>2. CASE issue.pending # None
    <3>1. issue'.pending = [issue.pending EXCEPT !.follow = "cleanup"]
      BY <1>2, <2>2
    <3>2. /\ issue'.pending \in Pending /\ issue'.pending.action = "checkpoint"
          /\ issue'.pending.follow = "cleanup" /\ issue'.pending.phase = 1
      BY <1>3, <2>2, <3>1 DEF Pending
    <3> QED
      BY <1>3, <2>2, <3>2, NoneIsNoAction
  <2> QED
    BY <2>1, <2>2
<1>6. \A n : (n = 0 => n # 1 /\ n # 2) /\ (n = 1 => n # 0 /\ n # 2)
  OBVIOUS
<1>7. /\ NotesAhead' /\ ~(PhaseAhead \/ HeldAhead \/ KeptMergeAhead \/ KeptLaunchAhead)'
      /\ LaunchLast(todo') /\ todo' \in Seq(Steps)
  BY <1>1, RecordNext
<1>8. /\ status = issue.phase /\ record.armed = issue.armed
      /\ journal.pending = "launch" => doing(issue, "launch")
  BY <1>1, AtRest
<1>9. /\ ~(journal.pending = "launch") /\ UNCHANGED <<loaded_stage, held, Copying>>
      /\ Kind(call.at) \notin {"launch", "cleanup"}
  BY <1>1, <1>3, <1>4, <1>8 DEF loaded_stage, held, Copying, doing
<1>10. Fields'
  <2>1. (PhaseKept /\ ArmedKept /\ HeldKept)'
    BY <1>1, <1>2, <1>8, <1>9 DEF Fields, PhaseKept, ArmedKept, HeldKept
  <2>2. (NothingArmed /\ NothingArmedOnDisk)'
    BY <1>1, <1>2, <1>9 DEF Fields, NothingArmed, NothingArmedOnDisk
  <2>3. HeadRuns'
    <3>1. Kind(call.at) = "checkpoint" =>
            call.at \notin {"merge", "merged", "waiting", "unarmed", "kept", "fix", "uncertain"}
      BY DEF Kind
    <3> QED
      BY <1>1, <1>3, <1>4, <3>1 DEF HeadRuns
  <2> QED
    BY <2>1, <2>2, <2>3 DEF Fields
<1>11. Stages'
  <2>1. (StageKept /\ Replayed /\ Unstaged /\ TornInMemory /\ TornInRecord)'
    BY <1>1, <1>2, <1>7 DEF Stages, StageKept, Replayed, Unstaged, TornInMemory, TornInRecord,
       Torn
  <2>2. PendingStage'
    BY <1>1, <1>2, <1>5, <1>6, RecoveryConstants DEF PendingStage, Torn
  <2>3. LaunchUntorn'
    BY <1>1, <1>5, <1>7, <1>9 DEF Stages, LaunchUntorn, doing
  <2>4. (LaunchBase /\ LaunchCalls)'
    BY <1>1, <1>5, <1>9 DEF Stages, LaunchBase, LaunchCalls, doing
  <2>5. LaunchOpen'
    BY <1>1, <1>7, <1>9 DEF Stages, LaunchOpen
  <2> QED
    BY <2>1, <2>2, <2>3, <2>4, <2>5 DEF Stages
<1>12. Doubts'
  BY <1>1, <1>7
     DEF Doubts, HeldInDoubt, HeldNext, OffQueueInDoubt, OffQueueOnDisk, NoHeadInDoubt
<1> QED
  BY <1>10, <1>11, <1>12

\* What a report changes.
LEMMA ReportedFields ==
  ASSUME NEW s \in Issue, NEW phase \in Phase
  PROVE  /\ reported(s, phase).phase = phase
         /\ reported(s, phase).stage = IF adopted(s) THEN "running" ELSE s.stage
         /\ reported(s, phase).deferred = IF s.phase # phase THEN None ELSE s.deferred
         /\ reported(s, phase).armed = s.armed
         /\ s.pending # None => reported(s, phase).pending = s.pending
         /\ s.pending = None =>
              \/ reported(s, phase).pending = None
              \/ /\ reported(s, phase).pending = fresh("merge")
                 /\ reported(s, phase).deferred = None
<1> DEFINE moved == IF adopted(s) THEN [s EXCEPT !.stage = "running"] ELSE s
<1> DEFINE kept == IF s.phase # phase THEN [moved EXCEPT !.deferred = None] ELSE moved
<1> DEFINE new == noted_phase(kept, phase)
<1>1. /\ moved \in Issue /\ moved.pending = s.pending /\ moved.armed = s.armed
      /\ moved.stage = (IF adopted(s) THEN "running" ELSE s.stage)
      /\ moved.deferred = s.deferred
  BY DEF Issue, Stage
<1>2. /\ kept \in Issue /\ kept.pending = s.pending /\ kept.armed = s.armed
      /\ kept.stage = moved.stage
      /\ kept.deferred = (IF s.phase # phase THEN None ELSE s.deferred)
  BY <1>1 DEF Issue, Hold
<1> HIDE DEF moved, kept
<1>3. /\ new \in Issue /\ new.phase = phase /\ new.stage = kept.stage
      /\ new.deferred = kept.deferred /\ new.armed = s.armed /\ new.pending = s.pending
  BY <1>2 DEF noted_phase, Issue
<1>4. reported(s, phase) = IF phase = "ready" THEN arm_merge(new) ELSE new
  BY DEF reported, moved, kept
<1> HIDE DEF new
<1>5. /\ arm_merge(new).phase = new.phase /\ arm_merge(new).stage = new.stage
      /\ arm_merge(new).deferred = new.deferred /\ arm_merge(new).armed = new.armed
      /\ \/ arm_merge(new).pending = new.pending
         \/ /\ new.pending = None /\ new.deferred = None
            /\ arm_merge(new).pending = fresh("merge")
  BY <1>3 DEF arm_merge, armable, Issue
<1> QED
  BY <1>1, <1>2, <1>3, <1>4, <1>5

LEMMA ReportSteps ==
  /\ todo' = <<Status>> =>
       /\ PhaseAhead' /\ ~(NotesAhead \/ HeldAhead \/ KeptMergeAhead \/ KeptLaunchAhead)'
       /\ LaunchLast(todo') /\ todo' \in Seq(Steps)
  /\ todo' = <<Status, Record>> =>
       /\ PhaseAhead' /\ NotesAhead' /\ ~(HeldAhead \/ KeptMergeAhead \/ KeptLaunchAhead)'
       /\ LaunchLast(todo') /\ todo' \in Seq(Steps)
<1> USE DEF PhaseAhead, NotesAhead, HeldAhead, KeptMergeAhead, KeptLaunchAhead
<1>1. /\ {Record, Status} \cap {Held, Kept("merge"), Kept("launch")} = {}
      /\ Record # Status /\ Record \in Steps /\ Status \in Steps
  BY StepsApart DEF Action, Steps
<1>2. ASSUME todo' = <<Status>>
      PROVE  todo' \in Seq(Steps)
  BY <1>1, <1>2
<1>3. ASSUME todo' = <<Status, Record>>
      PROVE  todo' \in Seq(Steps)
  BY <1>1, <1>3
<1>4. ASSUME todo' = <<Status>>
      PROVE  /\ PhaseAhead' /\ ~(NotesAhead \/ HeldAhead \/ KeptMergeAhead \/ KeptLaunchAhead)'
             /\ LaunchLast(todo')
  BY <1>1, <1>4, ContainsFew, LaunchLastFew
<1>5. ASSUME todo' = <<Status, Record>>
      PROVE  /\ PhaseAhead' /\ NotesAhead'
             /\ ~(HeldAhead \/ KeptMergeAhead \/ KeptLaunchAhead)'
             /\ LaunchLast(todo')
  BY <1>1, <1>5, ContainsFew, LaunchLastFew
<1> QED
  BY <1>2, <1>3, <1>4, <1>5

LEMMA ReportFiles ==
  ASSUME FInv, NEW phase \in {"running", "ready"}, Report(phase)
  PROVE  Fields' /\ Stages' /\ Doubts'
<1> USE DEF FInv
<1>0. TypeOK /\ issue \in Issue /\ phase \in Phase
  BY DEF IInv, TypeOK, Phase
<1>1. /\ up /\ todo = <<>> /\ (issue.pending = None \/ call.at # "none")
      /\ issue' = reported(issue, phase)
      /\ todo' = (IF adopted(issue) \/ issue.phase # phase THEN <<Status, Record>>
                  ELSE <<Status>>)
      /\ doubt' = (doubt /\ issue.phase = phase /\ ~adopted(issue))
      /\ UNCHANGED <<journal, record, status, up, call>>
  BY DEF Report, idle, files
<1>2. /\ issue'.phase = phase
      /\ issue'.stage = (IF adopted(issue) THEN "running" ELSE issue.stage)
      /\ issue'.deferred = (IF issue.phase # phase THEN None ELSE issue.deferred)
      /\ issue'.armed = issue.armed
      /\ issue.pending # None => issue'.pending = issue.pending
      /\ issue.pending = None =>
           issue'.pending = None \/ (issue'.pending = fresh("merge") /\ issue'.deferred = None)
  BY <1>0, <1>1, ReportedFields
<1>3. issue.pending # None =>
        /\ issue.pending.phase = 1 /\ issue.pending.phase # 0 /\ issue.pending.phase # 2
        /\ call.at # "none" /\ issue.pending.action = Kind(call.at)
  BY <1>1, InFlight
<1>4. /\ fresh("merge").action = "merge" /\ fresh("merge").phase = 0
      /\ fresh("merge").phase # 1 /\ fresh("merge").phase # 2 /\ fresh("merge").follow = None
  BY FreshType, Numbers DEF Action
<1>5. call.at # "none" => issue.pending # None
  BY InFlight
<1>6. /\ PhaseAhead' /\ (NotesAhead' <=> adopted(issue) \/ issue.phase # phase)
      /\ ~(HeldAhead \/ KeptMergeAhead \/ KeptLaunchAhead)'
      /\ LaunchLast(todo') /\ todo' \in Seq(Steps)
  BY <1>1, ReportSteps, Zenon
<1>7. /\ ~NotesAhead /\ status = issue.phase /\ record.armed = issue.armed
      /\ Kind(call.at) \in {"merge", "checkpoint"} =>
           loaded_stage = issue.stage \/ (loaded_stage = "merged" /\ issue.stage \in Torn)
      /\ journal.pending = "launch" => doing(issue, "launch")
      /\ issue.deferred # None => held # None
  BY <1>1, AtRest
<1>8. UNCHANGED <<loaded_stage, held, Copying>>
  BY <1>1 DEF loaded_stage, held, Copying
<1>9. /\ adopted(issue) => issue.stage \notin Torn \cup {"running"} /\ ~doing(issue, "launch")
      /\ issue.stage = "" /\ ~adopted(issue) => doing(issue, "launch")
  BY DEF adopted, Unsure, Torn
<1>10. /\ doing(issue, "launch") => doing(issue, "launch")' /\ ~adopted(issue)
       /\ doing(issue, "launch")' => doing(issue, "launch")
       /\ doing(issue, "merge")' => doing(issue, "merge") \/ issue'.deferred = None
  BY <1>2, <1>4, <1>9 DEF doing
<1>11. Fields'
  <2>1. (PhaseKept /\ ArmedKept /\ HeldKept)'
    BY <1>1, <1>2, <1>6, <1>7, <1>8 DEF Fields, PhaseKept, ArmedKept, HeldKept
  <2>2. NothingArmed'
    BY <1>1, <1>2, <1>3, <1>9, <1>10 DEF NothingArmed, doing
  <2>3. (NothingArmedOnDisk /\ HeadRuns)'
    BY <1>1, <1>2, <1>8, <1>9 DEF Fields, NothingArmedOnDisk, HeadRuns
  <2> QED
    BY <2>1, <2>2, <2>3 DEF Fields
<1>12. Stages'
  <2>1. StageKept'
    BY <1>1, <1>2, <1>6, <1>7, <1>8 DEF StageKept
  <2>2. (Replayed /\ Unstaged)'
    BY <1>1, <1>2, <1>9, <1>10 DEF Stages, Replayed, Unstaged
  <2>3. (TornInMemory /\ TornInRecord)'
    BY <1>1, <1>2, <1>9 DEF Stages, TornInMemory, TornInRecord
  <2>4. PendingStage'
    BY <1>1, <1>2, <1>3, <1>4, <1>9, RecoveryConstants DEF Stages, PendingStage
  <2>5. LaunchUntorn'
    BY <1>1, <1>2, <1>6, <1>10 DEF Stages, LaunchUntorn, Torn
  <2>6. LaunchBase'
    BY <1>1, <1>2, <1>3, <1>7, <1>10 DEF Stages, LaunchBase, Late, doing
  <2>7. LaunchCalls'
    <3>1. Kind(call.at) = "launch" => doing(issue, "launch")
      BY <1>3, <1>5 DEF doing, Kind
    <3> QED
      BY <1>1, <1>2, <1>10, <3>1 DEF Stages, LaunchCalls
  <2>8. LaunchOpen'
    BY <1>1, <1>6, <1>7, <1>10 DEF LaunchOpen
  <2> QED
    BY <2>1, <2>2, <2>3, <2>4, <2>5, <2>6, <2>7, <2>8 DEF Stages
<1>13. Doubts'
  <2>1. (HeldInDoubt /\ HeldNext /\ NoHeadInDoubt)'
    BY <1>1, <1>2, <1>6 DEF Doubts, HeldInDoubt, HeldNext, NoHeadInDoubt
  <2>2. OffQueueInDoubt'
    <3>1. SUFFICES ASSUME doubt' PROVE OffQueueInDoubt'
      BY DEF OffQueueInDoubt
    <3>2. /\ doubt /\ issue'.phase = issue.phase /\ issue'.stage = issue.stage
          /\ issue'.deferred # None
      BY <1>1, <1>2, <3>1 DEF Doubts, HeldInDoubt
    <3> QED
      BY <1>1, <1>10, <3>2 DEF Doubts, OffQueueInDoubt, queued
  <2>3. OffQueueOnDisk'
    BY <1>1, <1>8 DEF Doubts, OffQueueOnDisk
  <2> QED
    BY <2>1, <2>2, <2>3 DEF Doubts
<1> QED
  BY <1>11, <1>12, <1>13

-----------------------------------------------------------------------------
(* The answers. *)

LEMMA StepTypes == Steps \subseteq Step /\ Seq(Steps) \subseteq Seq(Step)
<1>1. Steps \subseteq Step
  BY ConstantTypes DEF Steps, Action
<1> QED
  BY <1>1

\* The line that ends a merge, the record if it is due, and the rest.
LEMMA KeptSteps ==
  ASSUME NEW due \in {<<>>, <<Record>>}, NEW rest \in {<<>>, <<Status, Record>>},
         NEW steps, steps = <<Kept("merge")>> \o due \o rest
  PROVE  /\ steps \in Seq(Steps) /\ LaunchLast(steps)
         /\ Contains(steps, Status) <=> rest # <<>>
         /\ Contains(steps, Record) <=> (due # <<>> \/ rest # <<>>)
         /\ ~Contains(steps, Held) /\ ~Contains(steps, Kept("launch"))
<1>1. /\ Kept("merge") \notin {Record, Status, Held, Kept("launch")}
      /\ Record \notin {Status, Held, Kept("launch")} /\ Status \notin {Held, Kept("launch")}
      /\ {Kept("merge"), Record, Status} \subseteq Steps
  BY StepsApart DEF Action, Steps
<1>2. /\ <<Kept("merge")>> \in Seq(Steps) /\ <<>> \in Seq(Steps) /\ <<Record>> \in Seq(Steps)
      /\ <<Status, Record>> \in Seq(Steps)
  BY <1>1
<1>3. /\ due \in Seq(Steps) /\ rest \in Seq(Steps)
      /\ <<Kept("merge")>> \o due \in Seq(Steps) /\ steps \in Seq(Steps)
  <2>1. \A s, t \in Seq(Steps) : s \o t \in Seq(Steps)
    OBVIOUS
  <2>2. due \in Seq(Steps) /\ rest \in Seq(Steps)
    BY <1>2, Zenon
  <2>3. <<Kept("merge")>> \o due \in Seq(Steps)
    BY <1>2, <2>1, <2>2, Zenon
  <2> QED
    BY <2>1, <2>2, <2>3, Zenon
<1>4. ASSUME NEW step
      PROVE  Contains(steps, step) <=>
               step = Kept("merge") \/ Contains(due, step) \/ Contains(rest, step)
  <2>1. /\ <<Kept("merge")>> \in Seq(Step) /\ due \in Seq(Step) /\ rest \in Seq(Step)
        /\ <<Kept("merge")>> \o due \in Seq(Step)
    BY <1>2, <1>3, StepTypes, Zenon
  <2>2. Contains(steps, step) <=>
          Contains(<<Kept("merge")>> \o due, step) \/ Contains(rest, step)
    BY <2>1, ContainsConcat, Zenon
  <2>3. Contains(<<Kept("merge")>> \o due, step) <=>
          Contains(<<Kept("merge")>>, step) \/ Contains(due, step)
    BY <2>1, ContainsConcat, Zenon
  <2>4. Contains(<<Kept("merge")>>, step) <=> step = Kept("merge")
    BY ContainsFew, Zenon
  <2> QED
    BY <2>2, <2>3, <2>4, Zenon
<1>5. /\ <<Status, Record>> # <<>> /\ <<Record>> # <<>>
      /\ \A step : Contains(due, step) <=> due # <<>> /\ step = Record
      /\ \A step : Contains(rest, step) <=> rest # <<>> /\ (step = Record \/ step = Status)
  <2>1. <<Status, Record>> # <<>> /\ <<Record>> # <<>>
    OBVIOUS
  <2>2. ASSUME NEW step PROVE Contains(due, step) <=> due # <<>> /\ step = Record
    <3>1. CASE due = <<>>
      BY <3>1, ContainsFew
    <3>2. CASE due = <<Record>>
      BY <2>1, <3>2, ContainsFew
    <3> QED
      BY <3>1, <3>2
  <2>3. ASSUME NEW step
        PROVE  Contains(rest, step) <=> rest # <<>> /\ (step = Record \/ step = Status)
    <3>1. CASE rest = <<>>
      BY <3>1, ContainsFew
    <3>2. CASE rest = <<Status, Record>>
      BY <2>1, <3>2, ContainsFew
    <3> QED
      BY <3>1, <3>2
  <2> QED
    BY <2>1, <2>2, <2>3
<1>6. /\ Contains(steps, Status) <=> rest # <<>>
      /\ Contains(steps, Record) <=> (due # <<>> \/ rest # <<>>)
      /\ ~Contains(steps, Held) /\ ~Contains(steps, Kept("launch"))
  BY <1>1, <1>4, <1>5, Zenon
<1>7. LaunchLast(steps)
  BY <1>6 DEF LaunchLast, Contains
<1> QED
  BY <1>3, <1>6, <1>7

LEMMA AnswerSteps ==
  /\ todo' = <<>> =>
       /\ ~(PhaseAhead \/ NotesAhead \/ HeldAhead \/ KeptMergeAhead \/ KeptLaunchAhead)'
       /\ LaunchLast(todo') /\ todo' \in Seq(Steps)
  /\ todo' = <<Held, Record>> =>
       /\ HeldAhead' /\ NotesAhead' /\ ~(PhaseAhead \/ KeptMergeAhead \/ KeptLaunchAhead)'
       /\ LaunchLast(todo') /\ todo' \in Seq(Steps)
  /\ todo' = <<Record, Kept("launch")>> =>
       /\ NotesAhead' /\ KeptLaunchAhead' /\ ~(PhaseAhead \/ HeldAhead \/ KeptMergeAhead)'
       /\ LaunchLast(todo') /\ todo' \in Seq(Steps)
<1> USE DEF PhaseAhead, NotesAhead, HeldAhead, KeptMergeAhead, KeptLaunchAhead
<1>1. /\ Kept("merge") \notin {Record, Status, Held, Kept("launch")}
      /\ Record \notin {Status, Held, Kept("launch")} /\ Held \notin {Status, Kept("launch")}
      /\ Status # Kept("launch")
      /\ {Held, Record, Kept("launch")} \subseteq Steps
  BY StepsApart DEF Action, Steps
<1>2. ASSUME todo' = <<>> PROVE todo' \in Seq(Steps)
  BY <1>2
<1>3. ASSUME todo' = <<Held, Record>> PROVE todo' \in Seq(Steps)
  BY <1>1, <1>3
<1>4. ASSUME todo' = <<Record, Kept("launch")>> PROVE todo' \in Seq(Steps)
  BY <1>1, <1>4
<1>5. ASSUME todo' = <<>>
      PROVE  /\ ~(PhaseAhead \/ NotesAhead \/ HeldAhead \/ KeptMergeAhead \/ KeptLaunchAhead)'
             /\ LaunchLast(todo')
  BY <1>5, ContainsFew, LaunchLastFew
<1>6. ASSUME todo' = <<Held, Record>>
      PROVE  /\ HeldAhead' /\ NotesAhead'
             /\ ~(PhaseAhead \/ KeptMergeAhead \/ KeptLaunchAhead)' /\ LaunchLast(todo')
  <2>1. /\ HeldAhead' /\ NotesAhead' /\ ~(PhaseAhead \/ KeptMergeAhead \/ KeptLaunchAhead)'
    BY <1>1, <1>6, ContainsFew
  <2>2. LaunchLast(todo')
    BY <2>1 DEF LaunchLast, Contains
  <2> QED
    BY <2>1, <2>2
<1>7. ASSUME todo' = <<Record, Kept("launch")>>
      PROVE  /\ NotesAhead' /\ KeptLaunchAhead' /\ ~(PhaseAhead \/ HeldAhead \/ KeptMergeAhead)'
             /\ LaunchLast(todo')
  BY <1>1, <1>7, ContainsFew, LaunchLastFew
<1> QED
  BY <1>2, <1>3, <1>4, <1>5, <1>6, <1>7

\* The action is done, and its done line follows.
LEMMA AppliedFiles ==
  ASSUME FInv, up, todo = <<>>, call.at # "none", call'.at = "none",
         UNCHANGED <<journal, record, status, up, doubt>>, todo' = <<Record>>,
         issue'.phase = issue.phase, issue'.deferred = issue.deferred,
         issue'.armed = issue.armed, issue'.pending # None,
         issue'.pending.action = issue.pending.action,
         issue'.pending.follow = issue.pending.follow, issue'.pending.phase = 2,
         Kind(call.at) = "merge" => issue'.stage \in Torn,
         Kind(call.at) = "launch" => issue'.stage = "running",
         Kind(call.at) \notin {"merge", "launch"} => issue'.stage = issue.stage
  PROVE  Fields' /\ Stages' /\ Doubts'
<1> USE DEF FInv
<1>1. /\ issue.pending # None /\ issue.pending.phase = 1
      /\ issue.pending.action = Kind(call.at) /\ journal.pending = Kind(call.at)
  BY InFlight
<1>2. issue'.pending.phase # 1 /\ issue'.pending.phase # 0
  BY Numbers
<1>3. /\ NotesAhead' /\ ~(PhaseAhead \/ HeldAhead \/ KeptMergeAhead \/ KeptLaunchAhead)'
      /\ LaunchLast(todo') /\ todo' \in Seq(Steps)
  BY RecordNext
<1>4. /\ status = issue.phase /\ record.armed = issue.armed
      /\ issue.deferred # None => held # None
  BY AtRest
<1>5. UNCHANGED <<held, loaded_stage>> /\ ~Copying'
  BY DEF held, loaded_stage, Copying
<1>6. /\ issue.pending.action \in {"merge", "cleanup", "checkpoint", "launch"}
      /\ issue.pending.action = "merge" => issue'.stage \in Torn
      /\ issue.pending.action = "launch" => issue'.stage = "running"
      /\ issue.pending.action \in {"cleanup", "checkpoint"} => issue'.stage = issue.stage
  BY <1>1 DEF Kind
<1>7. /\ issue.pending.action = "cleanup" => issue.stage \in Torn
      /\ issue.pending.follow # None => issue.pending.action = "checkpoint"
      /\ issue.pending.follow = "launch" => issue.stage = "running"
      /\ issue.pending.follow = "cleanup" => issue.stage \in Torn
      /\ issue.pending.action = "launch" => issue.stage \notin Torn
  BY <1>1 DEF Stages, PendingStage, LaunchUntorn, doing
<1>8. \A a : doing(issue, a)' <=> doing(issue, a)
  BY <1>1 DEF doing
<1>9. Fields'
  <2>1. (PhaseKept /\ ArmedKept /\ HeldKept)'
    BY <1>4, <1>5 DEF PhaseKept, ArmedKept, HeldKept
  <2>2. NothingArmed'
    BY <1>1, <1>6, <1>8 DEF Fields, NothingArmed, Torn, doing
  <2>3. (NothingArmedOnDisk /\ HeadRuns)'
    BY <1>5 DEF Fields, NothingArmedOnDisk, HeadRuns
  <2> QED
    BY <2>1, <2>2, <2>3 DEF Fields
<1>10. Stages'
  <2>1. StageKept'
    BY <1>3 DEF StageKept
  <2>2. (Replayed /\ Unstaged)'
    BY <1>6, <1>8 DEF Stages, Replayed, Unstaged, Torn
  <2>3. (TornInMemory /\ TornInRecord)'
    BY <1>6, <1>7 DEF Stages, TornInMemory, TornInRecord
  <2>4. PendingStage'
    BY <1>2, <1>6, <1>7, RecoveryConstants DEF PendingStage
  <2>5. LaunchUntorn'
    BY <1>1, <1>3, <1>6, <1>8 DEF Stages, LaunchUntorn, doing, Torn
  <2>6. (LaunchBase /\ LaunchCalls)'
    BY <1>2 DEF LaunchBase, LaunchCalls, Kind
  <2>7. LaunchOpen'
    BY <1>1, <1>3, <1>8 DEF LaunchOpen, doing
  <2> QED
    BY <2>1, <2>2, <2>3, <2>4, <2>5, <2>6, <2>7 DEF Stages
<1>11. Doubts'
  <2>1. (HeldInDoubt /\ HeldNext /\ NoHeadInDoubt)'
    BY <1>3 DEF Doubts, HeldInDoubt, HeldNext, NoHeadInDoubt
  <2>2. OffQueueInDoubt'
    BY <1>1, <1>4, <1>6, <1>8 DEF Doubts, OffQueueInDoubt, queued, Torn, doing
  <2>3. OffQueueOnDisk'
    BY <1>5 DEF Doubts, OffQueueOnDisk
  <2> QED
    BY <2>1, <2>2, <2>3 DEF Doubts
<1> QED
  BY <1>9, <1>10, <1>11

\* The action is dropped: what of the issue changed is written before anything
\* else happens.
LEMMA DroppedFiles ==
  ASSUME FInv, up, todo = <<>>, call.at # "none", call'.at = "none",
         UNCHANGED <<journal, record, status, up>>, issue'.pending = None,
         todo' \in Seq(Steps), LaunchLast(todo'),
         issue'.phase = issue.phase \/ PhaseAhead',
         issue'.armed = issue.armed \/ NotesAhead',
         issue'.deferred \in {issue.deferred, None} \/ NotesAhead',
         (issue'.stage = issue.stage /\ Kind(call.at) \in {"merge", "checkpoint"})
           \/ NotesAhead',
         issue'.stage = issue.stage \/ issue'.stage \notin {"", "starting"},
         issue.stage \in Torn => issue'.stage \in Torn,
         issue'.stage = "" => /\ issue.stage = ""
                              /\ Kind(call.at) = "launch" => record.stage = ""
                              /\ \/ issue'.deferred # None
                                 \/ /\ issue.deferred = None /\ Kind(call.at) # "launch"
                                    /\ issue'.armed => issue.armed,
         KeptLaunchAhead' <=> Kind(call.at) = "launch",
         KeptLaunchAhead' => ~KeptMergeAhead' /\ ~HeldAhead' /\ issue'.stage \notin Torn,
         HeldAhead' => issue'.deferred = "merge" /\ ~PhaseAhead',
         doubt' => /\ doubt /\ issue'.phase = issue.phase /\ issue'.deferred # None
                   /\ issue'.stage = issue.stage \/ Kind(call.at) # "merge"
  PROVE  Fields' /\ Stages' /\ Doubts'
<1> USE DEF FInv
<1>1. /\ issue.pending # None /\ issue.pending.phase = 1
      /\ issue.pending.action = Kind(call.at) /\ journal.pending = Kind(call.at)
  BY InFlight
<1>2. /\ status = issue.phase /\ record.armed = issue.armed
      /\ issue.deferred # None => held # None
      /\ Kind(call.at) \in {"merge", "checkpoint"} =>
           loaded_stage = issue.stage \/ (loaded_stage = "merged" /\ issue.stage \in Torn)
  BY AtRest
<1>3. UNCHANGED <<held, loaded_stage>> /\ ~Copying'
  BY DEF held, loaded_stage, Copying
<1>4. /\ \A a : ~doing(issue, a)' /\ (doing(issue, a) <=> a = Kind(call.at))
  BY <1>1 DEF doing
<1>5. Fields'
  <2>1. (PhaseKept /\ ArmedKept)'
    BY <1>2, <1>3 DEF PhaseKept, ArmedKept, Late
  <2>2. HeldKept'
    BY <1>2, <1>3 DEF HeldKept, Late
  <2>3. NothingArmed'
    <3>1. SUFFICES ASSUME issue'.stage = "", issue'.deferred = None
                   PROVE  ~issue'.armed /\ ~record.armed
      BY DEF NothingArmed
    <3>2. /\ issue.stage = "" /\ issue.deferred = None /\ ~doing(issue, "launch")
          /\ issue'.armed => issue.armed
      BY <1>4, <3>1
    <3> QED
      BY <3>2 DEF Fields, NothingArmed
  <2>4. (NothingArmedOnDisk /\ HeadRuns)'
    BY <1>3 DEF Fields, NothingArmedOnDisk, HeadRuns
  <2> QED
    BY <2>1, <2>2, <2>3, <2>4 DEF Fields
<1>6. Stages'
  <2>1. StageKept'
    BY <1>2, <1>3 DEF StageKept
  <2>2. Replayed'
    BY DEF Stages, Replayed
  <2>3. Unstaged'
    BY <1>4 DEF Stages, Unstaged
  <2>4. (TornInMemory /\ TornInRecord)'
    BY DEF Stages, TornInMemory, TornInRecord
  <2>5. PendingStage'
    BY DEF PendingStage
  <2>6. LaunchUntorn'
    BY <1>1, <1>4 DEF Stages, LaunchUntorn
  <2>7. (LaunchBase /\ LaunchCalls)'
    BY <1>4 DEF LaunchBase, LaunchCalls, Kind
  <2>8. LaunchOpen'
    BY <1>1, <1>4 DEF LaunchOpen
  <2> QED
    BY <2>1, <2>2, <2>3, <2>4, <2>5, <2>6, <2>7, <2>8 DEF Stages
<1>7. Doubts'
  <2>1. (HeldInDoubt /\ HeldNext /\ NoHeadInDoubt)'
    BY DEF Doubts, HeldInDoubt, HeldNext, NoHeadInDoubt
  <2>2. OffQueueInDoubt'
    BY <1>1, <1>2, <1>4 DEF Doubts, OffQueueInDoubt, queued
  <2>3. OffQueueOnDisk'
    BY <1>3 DEF Doubts, OffQueueOnDisk
  <2> QED
    BY <2>1, <2>2, <2>3 DEF Doubts
<1> QED
  BY <1>5, <1>6, <1>7

\* The PR is still open: the merge goes on, and runs as a step of the queue.
LEMMA StillOpenFiles ==
  ASSUME FInv, up, todo = <<>>, call.at # "none", call'.at = "none",
         Kind(call.at) = "merge",
         UNCHANGED <<journal, record, status, up, doubt>>, todo' = <<>>,
         issue'.phase = issue.phase, issue'.stage = issue.stage,
         issue'.deferred = issue.deferred,
         issue'.armed = issue.armed, issue'.pending # None,
         issue'.pending.action = issue.pending.action,
         issue'.pending.follow = issue.pending.follow,
         issue'.pending.phase = issue.pending.phase
  PROVE  Fields' /\ Stages' /\ Doubts'
<1> USE DEF FInv
<1>1. /\ issue.pending # None /\ issue.pending.action = "merge" /\ journal.pending = "merge"
      /\ issue.pending.phase # 0 /\ issue.pending.phase # 2
  BY InFlight
<1>2. /\ ~(PhaseAhead \/ NotesAhead \/ HeldAhead \/ KeptMergeAhead \/ KeptLaunchAhead)'
      /\ LaunchLast(todo') /\ todo' \in Seq(Steps)
  BY AnswerSteps
<1>3. /\ status = issue.phase /\ record.armed = issue.armed
      /\ issue.deferred # None => held # None
      /\ loaded_stage = issue.stage \/ (loaded_stage = "merged" /\ issue.stage \in Torn)
  BY AtRest
<1>4. UNCHANGED <<held, loaded_stage>> /\ ~Copying'
  BY DEF held, loaded_stage, Copying
<1>5. \A a : doing(issue, a)' <=> doing(issue, a)
  BY <1>1 DEF doing
<1>6. Fields'
  <2>1. (PhaseKept /\ ArmedKept /\ HeldKept)'
    BY <1>3, <1>4 DEF PhaseKept, ArmedKept, HeldKept
  <2>2. NothingArmed'
    BY <1>1, <1>5 DEF Fields, NothingArmed, doing
  <2>3. (NothingArmedOnDisk /\ HeadRuns)'
    BY <1>4 DEF Fields, NothingArmedOnDisk, HeadRuns
  <2> QED
    BY <2>1, <2>2, <2>3 DEF Fields
<1>7. Stages'
  <2>1. StageKept'
    BY <1>3, <1>4 DEF StageKept
  <2>2. (Replayed /\ Unstaged /\ TornInMemory /\ TornInRecord)'
    BY <1>5 DEF Stages, Replayed, Unstaged, TornInMemory, TornInRecord
  <2>3. PendingStage'
    BY <1>1 DEF Stages, PendingStage
  <2>4. LaunchUntorn'
    BY <1>1, <1>2, <1>5 DEF LaunchUntorn, doing
  <2>5. (LaunchBase /\ LaunchCalls)'
    BY <1>1, <1>5 DEF LaunchBase, LaunchCalls, Kind, doing
  <2>6. LaunchOpen'
    BY <1>1, <1>2 DEF LaunchOpen
  <2> QED
    BY <2>1, <2>2, <2>3, <2>4, <2>5, <2>6 DEF Stages
<1>8. Doubts'
  <2>1. (HeldInDoubt /\ HeldNext /\ NoHeadInDoubt)'
    BY <1>2 DEF Doubts, HeldInDoubt, HeldNext, NoHeadInDoubt
  <2>2. (OffQueueInDoubt /\ OffQueueOnDisk)'
    BY <1>3, <1>4, <1>5 DEF Doubts, OffQueueInDoubt, OffQueueOnDisk, queued
  <2> QED
    BY <2>1, <2>2 DEF Doubts
<1> QED
  BY <1>6, <1>7, <1>8

\* What every answer leaves alone.
LEMMA CommitsFacts ==
  ASSUME FInv, NEW a, a # "none", NEW s, NEW steps, Commits(a, s, steps)
  PROVE  /\ up /\ todo = <<>> /\ call.at = a /\ call.at # "none" /\ call'.at = "none"
         /\ issue' = s /\ todo' = steps
         /\ UNCHANGED <<journal, record, status, up>>
         /\ issue \in Issue /\ issue.pending \in Pending
         /\ issue.pending.action = Kind(a) /\ issue.pending.phase = 1
<1>1. /\ up /\ todo = <<>> /\ call.at = a /\ call' = Idle
      /\ issue' = s /\ todo' = steps /\ UNCHANGED <<journal, record, status, up>>
  BY DEF Commits, files
<1>2. call'.at = "none"
  BY <1>1 DEF Idle
<1> QED
  BY <1>1, <1>2, InFlight DEF FInv, IInv, TypeOK

LEMMA Concatenated ==
  ASSUME NEW a, NEW b
  PROVE  /\ <<a>> \o <<>> = <<a>> /\ <<a>> \o <<>> \o <<>> = <<a>>
         /\ <<a>> \o <<b>> = <<a, b>> /\ <<a>> \o <<b>> \o <<>> = <<a, b>>
<1> DEFINE S == {a, b}
<1>1. <<a>> \in Seq(S) /\ <<b>> \in Seq(S) /\ <<>> \in Seq(S) /\ <<a, b>> \in Seq(S)
  OBVIOUS
<1>2. \A s \in Seq(S) : s \o <<>> = s
  OBVIOUS
<1>3. <<a>> \o <<b>> = <<a, b>>
  <2>1. <<a>> \o <<b>> \in Seq(S) /\ Len(<<a>> \o <<b>>) = 2
    BY <1>1
  <2>2. (<<a>> \o <<b>>)[1] = a /\ (<<a>> \o <<b>>)[2] = b
    BY <1>1
  <2>3. ASSUME NEW s \in Seq(S), NEW t \in Seq(S), Len(s) = 2, Len(t) = 2,
               s[1] = t[1], s[2] = t[2]
        PROVE  s = t
    <3>1. s \in [1 .. 2 -> S] /\ t \in [1 .. 2 -> S]
      BY <2>3
    <3>2. \A n \in 1 .. 2 : s[n] = t[n]
      BY <2>3
    <3> QED
      BY <3>1, <3>2
  <2>4. Len(<<a, b>>) = 2 /\ <<a, b>>[1] = a /\ <<a, b>>[2] = b
    OBVIOUS
  <2> HIDE DEF S
  <2> QED
    BY <1>1, <2>1, <2>2, <2>3, <2>4
<1> HIDE DEF S
<1> QED
  BY <1>1, <1>2, <1>3, Zenon

\* An answer that ends the step of the queue without a merge.
LEMMA KeptAnswers ==
  ASSUME FInv, NEW a \in {"waiting", "unarmed", "kept", "error", "disarmed"}, NEW s,
         NEW due \in {<<>>, <<Record>>}, Commits(a, s, <<Kept("merge")>> \o due \o <<>>),
         UNCHANGED doubt,
         s.phase = issue.phase, s.stage = issue.stage, s.deferred = issue.deferred,
         s.pending = None, s.armed # issue.armed => due = <<Record>>,
         s.armed => issue.armed \/ a = "waiting"
  PROVE  Fields' /\ Stages' /\ Doubts'
<1> USE DEF FInv
<1>1. /\ up /\ todo = <<>> /\ call.at = a /\ call.at # "none" /\ call'.at = "none"
      /\ issue' = s /\ todo' = <<Kept("merge")>> \o due \o <<>>
      /\ UNCHANGED <<journal, record, status, up>>
  BY CommitsFacts
<1>2. Kind(call.at) = "merge"
  BY <1>1 DEF Kind
<1>3. /\ todo' \in Seq(Steps) /\ LaunchLast(todo')
      /\ ~HeldAhead' /\ ~KeptLaunchAhead' /\ (due = <<Record>> => NotesAhead')
  <2>1. <<Record>> # <<>>
    OBVIOUS
  <2> QED
    BY <1>1, <2>1, KeptSteps, Zenon DEF HeldAhead, KeptLaunchAhead, NotesAhead
<1>4. /\ a = "waiting" => issue.stage = "running"
      /\ doubt => issue.deferred # None
  BY <1>1 DEF Fields, HeadRuns, Doubts, HeldInDoubt
<1> QED
  BY <1>1, <1>2, <1>3, <1>4, DroppedFiles

LEMMA KeptFiles ==
  ASSUME FInv, CommitWaiting \/ CommitKept \/ CommitDisarmed
  PROVE  Fields' /\ Stages' /\ Doubts'
<1>1. issue \in Issue
  BY DEF FInv, IInv, TypeOK
<1>2. /\ open(issue).phase = issue.phase /\ open(issue).stage = issue.stage
      /\ open(issue).deferred = issue.deferred /\ open(issue).pending = None
      /\ open(issue).armed = issue.armed /\ open(issue) \in Issue
  BY <1>1, OpenType DEF open, Issue
<1>3. CASE CommitWaiting
  <2>1. PICK a \in {"waiting", "unarmed"} :
          LET new == set_armed(open(issue), a = "waiting")
          IN Commits(a, new, <<Kept("merge")>> \o noting(new)) /\ UNCHANGED doubt
    BY <1>3 DEF CommitWaiting
  <2> DEFINE new == set_armed(open(issue), a = "waiting")
  <2>2. /\ new.phase = issue.phase /\ new.stage = issue.stage
        /\ new.deferred = issue.deferred /\ new.pending = None
        /\ new.armed = (a = "waiting")
    BY <1>2 DEF set_armed, Issue
  <2>3. Commits(a, new, <<Kept("merge")>> \o noting(new)) /\ UNCHANGED doubt
    BY <2>1
  <2> HIDE DEF new
  <2>4. /\ noting(new) \in {<<>>, <<Record>>}
        /\ new.armed # issue.armed => noting(new) = <<Record>>
    BY DEF noting
  <2>5. <<Kept("merge")>> \o noting(new) \o <<>> = <<Kept("merge")>> \o noting(new)
    BY <2>4, Concatenated, Zenon
  <2>6. Commits(a, new, <<Kept("merge")>> \o noting(new) \o <<>>)
    BY <2>3, <2>5, Zenon
  <2>7. new.armed => a = "waiting"
    BY <2>2
  <2> QED
    BY <2>2, <2>3, <2>4, <2>6, <2>7, KeptAnswers
<1>4. CASE CommitKept
  <2>1. PICK a \in {"kept", "error"} :
          Commits(a, open(issue), <<Kept("merge")>>) /\ UNCHANGED doubt
    BY <1>4 DEF CommitKept
  <2>2. Commits(a, open(issue), <<Kept("merge")>> \o <<>> \o <<>>)
    BY <2>1, Concatenated, Zenon
  <2> QED
    BY <1>2, <2>1, <2>2, KeptAnswers
<1>5. CASE CommitDisarmed
  <2> DEFINE s == [open(issue) EXCEPT !.armed = FALSE, !.due = FALSE]
  <2>1. Commits("disarmed", s, <<Kept("merge"), Record>>) /\ UNCHANGED doubt
    BY <1>5 DEF CommitDisarmed
  <2>2. /\ s.phase = issue.phase /\ s.stage = issue.stage /\ s.deferred = issue.deferred
        /\ s.pending = None /\ ~s.armed
    BY <1>2 DEF Issue
  <2> HIDE DEF s
  <2>3. Commits("disarmed", s, <<Kept("merge")>> \o <<Record>> \o <<>>)
    BY <2>1, Concatenated, Zenon
  <2> QED
    BY <2>1, <2>2, <2>3, KeptAnswers
<1> QED
  BY <1>3, <1>4, <1>5

LEMMA FixFiles ==
  ASSUME FInv, CommitFix
  PROVE  Fields' /\ Stages' /\ Doubts'
<1> USE DEF FInv
<1> DEFINE off == set_armed(open(issue), FALSE)
<1> DEFINE s == [noted_phase(off, "running") EXCEPT !.deferred = None]
<1>0. issue \in Issue
  BY DEF IInv, TypeOK
<1>1. /\ Commits("fix", s, <<Kept("merge")>> \o noting(off) \o <<Status, Record>>) /\ ~doubt'
  BY DEF CommitFix
<1>2. /\ off \in Issue /\ off.stage = issue.stage /\ off.pending = None /\ off.armed = FALSE
  <2>1. open(issue) \in Issue /\ open(issue).stage = issue.stage /\ open(issue).pending = None
    BY <1>0, OpenType DEF open, Issue
  <2> QED
    BY <2>1 DEF set_armed, Issue
<1>3. noting(off) \in {<<>>, <<Record>>}
  BY DEF noting
<1> HIDE DEF off
<1>4. s.stage = issue.stage /\ s.pending = None /\ s.deferred = None
  BY <1>2 DEF noted_phase, Issue
<1> HIDE DEF s
<1>5. /\ up /\ todo = <<>> /\ call.at = "fix" /\ call.at # "none" /\ call'.at = "none"
      /\ issue' = s /\ todo' = <<Kept("merge")>> \o noting(off) \o <<Status, Record>>
      /\ UNCHANGED <<journal, record, status, up>>
  BY <1>1, CommitsFacts
<1>6. Kind(call.at) = "merge" /\ issue.stage = "running"
  BY <1>5 DEF Kind, Fields, HeadRuns
<1>7. /\ todo' \in Seq(Steps) /\ LaunchLast(todo')
      /\ ~HeldAhead' /\ ~KeptLaunchAhead' /\ NotesAhead' /\ PhaseAhead'
  <2>1. <<Status, Record>> # <<>>
    OBVIOUS
  <2> QED
    BY <1>3, <1>5, <2>1, KeptSteps, Zenon DEF HeldAhead, KeptLaunchAhead, NotesAhead, PhaseAhead
<1> QED
  BY <1>1, <1>4, <1>5, <1>6, <1>7, DroppedFiles DEF Torn

LEMMA UncertainFiles ==
  ASSUME FInv, CommitUncertain
  PROVE  Fields' /\ Stages' /\ Doubts'
<1> USE DEF FInv
<1> DEFINE s == [open(issue) EXCEPT !.deferred = "merge"]
<1>0. issue \in Issue
  BY DEF IInv, TypeOK
<1>1. Commits("uncertain", s, <<Held, Record>>) /\ UNCHANGED doubt
  BY DEF CommitUncertain
<1>2. /\ s.phase = issue.phase /\ s.stage = issue.stage /\ s.deferred = "merge"
      /\ s.pending = None /\ s.armed = issue.armed
  BY <1>0 DEF open, Issue
<1> HIDE DEF s
<1>3. /\ up /\ todo = <<>> /\ call.at = "uncertain" /\ call.at # "none" /\ call'.at = "none"
      /\ issue' = s /\ todo' = <<Held, Record>> /\ UNCHANGED <<journal, record, status, up>>
  BY <1>1, CommitsFacts
<1>4. Kind(call.at) = "merge" /\ issue.stage = "running" /\ ~doubt
  BY <1>3 DEF Kind, Fields, HeadRuns, Doubts, NoHeadInDoubt
<1>5. /\ HeldAhead' /\ NotesAhead' /\ ~(PhaseAhead \/ KeptMergeAhead \/ KeptLaunchAhead)'
      /\ LaunchLast(todo') /\ todo' \in Seq(Steps)
  BY <1>3, AnswerSteps
<1> QED
  BY <1>1, <1>2, <1>3, <1>4, <1>5, DroppedFiles

\* The action is done.
LEMMA PendingDone ==
  ASSUME NEW p \in Pending,
         NEW q \in {[p EXCEPT !.phase = 2], [p EXCEPT !.phase = 2, !.recovered = FALSE]}
  PROVE  /\ q # None /\ q.action = p.action /\ q.follow = p.follow /\ q.phase = 2
<1>1. 2 \in 0 .. 2
  OBVIOUS
<1>2. q \in Pending
  BY <1>1 DEF Pending
<1> QED
  BY <1>2, NoneIsNoAction DEF Pending

LEMMA AppliedAnswers ==
  ASSUME FInv, NEW a \in {"merged", "is merged", "cleaned", "snapped", "launched"},
         NEW s, Commits(a, s, <<Record>>), UNCHANGED doubt,
         s.phase = issue.phase, s.deferred = issue.deferred, s.armed = issue.armed,
         s.pending \in {[issue.pending EXCEPT !.phase = 2],
                        [issue.pending EXCEPT !.phase = 2, !.recovered = FALSE]},
         a \in {"merged", "is merged"} => s.stage \in Torn,
         a = "launched" => s.stage = "running",
         a \in {"cleaned", "snapped"} => s.stage = issue.stage
  PROVE  Fields' /\ Stages' /\ Doubts'
<1>1. /\ up /\ todo = <<>> /\ call.at = a /\ call.at # "none" /\ call'.at = "none"
      /\ issue' = s /\ todo' = <<Record>> /\ UNCHANGED <<journal, record, status, up>>
      /\ issue.pending \in Pending
  BY CommitsFacts
<1>2. /\ s.pending # None /\ s.pending.action = issue.pending.action
      /\ s.pending.follow = issue.pending.follow /\ s.pending.phase = 2
  BY <1>1, PendingDone
<1>3. /\ a \in {"merged", "is merged"} <=> Kind(a) = "merge"
      /\ a = "launched" <=> Kind(a) = "launch"
  BY DEF Kind
<1>4. /\ Kind(call.at) = "merge" => issue'.stage \in Torn
      /\ Kind(call.at) = "launch" => issue'.stage = "running"
      /\ Kind(call.at) \notin {"merge", "launch"} => issue'.stage = issue.stage
  BY <1>1, <1>3
<1> QED
  BY <1>1, <1>2, <1>4, AppliedFiles

LEMMA DoneAnswers ==
  ASSUME FInv,
         \/ CommitMerged
         \/ /\ Commits("is merged",
                       [issue EXCEPT !.pending = [@ EXCEPT !.phase = 2, !.recovered = FALSE],
                                     !.stage = IF @ = "merged" THEN @ ELSE "cleaning"],
                       <<Record>>)
            /\ UNCHANGED doubt
         \/ /\ Commits("cleaned", [issue EXCEPT !.pending.phase = 2], <<Record>>)
            /\ UNCHANGED doubt
         \/ /\ Commits("snapped", [issue EXCEPT !.pending.phase = 2], <<Record>>)
            /\ UNCHANGED doubt
         \/ Commits("launched", applied(issue, "running"), <<Record>>) /\ UNCHANGED doubt
  PROVE  Fields' /\ Stages' /\ Doubts'
<1>1. issue \in Issue
  BY DEF FInv, IInv, TypeOK
<1>2. CASE CommitMerged
  <2> DEFINE s == applied(issue, "cleaning")
  <2>1. Commits("merged", s, <<Record>>) /\ UNCHANGED doubt
    BY <1>2 DEF CommitMerged
  <2>2. /\ s.phase = issue.phase /\ s.deferred = issue.deferred /\ s.armed = issue.armed
        /\ s.pending = [issue.pending EXCEPT !.phase = 2] /\ s.stage = "cleaning"
    BY <1>1 DEF applied, Issue
  <2> HIDE DEF s
  <2> QED
    BY <2>1, <2>2, AppliedAnswers DEF Torn
<1>3. CASE /\ Commits("is merged",
                      [issue EXCEPT !.pending = [@ EXCEPT !.phase = 2, !.recovered = FALSE],
                                    !.stage = IF @ = "merged" THEN @ ELSE "cleaning"],
                      <<Record>>)
           /\ UNCHANGED doubt
  <2> DEFINE s == [issue EXCEPT !.pending = [@ EXCEPT !.phase = 2, !.recovered = FALSE],
                                !.stage = IF @ = "merged" THEN @ ELSE "cleaning"]
  <2>1. /\ s.phase = issue.phase /\ s.deferred = issue.deferred /\ s.armed = issue.armed
        /\ s.pending = [issue.pending EXCEPT !.phase = 2, !.recovered = FALSE]
        /\ s.stage \in {"merged", "cleaning"}
    BY <1>1 DEF Issue
  <2>2. Commits("is merged", s, <<Record>>) /\ UNCHANGED doubt
    BY <1>3
  <2> HIDE DEF s
  <2> QED
    BY <2>1, <2>2, AppliedAnswers DEF Torn
<1>4. ASSUME NEW a \in {"cleaned", "snapped"},
             Commits(a, [issue EXCEPT !.pending.phase = 2], <<Record>>), UNCHANGED doubt
      PROVE  Fields' /\ Stages' /\ Doubts'
  <2> DEFINE s == [issue EXCEPT !.pending.phase = 2]
  <2>1. /\ s.phase = issue.phase /\ s.deferred = issue.deferred /\ s.armed = issue.armed
        /\ s.pending = [issue.pending EXCEPT !.phase = 2] /\ s.stage = issue.stage
    BY <1>1 DEF Issue
  <2>2. Commits(a, s, <<Record>>)
    BY <1>4
  <2> HIDE DEF s
  <2> QED
    BY <1>4, <2>1, <2>2, AppliedAnswers
<1>5. CASE Commits("launched", applied(issue, "running"), <<Record>>) /\ UNCHANGED doubt
  <2> DEFINE s == applied(issue, "running")
  <2>1. /\ s.phase = issue.phase /\ s.deferred = issue.deferred /\ s.armed = issue.armed
        /\ s.pending = [issue.pending EXCEPT !.phase = 2] /\ s.stage = "running"
    BY <1>1 DEF applied, Issue
  <2>2. Commits("launched", s, <<Record>>)
    BY <1>5
  <2> HIDE DEF s
  <2> QED
    BY <1>5, <2>1, <2>2, AppliedAnswers
<1> QED
  BY <1>2, <1>3, <1>4, <1>5

LEMMA StillOpenAnswer ==
  ASSUME FInv, Commits("is open", [issue EXCEPT !.pending.recovered = FALSE], <<>>),
         UNCHANGED doubt
  PROVE  Fields' /\ Stages' /\ Doubts'
<1> DEFINE s == [issue EXCEPT !.pending.recovered = FALSE]
<1>1. issue \in Issue
  BY DEF FInv, IInv, TypeOK
<1>2. Commits("is open", s, <<>>)
  OBVIOUS
<1>3. /\ s.phase = issue.phase /\ s.stage = issue.stage /\ s.deferred = issue.deferred
      /\ s.armed = issue.armed /\ s.pending = [issue.pending EXCEPT !.recovered = FALSE]
  BY <1>1 DEF Issue
<1> HIDE DEF s
<1>4. /\ up /\ todo = <<>> /\ call.at = "is open" /\ call.at # "none" /\ call'.at = "none"
      /\ issue' = s /\ todo' = <<>> /\ UNCHANGED <<journal, record, status, up>>
      /\ issue.pending \in Pending
  BY <1>2, CommitsFacts
<1>5. Kind(call.at) = "merge"
  BY <1>4 DEF Kind
<1>6. s.pending \in Pending
  BY <1>3, <1>4 DEF Pending
<1>7. /\ s.pending # None /\ s.pending.action = issue.pending.action
      /\ s.pending.follow = issue.pending.follow /\ s.pending.phase = issue.pending.phase
  BY <1>3, <1>4, <1>6, NoneIsNoAction DEF Pending
<1> QED
  BY <1>3, <1>4, <1>5, <1>7, StillOpenFiles

\* The question to GitHub is not answered, or the checkpoint failed.
LEMMA DroppedAnswers ==
  ASSUME FInv, NEW a \in {"is unknown", "no snapshot"}, Commits(a, open(issue), <<>>),
         UNCHANGED doubt
  PROVE  Fields' /\ Stages' /\ Doubts'
<1>1. issue \in Issue
  BY DEF FInv, IInv, TypeOK
<1>2. /\ open(issue).phase = issue.phase /\ open(issue).stage = issue.stage
      /\ open(issue).deferred = issue.deferred /\ open(issue).pending = None
      /\ open(issue).armed = issue.armed
  BY <1>1 DEF open, Issue
<1>3. /\ up /\ todo = <<>> /\ call.at = a /\ call.at # "none" /\ call'.at = "none"
      /\ issue' = open(issue) /\ todo' = <<>> /\ UNCHANGED <<journal, record, status, up>>
  BY CommitsFacts
<1>4. Kind(call.at) \in {"merge", "checkpoint"}
  BY <1>3 DEF Kind
<1>5. /\ ~(PhaseAhead \/ NotesAhead \/ HeldAhead \/ KeptMergeAhead \/ KeptLaunchAhead)'
      /\ LaunchLast(todo') /\ todo' \in Seq(Steps)
  BY <1>3, AnswerSteps
<1>6. doubt => issue.deferred # None
  BY <1>3 DEF FInv, Doubts, HeldInDoubt
<1> QED
  BY <1>2, <1>3, <1>4, <1>5, <1>6, DroppedFiles

LEMMA IncompleteFiles ==
  ASSUME FInv,
         Commits("incomplete", [open(issue) EXCEPT !.stage = "cleanup-incomplete"], <<Record>>),
         UNCHANGED doubt
  PROVE  Fields' /\ Stages' /\ Doubts'
<1> DEFINE s == [open(issue) EXCEPT !.stage = "cleanup-incomplete"]
<1>1. issue \in Issue
  BY DEF FInv, IInv, TypeOK
<1>2. Commits("incomplete", s, <<Record>>)
  OBVIOUS
<1>3. /\ s.phase = issue.phase /\ s.stage = "cleanup-incomplete"
      /\ s.deferred = issue.deferred /\ s.pending = None /\ s.armed = issue.armed
  BY <1>1 DEF open, Issue
<1> HIDE DEF s
<1>4. /\ up /\ todo = <<>> /\ call.at = "incomplete" /\ call.at # "none" /\ call'.at = "none"
      /\ issue' = s /\ todo' = <<Record>> /\ UNCHANGED <<journal, record, status, up>>
  BY <1>2, CommitsFacts
<1>5. Kind(call.at) = "cleanup"
  BY <1>4 DEF Kind
<1>6. /\ NotesAhead' /\ ~(PhaseAhead \/ HeldAhead \/ KeptMergeAhead \/ KeptLaunchAhead)'
      /\ LaunchLast(todo') /\ todo' \in Seq(Steps)
  BY <1>4, RecordNext
<1>7. doubt => issue.deferred # None
  BY <1>4 DEF FInv, Doubts, HeldInDoubt
<1> QED
  BY <1>3, <1>4, <1>5, <1>6, <1>7, DroppedFiles DEF Torn

\* The launch stopped short: the issue is held, with the stage the record kept.
LEMMA NotLaunchedFiles ==
  ASSUME FInv,
         Commits("not launched",
                 [open(issue) EXCEPT !.deferred = "launch",
                                     !.stage = IF record.stage = "" THEN @ ELSE record.stage],
                 <<Record, Kept("launch")>>),
         UNCHANGED doubt
  PROVE  Fields' /\ Stages' /\ Doubts'
<1> DEFINE s == [open(issue) EXCEPT !.deferred = "launch",
                                    !.stage = IF record.stage = "" THEN @ ELSE record.stage]
<1>1. issue \in Issue
  BY DEF FInv, IInv, TypeOK
<1>2. Commits("not launched", s, <<Record, Kept("launch")>>)
  OBVIOUS
<1>3. /\ s.phase = issue.phase /\ s.deferred = "launch" /\ s.pending = None
      /\ s.armed = issue.armed
      /\ s.stage = (IF record.stage = "" THEN issue.stage ELSE record.stage)
  BY <1>1 DEF open, Issue
<1> HIDE DEF s
<1>4. /\ up /\ todo = <<>> /\ call.at = "not launched" /\ call.at # "none" /\ call'.at = "none"
      /\ issue' = s /\ todo' = <<Record, Kept("launch")>>
      /\ UNCHANGED <<journal, record, status, up>>
  BY <1>2, CommitsFacts
<1>5. Kind(call.at) = "launch"
  BY <1>4 DEF Kind
<1>6. issue.stage \in {"", "running"} /\ record.stage \in {"", "running", "uncertain"}
  BY <1>4, <1>5 DEF FInv, Stages, LaunchCalls
<1>7. /\ NotesAhead' /\ KeptLaunchAhead' /\ ~(PhaseAhead \/ HeldAhead \/ KeptMergeAhead)'
      /\ LaunchLast(todo') /\ todo' \in Seq(Steps)
  BY <1>4, AnswerSteps
<1>8. /\ issue.stage \notin Torn /\ s.stage \notin Torn
      /\ s.stage = issue.stage \/ s.stage \notin {"", "starting"}
      /\ s.stage = "" => issue.stage = "" /\ record.stage = ""
      /\ s.deferred # None
  BY <1>3, <1>6, RecoveryConstants DEF Torn
<1> QED
  BY <1>3, <1>4, <1>5, <1>7, <1>8, DroppedFiles

LEMMA AnswerFiles ==
  ASSUME FInv, EffectDone
  PROVE  Fields' /\ Stages' /\ Doubts'
<1>1. CASE CommitWaiting \/ CommitKept \/ CommitDisarmed
  BY <1>1, KeptFiles
<1>2. CASE CommitMerged
  BY <1>2, DoneAnswers
<1>3. CASE CommitFix
  BY <1>3, FixFiles
<1>4. CASE CommitUncertain
  BY <1>4, UncertainFiles
<1>5. CASE CommitReconcile
  BY <1>5, DoneAnswers, StillOpenAnswer, DroppedAnswers DEF CommitReconcile
<1>6. CASE CommitCleanup
  BY <1>6, DoneAnswers, IncompleteFiles DEF CommitCleanup
<1>7. CASE CommitCheckpoint
  BY <1>7, DoneAnswers, DroppedAnswers DEF CommitCheckpoint
<1>8. CASE CommitLaunch
  BY <1>8, DoneAnswers, NotLaunchedFiles DEF CommitLaunch
<1> QED
  BY <1>1, <1>2, <1>3, <1>4, <1>5, <1>6, <1>7, <1>8 DEF EffectDone

-----------------------------------------------------------------------------
(* The theorems. *)

LEMMA NextFiles == FInv /\ [Next]_vars => FInv'
<1> SUFFICES ASSUME FInv, [Next]_vars PROVE FInv'
  OBVIOUS
<1>1. IInv'
  BY NextInv DEF FInv
<1>2. CASE Crash \/ Restart
  BY <1>1, <1>2, CrashFiles, RestartFiles DEF FInv
<1>3. CASE Pump
  BY <1>1, <1>3, WriteFiles, IntentFiles, DoneFiles, CallFiles DEF FInv, Pump
<1>4. CASE Message
  BY <1>1, <1>4, ArmFiles, DetectFiles, GoneFiles, ReportFiles DEF FInv, Message
<1>5. CASE Effect
  BY <1>1, <1>5, AskingFiles, CleanupFiles, LaunchFiles DEF FInv, Effect
<1>6. CASE EffectDone
  BY <1>1, <1>6, AnswerFiles DEF FInv
<1>7. CASE Environment \/ UNCHANGED vars
  <2>1. UNCHANGED <<journal, record, status, up, issue, todo, call, doubt>>
    BY <1>7 DEF Environment, AutoMerge, MergeElsewhere, PaneDies, environment, files, memory,
       vars
  <2> QED
    BY <1>1, <2>1, SameFiles DEF FInv
<1> QED
  BY <1>2, <1>3, <1>4, <1>5, <1>6, <1>7 DEF Next

\* Between two messages the three files know what the memory knows: a crash now
\* and a restart give back the phase, the action in flight, the hold, the armed
\* flag and the stage, whatever crashed before and wherever it crashed
\* (disk.rs:126-192, recover.rs).
THEOREM FilesKnow == Spec => []RestartKnows
<1>1. FInv => RestartKnows
  <2> SUFFICES ASSUME FInv, idle PROVE RestartKnows
    BY DEF RestartKnows
  <2>1. /\ up /\ todo = <<>> /\ (issue.pending = None \/ call.at # "none")
        /\ issue \in Issue
    BY DEF idle, FInv, IInv, TypeOK
  <2>2. issue.pending # None => journal.pending = issue.pending.action
    BY <2>1, InFlight
  <2>3. ASSUME ~doing(issue, "launch"), ~doing(issue, "cleanup")
        PROVE  Kind(call.at) \in {"merge", "checkpoint"}
    <3>1. CASE call.at = "none"
      BY <3>1 DEF Kind
    <3>2. CASE call.at # "none"
      BY <2>3, <3>2, InFlight DEF doing, Kind
    <3> QED
      BY <3>1, <3>2
  <2> QED
    BY <2>1, <2>2, <2>3, AtRest DEF RestartKnows
<1> QED
  BY <1>1, InitFiles, NextFiles, PTL DEF Spec

\* A merge GitHub answered uncertainly is not sent again: not by the head's next
\* check, not by the action a restart takes up, not by a later report of the same
\* phase (commit_queue.rs:124, snapshot.rs).
THEOREM UncertainStays == Spec => []UncertainIsNotResent
<1>1. FInv => UncertainIsNotResent
  BY DEF FInv, Doubts, NoHeadInDoubt, UncertainIsNotResent
<1> QED
  BY <1>1, InitFiles, NextFiles, PTL DEF Spec
=============================================================================
