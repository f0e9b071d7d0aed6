------------------------- MODULE ResourceLeasesProofs -------------------------
(***************************************************************************)
(* The theorems of ResourceLeases, for any issues, job runners, hosts, epics   *)
(* and bounds, whatever commands and rebases overlap.  IInv: types, the bounds, *)
(* and that a job's work is leased.  KInv: a launch keeps the lease it took.    *)
(***************************************************************************)
EXTENDS ResourceLeases, FiniteSetTheorems, TLAPS

\* The steps of a launch: only these start an agent on the command's host.
LaunchStep ==
  {"patch", "reclaim", "reserve", "announce", "fence", "stop", "stopped", "remains", "confirm",
   "move", "initialize", "prepare", "start", "deliver", "release", "drop"}

\* The stages a launch persists.
Attempted == {"starting", "running", "replacing", "uncertain"}

\* The patch of a lease repeats its record's stage, and the launch goes on.
Due(i) ==
  cmd[i] # None /\ cmd[i].pc = "patch" =>
    record[i].stage \in Attempted /\ cmd[i].next \in LaunchStep \cup {None}

Hosted ==
  \A i \in Issues : cmd[i] # None /\ cmd[i].pc \in LaunchStep => cmd[i].host \in Hosts

JobShape ==
  \A j \in Jobs :
    /\ job[j].pc \in {"leased", "spawned"} => job[j].lease = "held"
    /\ job[j].pc = "running" => job[j].lease = "grouped"
    /\ job[j].group = "working" => job[j].pc \in {"running", "dead"} /\ job[j].lease = "grouped"

IInv == TypeOK /\ Hosted /\ (\A i \in Issues : Due(i)) /\ JobShape /\ WithinCaps

-----------------------------------------------------------------------------
(* Types. *)

LEMMA GotoTyped ==
  ASSUME TypeOK, Hosted, NEW i \in Issues, cmd[i] # None, NEW pc \in Step, Goto(i, pc),
         pc \in LaunchStep => cmd[i].pc \in LaunchStep
  PROVE  /\ cmd' \in [Issues -> Command \cup {None}]
         /\ \A k \in Issues : cmd'[k] # None /\ cmd'[k].pc \in LaunchStep => cmd'[k].host \in Hosts
<1>1. cmd[i] \in Command
  BY DEF TypeOK
<1>2. [cmd[i] EXCEPT !.pc = pc] \in Command
  BY <1>1 DEF Command
<1>3. cmd' = [cmd EXCEPT ![i] = [cmd[i] EXCEPT !.pc = pc]]
  BY DEF Goto
<1>4. cmd' \in [Issues -> Command \cup {None}]
  BY <1>2, <1>3 DEF TypeOK
<1>5. cmd'[i] = [cmd[i] EXCEPT !.pc = pc]
  BY <1>3 DEF TypeOK
<1>6. cmd'[i].pc = pc /\ cmd'[i].host = cmd[i].host
  BY <1>1, <1>5 DEF Command
<1>7. \A k \in Issues : k # i => cmd'[k] = cmd[k]
  BY <1>3 DEF TypeOK
<1> QED
  BY <1>4, <1>6, <1>7 DEF Hosted

LEMMA EndsTyped ==
  ASSUME TypeOK, Hosted, NEW i \in Issues, Ends(i)
  PROVE  /\ cmd' \in [Issues -> Command \cup {None}]
         /\ \A k \in Issues : cmd'[k] # None /\ cmd'[k].pc \in LaunchStep => cmd'[k].host \in Hosts
<1>1. cmd' \in [Issues -> Command \cup {None}]
  BY DEF TypeOK, Ends
<1>2. cmd'[i] = None /\ \A k \in Issues : k # i => cmd'[k] = cmd[k]
  BY DEF TypeOK, Ends
<1> QED
  BY <1>1, <1>2 DEF Hosted

LEMMA StageTyped ==
  ASSUME NEW l \in Lease, NEW stage \in LeaseStage, NEW b \in BOOLEAN
  PROVE  /\ [l EXCEPT !.stage = stage, !.tree = @ \/ b] \in Lease
         /\ [l EXCEPT !.stage = stage] \in Lease
         /\ [l EXCEPT !.tree = TRUE, !.stage = stage] \in Lease
         /\ [l EXCEPT !.owned = FALSE] \in Lease
BY DEF Lease

LEMMA ReconciledTyped ==
  ASSUME TypeOK
  PROVE  Reconciled \in [Jobs -> Job]
<1>1. \A j \in Jobs : job[j] \in Job
  BY DEF TypeOK
<1>2. \A x \in Job : [x EXCEPT !.lease = "none"] \in Job
  BY DEF Job
<1> QED
  BY <1>1, <1>2 DEF Reconciled

LEMMA DropTyped ==
  ASSUME TypeOK, NEW jobs \in [Jobs -> Job], NEW j \in Jobs, NEW x \in Job
  PROVE  [jobs EXCEPT ![j] = x] \in [Jobs -> Job]
OBVIOUS

\* What no step but a reservation does: name a host that a lease did not name.
Narrows ==
  \A k \in Issues : lease'[k] # None =>
    /\ lease[k] # None
    /\ {lease'[k].host, lease'[k].pending} \subseteq {lease[k].host, lease[k].pending, None}

Fewer == \A j \in Jobs : job'[j].lease # "none" => job[j].lease # "none"

LEMMA Replaced ==
  ASSUME TypeOK, NEW i \in Issues, lease[i] # None, NEW x \in Lease,
         lease' = [lease EXCEPT ![i] = x],
         {x.host, x.pending} \subseteq {lease[i].host, lease[i].pending, None}
  PROVE  lease' \in [Issues -> Lease \cup {None}] /\ Narrows
<1>1. lease' \in [Issues -> Lease \cup {None}]
  BY DEF TypeOK
<1>2. lease'[i] = x /\ \A k \in Issues : k # i => lease'[k] = lease[k]
  BY DEF TypeOK
<1> QED
  BY <1>1, <1>2 DEF Narrows

LEMMA Removed ==
  ASSUME TypeOK, NEW i \in Issues, lease' = [lease EXCEPT ![i] = None]
  PROVE  lease' \in [Issues -> Lease \cup {None}] /\ Narrows
<1>1. lease' \in [Issues -> Lease \cup {None}]
  BY DEF TypeOK
<1>2. lease'[i] = None /\ \A k \in Issues : k # i => lease'[k] = lease[k]
  BY DEF TypeOK
<1> QED
  BY <1>1, <1>2 DEF Narrows

LEMMA Unleased ==
  ASSUME TypeOK, lease' = lease
  PROVE  lease' \in [Issues -> Lease \cup {None}] /\ Narrows
BY DEF TypeOK, Narrows

LEMMA Restaged ==
  ASSUME TypeOK, NEW i \in Issues, lease[i] # None, NEW stage \in LeaseStage, Stages(i, stage)
  PROVE  lease' \in [Issues -> Lease \cup {None}] /\ Narrows
<1>1. lease[i] \in Lease
  BY DEF TypeOK
<1> DEFINE x == [lease[i] EXCEPT !.stage = stage]
<1>2. x \in Lease
  BY <1>1, StageTyped
<1>3. x.host = lease[i].host /\ x.pending = lease[i].pending
  BY <1>1 DEF Lease
<1>4. lease' = [lease EXCEPT ![i] = x]
  BY DEF Stages
<1> HIDE DEF x
<1> QED
  BY <1>2, <1>3, <1>4, Replaced

LEMMA FencedTyped ==
  ASSUME TypeOK, NEW i \in Issues, lease[i] # None, NEW active \in BOOLEAN, Fenced(i, active)
  PROVE  lease' \in [Issues -> Lease \cup {None}] /\ Narrows
<1>1. lease[i] \in Lease
  BY DEF TypeOK
<1> DEFINE stage == IF active THEN "cleanup-incomplete" ELSE "cleaning"
<1> DEFINE x == [lease[i] EXCEPT !.tree = TRUE, !.stage = stage]
<1>2. stage \in LeaseStage
  BY DEF LeaseStage
<1>3. x \in Lease
  BY <1>1, <1>2, StageTyped
<1>4. x.host = lease[i].host /\ x.pending = lease[i].pending
  BY <1>1 DEF Lease
<1>5. lease' = [lease EXCEPT ![i] = x]
  BY DEF Fenced
<1> HIDE DEF x
<1> QED
  BY <1>3, <1>4, <1>5, Replaced

LEMMA PersistTyped ==
  ASSUME TypeOK, Hosted, NEW i \in Issues, cmd[i] # None, cmd[i].pc \in LaunchStep,
         NEW saved \in Record, NEW stage \in Attempted, NEW next \in Step \cup {None},
         Persist(i, saved, stage, next)
  PROVE  /\ lease' \in [Issues -> Lease \cup {None}] /\ Narrows
         /\ record' \in [Issues -> Record]
         /\ cmd' \in [Issues -> Command \cup {None}] /\ Hosted'
<1>1. cmd[i] \in Command /\ cmd[i].host \in Hosts
  BY DEF TypeOK, Hosted
<1>2. cmd[i].token \in Tokens \cup {None}
  BY <1>1 DEF Command
<1> DEFINE r == [saved EXCEPT !.stage = stage, !.token = cmd[i].token]
<1> DEFINE c == [cmd[i] EXCEPT !.pc = "patch", !.next = next]
<1>3. r \in Record
  BY <1>2 DEF Record, Attempted
<1>4. c \in Command /\ c.host = cmd[i].host
  BY <1>1 DEF Command, Step
<1>5. /\ record' = [record EXCEPT ![i] = r] /\ cmd' = [cmd EXCEPT ![i] = c]
      /\ lease' = lease
  BY DEF Persist
<1> HIDE DEF r, c
<1>6. record' \in [Issues -> Record] /\ cmd' \in [Issues -> Command \cup {None}]
  BY <1>3, <1>4, <1>5 DEF TypeOK
<1>7. cmd'[i] = c /\ \A k \in Issues : k # i => cmd'[k] = cmd[k]
  BY <1>5 DEF TypeOK
<1>8. Hosted'
  BY <1>1, <1>4, <1>7 DEF Hosted
<1> QED
  BY <1>5, <1>6, <1>8, Unleased

\* A step that neither reserves nor admits.
Ordinary == TypeOK' /\ Hosted' /\ Narrows

LEMMA CommandTyped ==
  ASSUME TypeOK, Hosted, NEW i \in Issues, cmd[i] # None, NEW pc \in Step,
         Goto(i, pc) \/ Ends(i), pc \in LaunchStep => cmd[i].pc \in LaunchStep
  PROVE  /\ cmd' \in [Issues -> Command \cup {None}]
         /\ Hosted'
<1>1. /\ cmd' \in [Issues -> Command \cup {None}]
      /\ \A k \in Issues : cmd'[k] # None /\ cmd'[k].pc \in LaunchStep => cmd'[k].host \in Hosts
  BY GotoTyped, EndsTyped
<1> QED
  BY <1>1 DEF Hosted

\* A step of a launch that persists its record.
LEMMA PersistOrdinary ==
  ASSUME TypeOK, Hosted, NEW i \in Issues, cmd[i] # None, cmd[i].pc \in LaunchStep,
         NEW saved \in Record, NEW stage \in Attempted, NEW next \in Step \cup {None},
         Persist(i, saved, stage, next),
         job' \in [Jobs -> Job], rebase' = rebase,
         agent' \in [Issues -> Hosts \cup {None}], tree' \in [Issues -> BOOLEAN]
  PROVE  Ordinary
<1>1. /\ lease' \in [Issues -> Lease \cup {None}] /\ Narrows
      /\ record' \in [Issues -> Record]
      /\ cmd' \in [Issues -> Command \cup {None}] /\ Hosted'
  BY PersistTyped
<1>2. rebase' \in [Issues -> Rebase]
  BY DEF TypeOK
<1> QED
  BY <1>1, <1>2 DEF Ordinary, TypeOK

LEMMA FailsOrdinary ==
  ASSUME TypeOK, Hosted, NEW i \in Issues, cmd[i] # None, cmd[i].pc \in LaunchStep, Fails(i),
         job' \in [Jobs -> Job], rebase' = rebase,
         agent' \in [Issues -> Hosts \cup {None}], tree' \in [Issues -> BOOLEAN]
  PROVE  Ordinary
<1>1. record[i] \in Record /\ "uncertain" \in Attempted
  BY DEF TypeOK, Attempted
<1>2. Persist(i, record[i], "uncertain", None)
  BY DEF Fails
<1> QED
  BY <1>1, <1>2, PersistOrdinary

LEMMA JobsStay ==
  ASSUME TypeOK, job' = job
  PROVE  job' \in [Jobs -> Job]
BY DEF TypeOK

LEMMA JobsReconciled ==
  ASSUME TypeOK, job' = Reconciled
  PROVE  job' \in [Jobs -> Job]
BY ReconciledTyped

LEMMA RestStays ==
  ASSUME TypeOK, rebase' = rebase, agent' = agent, tree' = tree
  PROVE  /\ rebase' \in [Issues -> Rebase]
         /\ agent' \in [Issues -> Hosts \cup {None}]
         /\ tree' \in [Issues -> BOOLEAN]
BY DEF TypeOK

\* A step of a command that writes neither a lease nor the record.
LEMMA GoesOrdinary ==
  ASSUME TypeOK, Hosted, NEW i \in Issues, cmd[i] # None, NEW pc \in Step,
         Goto(i, pc) \/ Ends(i), pc \in LaunchStep => cmd[i].pc \in LaunchStep,
         lease' = lease, record' \in [Issues -> Record],
         job' = job \/ job' = Reconciled, rebase' = rebase,
         agent' \in [Issues -> Hosts \cup {None}], tree' \in [Issues -> BOOLEAN]
  PROVE  Ordinary
<1>1. cmd' \in [Issues -> Command \cup {None}] /\ Hosted'
  BY CommandTyped
<1>2. lease' \in [Issues -> Lease \cup {None}] /\ Narrows
  BY Unleased
<1>3. job' \in [Jobs -> Job]
  BY JobsStay, JobsReconciled
<1>4. rebase' \in [Issues -> Rebase]
  BY DEF TypeOK
<1> QED
  BY <1>1, <1>2, <1>3, <1>4 DEF Ordinary, TypeOK

LEMMA BeginLaunchOrdinary ==
  ASSUME TypeOK, Hosted, NEW i \in Issues, NEW h \in Hosts, NEW verb \in {"launch", "replace"},
         BeginLaunch(i, h, verb)
  PROVE  Ordinary
<1> DEFINE c == [verb |-> verb, pc |-> "reclaim", next |-> None, host |-> h, token |-> None,
                 took |-> FALSE]
<1>1. c \in Command
  BY DEF Command, Step
<1>2. cmd' = [cmd EXCEPT ![i] = c] /\ UNCHANGED <<lease, job, record, rebase, agent, tree>>
  BY DEF BeginLaunch
<1>3. c.host \in Hosts
  OBVIOUS
<1> HIDE DEF c
<1>4. cmd' \in [Issues -> Command \cup {None}]
  BY <1>1, <1>2 DEF TypeOK
<1>5. cmd'[i] = c /\ \A k \in Issues : k # i => cmd'[k] = cmd[k]
  BY <1>2 DEF TypeOK
<1>6. Hosted'
  BY <1>3, <1>5 DEF Hosted
<1>7. lease' \in [Issues -> Lease \cup {None}] /\ Narrows
  BY <1>2, Unleased
<1> QED
  BY <1>2, <1>4, <1>6, <1>7 DEF Ordinary, TypeOK

LEMMA ReclaimOrdinary ==
  ASSUME TypeOK, Hosted, NEW i \in Issues, Reclaim(i)
  PROVE  Ordinary
<1>1. cmd[i] # None /\ cmd[i].pc = "reclaim" /\ Goto(i, "reserve")
  BY DEF Reclaim, At
<1>2. "reserve" \in Step /\ "reclaim" \in LaunchStep
  BY DEF Step, LaunchStep
<1>3. cmd' \in [Issues -> Command \cup {None}] /\ Hosted'
  BY <1>1, <1>2, CommandTyped
<1>4. \/ lease' = [k \in Issues |-> IF Reclaimable(k) THEN None ELSE lease[k]]
      \/ lease' = lease
  BY DEF Reclaim
<1>5. lease' \in [Issues -> Lease \cup {None}]
  BY <1>4 DEF TypeOK
<1>6. \A k \in Issues : lease'[k] # None => lease'[k] = lease[k]
  BY <1>4 DEF TypeOK
<1>7. Narrows
  BY <1>6 DEF Narrows
<1>8. UNCHANGED <<job, record, rebase, agent, tree>>
  BY DEF Reclaim
<1> QED
  BY <1>3, <1>5, <1>7, <1>8 DEF Ordinary, TypeOK

LEMMA ReuseOrdinary ==
  ASSUME TypeOK, Hosted, NEW i \in Issues, Reuse(i)
  PROVE  Ordinary
<1>1. /\ cmd[i] # None /\ cmd[i].pc = "reserve"
      /\ Holds(i, record[i].token)
      /\ cmd' = [cmd EXCEPT ![i].pc = "initialize", ![i].token = record[i].token]
      /\ UNCHANGED <<lease, job, record, rebase, agent, tree>>
  BY DEF Reuse, At
<1> DEFINE c == [cmd[i] EXCEPT !.pc = "initialize", !.token = record[i].token]
<1>2. cmd[i] \in Command /\ record[i].token \in Tokens \cup {None}
  BY <1>1 DEF TypeOK, Record
<1>3. c \in Command /\ c.host = cmd[i].host
  BY <1>2 DEF Command, Step
<1>4. cmd' = [cmd EXCEPT ![i] = c]
  BY <1>1
<1>5. cmd[i].host \in Hosts
  BY <1>1 DEF Hosted, LaunchStep
<1> HIDE DEF c
<1>6. cmd' \in [Issues -> Command \cup {None}]
  BY <1>3, <1>4 DEF TypeOK
<1>7. cmd'[i] = c /\ \A k \in Issues : k # i => cmd'[k] = cmd[k]
  BY <1>4 DEF TypeOK
<1>8. Hosted'
  BY <1>3, <1>5, <1>7 DEF Hosted
<1>9. lease' \in [Issues -> Lease \cup {None}] /\ Narrows
  BY <1>1, Unleased
<1> QED
  BY <1>1, <1>6, <1>8, <1>9 DEF Ordinary, TypeOK

LEMMA RefusedOrdinary ==
  ASSUME TypeOK, Hosted, NEW i \in Issues, Refused(i)
  PROVE  Ordinary
<1>1. cmd[i] # None /\ Ends(i) /\ UNCHANGED <<lease, job, record, rebase, agent, tree>>
  BY DEF Refused, At
<1>2. "return" \in Step /\ "return" \notin LaunchStep
  BY DEF Step, LaunchStep
<1>3. /\ record' \in [Issues -> Record]
      /\ agent' \in [Issues -> Hosts \cup {None}] /\ tree' \in [Issues -> BOOLEAN]
  BY <1>1 DEF TypeOK
<1> QED
  BY <1>1, <1>2, <1>3, GoesOrdinary

\* What a command's step leaves alone keeps its type.
LEMMA Kind ==
  ASSUME TypeOK
  PROVE  /\ job' = job => job' \in [Jobs -> Job]
         /\ job' = Reconciled => job' \in [Jobs -> Job]
         /\ record' = record => record' \in [Issues -> Record]
         /\ agent' = agent => agent' \in [Issues -> Hosts \cup {None}]
         /\ tree' = tree => tree' \in [Issues -> BOOLEAN]
         /\ \A i \in Issues : record[i] \in Record
BY ReconciledTyped DEF TypeOK

LEMMA AnnounceOrdinary ==
  ASSUME TypeOK, Hosted, NEW i \in Issues, Announce(i)
  PROVE  Ordinary
<1>1. cmd[i] # None /\ cmd[i].pc = "announce"
  BY DEF Announce, At
<1>2. Persist(i, record[i], "replacing", "fence") /\ UNCHANGED <<job, rebase, agent, tree>>
  BY DEF Announce
<1>3. "fence" \in Step /\ "announce" \in LaunchStep /\ "replacing" \in Attempted
  BY DEF Step, LaunchStep, Attempted
<1> QED
  BY <1>1, <1>2, <1>3, Kind, PersistOrdinary

LEMMA ConfirmOrdinary ==
  ASSUME TypeOK, Hosted, NEW i \in Issues, Confirm(i)
  PROVE  Ordinary
<1>1. cmd[i] # None /\ cmd[i].pc = "confirm"
  BY DEF Confirm, At
<1>2. Persist(i, record[i], "replacing", "move") /\ UNCHANGED <<job, rebase, agent, tree>>
  BY DEF Confirm
<1>3. "move" \in Step /\ "confirm" \in LaunchStep /\ "replacing" \in Attempted
  BY DEF Step, LaunchStep, Attempted
<1> QED
  BY <1>1, <1>2, <1>3, Kind, PersistOrdinary

LEMMA InitializeOrdinary ==
  ASSUME TypeOK, Hosted, NEW i \in Issues, Initialize(i)
  PROVE  Ordinary
<1> DEFINE saved == [record[i] EXCEPT !.host = cmd[i].host]
<1>1. cmd[i] # None /\ cmd[i].pc = "initialize"
  BY DEF Initialize, At
<1>2. Persist(i, saved, "starting", "prepare") /\ UNCHANGED <<job, rebase, agent, tree>>
  BY DEF Initialize
<1>3. "prepare" \in Step /\ "initialize" \in LaunchStep /\ "starting" \in Attempted
  BY DEF Step, LaunchStep, Attempted
<1>4. cmd[i].host \in Hosts
  BY <1>1, <1>3 DEF Hosted
<1>5. saved \in Record
  BY <1>4, Kind DEF Record
<1> HIDE DEF saved
<1> QED
  BY <1>1, <1>2, <1>3, <1>5, Kind, PersistOrdinary

LEMMA DeliverOrdinary ==
  ASSUME TypeOK, Hosted, NEW i \in Issues, Deliver(i)
  PROVE  Ordinary
<1>1. cmd[i] # None /\ cmd[i].pc = "deliver" /\ UNCHANGED <<job, rebase, agent, tree>>
  BY DEF Deliver, At
<1>2. "deliver" \in LaunchStep /\ "running" \in Attempted
  BY DEF LaunchStep, Attempted
<1>3. CASE Persist(i, record[i], "running", None)
  BY <1>1, <1>2, <1>3, Kind, PersistOrdinary
<1>4. CASE Fails(i)
  BY <1>1, <1>2, <1>4, Kind, FailsOrdinary
<1> QED
  BY <1>3, <1>4 DEF Deliver

LEMMA PrepareOrdinary ==
  ASSUME TypeOK, Hosted, NEW i \in Issues, Prepare(i)
  PROVE  Ordinary
<1> DEFINE saved == [record[i] EXCEPT !.tree = TRUE]
<1>1. cmd[i] # None /\ cmd[i].pc = "prepare" /\ UNCHANGED <<job, rebase, agent>>
  BY DEF Prepare, At
<1>2. "start" \in Step /\ "prepare" \in LaunchStep /\ {"starting", "uncertain"} \subseteq Attempted
  BY DEF Step, LaunchStep, Attempted
<1>3. saved \in Record
  BY Kind DEF Record
<1>4. tree' \in {tree, [tree EXCEPT ![i] = TRUE]}
  BY DEF Prepare
<1>5. tree' \in [Issues -> BOOLEAN]
  BY <1>4 DEF TypeOK
<1>6. CASE Persist(i, saved, "starting", "start")
  <2> HIDE DEF saved
  <2> QED
    BY <1>1, <1>2, <1>3, <1>5, <1>6, Kind, PersistOrdinary
<1>7. CASE Persist(i, saved, "uncertain", None)
  <2> HIDE DEF saved
  <2> QED
    BY <1>1, <1>2, <1>3, <1>5, <1>7, Kind, PersistOrdinary
<1>8. CASE Fails(i)
  BY <1>1, <1>2, <1>5, <1>8, Kind, FailsOrdinary
<1> QED
  BY <1>6, <1>7, <1>8 DEF Prepare

LEMMA StopSourceOrdinary ==
  ASSUME TypeOK, Hosted, NEW i \in Issues, StopSource(i)
  PROVE  Ordinary
<1>1. cmd[i] # None /\ cmd[i].pc = "stop" /\ UNCHANGED <<lease, job, record, rebase, tree>>
  BY DEF StopSource, At
<1>2. agent' \in {agent, [agent EXCEPT ![i] = None]}
  BY DEF StopSource
<1>3. agent' \in [Issues -> Hosts \cup {None}]
  BY <1>2 DEF TypeOK
<1>4. "stopped" \in Step /\ "remains" \in Step /\ "stop" \in LaunchStep
  BY DEF Step, LaunchStep
<1>5. Goto(i, "stopped") \/ Goto(i, "remains")
  BY DEF StopSource
<1> QED
  BY <1>1, <1>3, <1>4, <1>5, Kind, GoesOrdinary

LEMMA StartAgentOrdinary ==
  ASSUME TypeOK, Hosted, NEW i \in Issues, StartAgent(i)
  PROVE  Ordinary
<1>1. cmd[i] # None /\ cmd[i].pc = "start" /\ UNCHANGED <<job, rebase, tree>>
  BY DEF StartAgent, At
<1>2. "start" \in LaunchStep /\ "deliver" \in Step /\ "release" \in Step /\ "start" \in Step
  BY DEF Step, LaunchStep
<1>3. cmd[i].host \in Hosts
  BY <1>1, <1>2 DEF Hosted
<1>4. \/ agent' \in {agent, [agent EXCEPT ![i] = None], [agent EXCEPT ![i] = cmd[i].host]}
      \/ agent' = [agent EXCEPT ![i] = IF @ = None THEN cmd[i].host ELSE @]
  BY DEF StartAgent
<1>5. agent' \in [Issues -> Hosts \cup {None}]
  BY <1>3, <1>4 DEF TypeOK
<1>6. CASE Fails(i)
  BY <1>1, <1>2, <1>5, <1>6, Kind, FailsOrdinary
<1>7. CASE ~Fails(i)
  <2>1. UNCHANGED <<lease, record>> /\ (Goto(i, "deliver") \/ Goto(i, "release") \/ cmd' = cmd)
    BY <1>7 DEF StartAgent
  <2>2. cmd' = cmd => Goto(i, "start")
    <3>1. cmd = [cmd EXCEPT ![i] = [cmd[i] EXCEPT !.pc = "start"]]
      BY <1>1 DEF TypeOK, Command
    <3> QED
      BY <3>1 DEF Goto
  <2> QED
    BY <1>1, <1>2, <1>5, <2>1, <2>2, Kind, GoesOrdinary
<1> QED
  BY <1>6, <1>7

LEMMA FenceSourceOrdinary ==
  ASSUME TypeOK, Hosted, NEW i \in Issues, FenceSource(i)
  PROVE  Ordinary
<1>1. cmd[i] # None /\ cmd[i].pc = "fence" /\ UNCHANGED <<rebase, agent, tree>>
  BY DEF FenceSource, At
<1>2. "stop" \in Step /\ "fence" \in LaunchStep
  BY DEF Step, LaunchStep
<1>3. CASE Mine(i)
  <2> DEFINE active == JobsIn(Reconciled, i) # {}
  <2>1. job' = Reconciled /\ Fenced(i, active) /\ Goto(i, "stop") /\ record' = record
    BY <1>3 DEF FenceSource
  <2>2. lease[i] # None /\ active \in BOOLEAN
    BY <1>3 DEF Mine, Holds
  <2> HIDE DEF active
  <2>3. lease' \in [Issues -> Lease \cup {None}] /\ Narrows
    BY <2>1, <2>2, FencedTyped
  <2>4. cmd' \in [Issues -> Command \cup {None}] /\ Hosted'
    BY <1>1, <1>2, <2>1, CommandTyped
  <2> QED
    BY <1>1, <2>1, <2>3, <2>4, Kind DEF Ordinary, TypeOK
<1>4. CASE ~Mine(i)
  BY <1>1, <1>2, <1>4, Kind, FailsOrdinary DEF FenceSource
<1> QED
  BY <1>3, <1>4

LEMMA VerifySourceOrdinary ==
  ASSUME TypeOK, Hosted, NEW i \in Issues, VerifySource(i)
  PROVE  Ordinary
<1>1. /\ cmd[i] # None /\ cmd[i].pc \in {"stopped", "remains"}
      /\ UNCHANGED <<rebase, agent, tree>> /\ job' = Reconciled
  BY DEF VerifySource, At
<1>2. "confirm" \in Step /\ {"stopped", "remains"} \subseteq LaunchStep
  BY DEF Step, LaunchStep
<1>3. (Goto(i, "confirm") /\ UNCHANGED <<lease, record>>) \/ Fails(i)
  BY DEF VerifySource
<1>4. CASE Goto(i, "confirm") /\ UNCHANGED <<lease, record>>
  BY <1>1, <1>2, <1>4, Kind, GoesOrdinary
<1>5. CASE Fails(i)
  BY <1>1, <1>2, <1>5, Kind, FailsOrdinary
<1> QED
  BY <1>3, <1>4, <1>5

LEMMA MoveOrdinary ==
  ASSUME TypeOK, Hosted, NEW i \in Issues, Move(i)
  PROVE  Ordinary
<1>1. /\ cmd[i] # None /\ cmd[i].pc = "move"
      /\ UNCHANGED <<rebase, agent, tree>> /\ job' = Reconciled
  BY DEF Move, At
<1>2. "initialize" \in Step /\ "move" \in LaunchStep
  BY DEF Step, LaunchStep
<1>3. CASE Fails(i)
  BY <1>1, <1>2, <1>3, Kind, FailsOrdinary
<1>4. CASE ~Fails(i)
  <2>1. /\ lease[i] # None /\ lease[i].pending = cmd[i].host
        /\ lease' = [lease EXCEPT ![i].host = cmd[i].host, ![i].pending = None]
        /\ Goto(i, "initialize") /\ record' = record
    BY <1>4 DEF Move, Mine, Holds
  <2> DEFINE x == [lease[i] EXCEPT !.host = cmd[i].host, !.pending = None]
  <2>2. cmd[i].host \in Hosts
    BY <1>1, <1>2 DEF Hosted
  <2>3. lease[i] \in Lease
    BY <2>1 DEF TypeOK
  <2>4. x \in Lease /\ x.host = cmd[i].host /\ x.pending = None
    BY <2>2, <2>3 DEF Lease
  <2>5. lease' = [lease EXCEPT ![i] = x]
    BY <2>1
  <2> HIDE DEF x
  <2>6. lease' \in [Issues -> Lease \cup {None}] /\ Narrows
    BY <2>1, <2>4, <2>5, Replaced
  <2>7. cmd' \in [Issues -> Command \cup {None}] /\ Hosted'
    BY <1>1, <1>2, <2>1, CommandTyped
  <2> QED
    BY <1>1, <2>1, <2>6, <2>7, Kind DEF Ordinary, TypeOK
<1> QED
  BY <1>3, <1>4

LEMMA ReleasedTyped ==
  ASSUME TypeOK, NEW i \in Issues, NEW token, Released(i, token)
  PROVE  lease' \in [Issues -> Lease \cup {None}] /\ Narrows /\ job' \in [Jobs -> Job]
<1>1. lease' = [lease EXCEPT ![i] = None] \/ lease' = lease
  BY DEF Released
<1>2. job' = Reconciled
  BY DEF Released
<1> QED
  BY <1>1, <1>2, Removed, Unleased, ReconciledTyped

LEMMA ReleaseAttemptOrdinary ==
  ASSUME TypeOK, Hosted, NEW i \in Issues, ReleaseAttempt(i)
  PROVE  Ordinary
<1>1. cmd[i] # None /\ cmd[i].pc = "release" /\ UNCHANGED <<rebase, agent, tree>>
  BY DEF ReleaseAttempt, At
<1>2. "release" \in LaunchStep
  BY DEF LaunchStep
<1>3. CASE Busy(i, cmd[i].token)
  <2>1. Fails(i) /\ job' = Reconciled
    BY <1>3 DEF ReleaseAttempt
  <2> QED
    BY <1>1, <1>2, <2>1, Kind, FailsOrdinary
<1>4. CASE ~Busy(i, cmd[i].token)
  <2> DEFINE c == [cmd[i] EXCEPT !.pc = "drop", !.took = FALSE]
  <2>1. /\ Released(i, cmd[i].token) /\ cmd' = [cmd EXCEPT ![i] = c]
        /\ record' = record
    BY <1>4 DEF ReleaseAttempt
  <2>2. cmd[i] \in Command /\ cmd[i].host \in Hosts
    BY <1>1, <1>2 DEF TypeOK, Hosted
  <2>3. c \in Command /\ c.host = cmd[i].host
    BY <2>2 DEF Command, Step
  <2> HIDE DEF c
  <2>4. cmd' \in [Issues -> Command \cup {None}]
    BY <2>1, <2>3 DEF TypeOK
  <2>5. cmd'[i] = c /\ \A k \in Issues : k # i => cmd'[k] = cmd[k]
    BY <2>1 DEF TypeOK
  <2>6. Hosted'
    BY <2>2, <2>3, <2>5 DEF Hosted
  <2>7. lease' \in [Issues -> Lease \cup {None}] /\ Narrows /\ job' \in [Jobs -> Job]
    BY <2>1, ReleasedTyped
  <2> QED
    BY <1>1, <2>1, <2>4, <2>6, <2>7, Kind DEF Ordinary, TypeOK
<1> QED
  BY <1>3, <1>4

LEMMA DropStageOrdinary ==
  ASSUME TypeOK, Hosted, NEW i \in Issues, DropStage(i)
  PROVE  Ordinary
<1> DEFINE r == [record[i] EXCEPT !.stage = "", !.token = None]
<1>1. /\ cmd[i] # None /\ Ends(i) /\ UNCHANGED <<lease, job, rebase, agent, tree>>
      /\ record' = [record EXCEPT ![i] = r]
  BY DEF DropStage, At
<1>2. "return" \in Step /\ "return" \notin LaunchStep
  BY DEF Step, LaunchStep
<1>3. r \in Record
  BY Kind DEF Record
<1> HIDE DEF r
<1>4. record' \in [Issues -> Record]
  BY <1>1, <1>3 DEF TypeOK
<1> QED
  BY <1>1, <1>2, <1>4, Kind, GoesOrdinary

\* The patch that a record's write leaves due.
LEMMA PatchOrdinary ==
  ASSUME TypeOK, Hosted, NEW i \in Issues, Due(i), Patch(i)
  PROVE  Ordinary
<1>1. /\ cmd[i] # None /\ cmd[i].pc = "patch" /\ cmd[i].pc \in LaunchStep
      /\ UNCHANGED <<job, rebase, agent, tree>>
  BY DEF Patch, At, LaunchStep
<1>2. /\ cmd[i] \in Command /\ cmd[i].host \in Hosts /\ record[i] \in Record
      /\ record[i].stage \in Attempted
  BY <1>1, Kind DEF TypeOK, Hosted, Due
<1>3. CASE Mine(i)
  <2> DEFINE x == [lease[i] EXCEPT !.stage = record[i].stage, !.tree = @ \/ record[i].tree]
  <2>1. /\ lease[i] # None /\ lease' = [lease EXCEPT ![i] = x] /\ record' = record
    BY <1>3 DEF Patch, Mine, Holds
  <2>2. lease[i] \in Lease /\ record[i].stage \in LeaseStage /\ record[i].tree \in BOOLEAN
    BY <1>2, <2>1 DEF TypeOK, Attempted, LeaseStage, Record
  <2>3. x \in Lease
    BY <2>2, StageTyped
  <2>4. x.host = lease[i].host /\ x.pending = lease[i].pending
    BY <2>2 DEF Lease
  <2> HIDE DEF x
  <2>5. lease' \in [Issues -> Lease \cup {None}] /\ Narrows
    BY <2>1, <2>3, <2>4, Replaced
  <2>6. cmd' \in [Issues -> Command \cup {None}] /\ Hosted'
    <3>1. CASE cmd[i].next = None
      <4>1. Ends(i)
        BY <1>3, <3>1 DEF Patch
      <4> QED
        BY <4>1, EndsTyped DEF Hosted
    <3>2. CASE cmd[i].next # None
      <4> DEFINE c == [cmd[i] EXCEPT !.pc = cmd[i].next, !.next = None]
      <4>1. cmd' = [cmd EXCEPT ![i] = c]
        BY <1>3, <3>2 DEF Patch
      <4>2. cmd[i].next \in Step
        BY <1>2, <3>2 DEF Command
      <4>3. c \in Command /\ c.host = cmd[i].host
        BY <1>2, <4>2 DEF Command
      <4> HIDE DEF c
      <4>4. cmd' \in [Issues -> Command \cup {None}]
        BY <4>1, <4>3 DEF TypeOK
      <4>5. cmd'[i] = c /\ \A k \in Issues : k # i => cmd'[k] = cmd[k]
        BY <4>1 DEF TypeOK
      <4> QED
        BY <1>2, <4>3, <4>4, <4>5 DEF Hosted
    <3> QED
      BY <3>1, <3>2
  <2> QED
    BY <1>1, <2>1, <2>5, <2>6, Kind DEF Ordinary, TypeOK
<1>4. CASE ~Mine(i)
  <2> DEFINE r == [record[i] EXCEPT !.stage = "uncertain"]
  <2>1. record' = [record EXCEPT ![i] = r] /\ Ends(i) /\ lease' = lease
    BY <1>4 DEF Patch
  <2>2. r \in Record
    BY <1>2 DEF Record
  <2> HIDE DEF r
  <2>3. record' \in [Issues -> Record]
    BY <2>1, <2>2 DEF TypeOK
  <2>4. "return" \in Step /\ "return" \notin LaunchStep
    BY DEF Step, LaunchStep
  <2> QED
    BY <1>1, <2>1, <2>3, <2>4, Kind, GoesOrdinary
<1> QED
  BY <1>3, <1>4

-----------------------------------------------------------------------------
(* Finish. *)

LEMMA IncompleteTyped ==
  ASSUME TypeOK, NEW i \in Issues, NEW stage \in {"cleanup-incomplete", "finished"},
         record' = record \/ record' = [record EXCEPT ![i].stage = stage]
  PROVE  record' \in [Issues -> Record]
<1> DEFINE r == [record[i] EXCEPT !.stage = stage]
<1>1. r \in Record
  BY Kind DEF Record
<1>2. record' = record \/ record' = [record EXCEPT ![i] = r]
  OBVIOUS
<1> HIDE DEF r
<1> QED
  BY <1>1, <1>2 DEF TypeOK

\* Every step of a finish but its fence and its return.
LEMMA FinishStepOrdinary ==
  ASSUME TypeOK, Hosted, NEW i \in Issues, cmd[i] # None,
         NEW pc \in {"quiet", "verify", "recheck", "remove", "settle", "return"},
         NEW stage \in {"cleanup-incomplete", "finished"},
         Goto(i, pc) \/ Ends(i),
         record' = record \/ record' = [record EXCEPT ![i].stage = stage],
         lease' = lease, job' = job \/ job' = Reconciled, rebase' = rebase,
         agent' \in {agent, [agent EXCEPT ![i] = None]},
         tree' \in {tree, [tree EXCEPT ![i] = FALSE]}
  PROVE  Ordinary
<1>1. pc \in Step /\ pc \notin LaunchStep
  BY DEF Step, LaunchStep
<1>2. record' \in [Issues -> Record]
  BY IncompleteTyped
<1>3. agent' \in [Issues -> Hosts \cup {None}]
  BY DEF TypeOK
<1>4. tree' \in [Issues -> BOOLEAN]
  BY DEF TypeOK
<1> QED
  BY <1>1, <1>2, <1>3, <1>4, GoesOrdinary

LEMMA BeginFinishOrdinary ==
  ASSUME TypeOK, Hosted, NEW i \in Issues, BeginFinish(i)
  PROVE  Ordinary
<1> DEFINE pc == IF record[i].stage = "finished" THEN "return"
                 ELSE IF record[i].tree THEN "own" ELSE "settle"
<1> DEFINE c == [verb |-> "finish", pc |-> pc, next |-> None, host |-> None,
                 token |-> record[i].token, took |-> FALSE]
<1>1. cmd' = [cmd EXCEPT ![i] = c] /\ UNCHANGED <<lease, job, record, rebase, agent, tree>>
  BY DEF BeginFinish
<1>2. record[i].token \in Tokens \cup {None}
  BY Kind DEF Record
<1>3. pc \in Step /\ pc \notin LaunchStep
  BY DEF Step, LaunchStep
<1> HIDE DEF pc
<1>4. c \in Command /\ c.pc = pc
  BY <1>2, <1>3 DEF Command
<1> HIDE DEF c
<1>5. cmd' \in [Issues -> Command \cup {None}]
  BY <1>1, <1>4 DEF TypeOK
<1>6. cmd'[i] = c /\ \A k \in Issues : k # i => cmd'[k] = cmd[k]
  BY <1>1 DEF TypeOK
<1>7. Hosted'
  BY <1>3, <1>4, <1>6 DEF Hosted
<1>8. lease' \in [Issues -> Lease \cup {None}] /\ Narrows
  BY <1>1, Unleased
<1> QED
  BY <1>1, <1>5, <1>7, <1>8 DEF Ordinary, TypeOK

LEMMA OwnCleanupOrdinary ==
  ASSUME TypeOK, Hosted, NEW i \in Issues, OwnCleanup(i)
  PROVE  Ordinary
<1>1. cmd[i] # None /\ cmd[i].pc = "own" /\ UNCHANGED <<rebase, agent, tree>>
  BY DEF OwnCleanup, At
<1>2. CASE Mine(i)
  <2> DEFINE active == JobsIn(Reconciled, i) # {}
  <2> DEFINE pc == IF tree[i] THEN "exit" ELSE "gone"
  <2>1. job' = Reconciled /\ Fenced(i, active) /\ Goto(i, pc) /\ record' = record
    BY <1>2 DEF OwnCleanup
  <2>2. lease[i] # None /\ active \in BOOLEAN
    BY <1>2 DEF Mine, Holds
  <2>3. pc \in Step /\ pc \notin LaunchStep
    BY DEF Step, LaunchStep
  <2> HIDE DEF active, pc
  <2>4. lease' \in [Issues -> Lease \cup {None}] /\ Narrows
    BY <2>1, <2>2, FencedTyped
  <2>5. cmd' \in [Issues -> Command \cup {None}] /\ Hosted'
    BY <1>1, <2>1, <2>3, CommandTyped
  <2> QED
    BY <1>1, <2>1, <2>4, <2>5, Kind DEF Ordinary, TypeOK
<1>3. CASE ~Mine(i)
  <2>1. Incomplete(i) /\ UNCHANGED <<lease, job>>
    BY <1>3 DEF OwnCleanup
  <2> QED
    BY <1>1, <2>1, FinishStepOrdinary DEF Incomplete
<1> QED
  BY <1>2, <1>3

LEMMA FinishingOrdinary ==
  ASSUME TypeOK, Hosted, NEW i \in Issues, Finishing(i)
  PROVE  Ordinary
<1>1. CASE ExitAgent(i)
  <2>1. cmd[i] # None /\ UNCHANGED <<lease, job, rebase, tree>>
    BY <1>1 DEF ExitAgent, At
  <2>2. \/ agent' = [agent EXCEPT ![i] = None] /\ Goto(i, "quiet") /\ UNCHANGED record
        \/ agent' \in {agent, [agent EXCEPT ![i] = None]} /\ Incomplete(i)
    BY <1>1 DEF ExitAgent
  <2> QED
    BY <2>1, <2>2, FinishStepOrdinary DEF Incomplete
<1>2. CASE AwaitQuiet(i)
  <2>1. cmd[i] # None /\ UNCHANGED <<lease, job, rebase, agent, tree>>
    BY <1>2 DEF AwaitQuiet, At
  <2>2. (Goto(i, "verify") /\ UNCHANGED record) \/ Incomplete(i)
    BY <1>2 DEF AwaitQuiet
  <2> QED
    BY <2>1, <2>2, FinishStepOrdinary DEF Incomplete
<1>3. CASE VerifyNoJobs(i)
  <2>1. cmd[i] # None /\ job' = Reconciled /\ UNCHANGED <<lease, rebase, agent, tree>>
    BY <1>3 DEF VerifyNoJobs, At
  <2>2. (Goto(i, "recheck") /\ UNCHANGED record) \/ Incomplete(i)
    BY <1>3 DEF VerifyNoJobs
  <2> QED
    BY <2>1, <2>2, FinishStepOrdinary DEF Incomplete
<1>4. CASE Recheck(i)
  <2>1. cmd[i] # None /\ UNCHANGED <<lease, job, rebase, agent, tree>>
    BY <1>4 DEF Recheck, At
  <2>2. \/ record' = [record EXCEPT ![i].stage = "cleanup-incomplete"] /\ Goto(i, "remove")
        \/ Incomplete(i)
    BY <1>4 DEF Recheck
  <2> QED
    BY <2>1, <2>2, FinishStepOrdinary DEF Incomplete
<1>5. CASE Remove(i)
  <2>1. cmd[i] # None /\ UNCHANGED <<lease, job, rebase, agent>>
    BY <1>5 DEF Remove, At
  <2>2. \/ tree' = [tree EXCEPT ![i] = FALSE] /\ Goto(i, "settle") /\ UNCHANGED record
        \/ tree' \in {tree, [tree EXCEPT ![i] = FALSE]} /\ Incomplete(i)
    BY <1>5 DEF Remove
  <2> QED
    BY <2>1, <2>2, FinishStepOrdinary DEF Incomplete
<1>6. CASE VerifyRemoved(i)
  <2>1. cmd[i] # None /\ job' = Reconciled /\ UNCHANGED <<lease, rebase, agent, tree>>
    BY <1>6 DEF VerifyRemoved, At
  <2>2. (Goto(i, "settle") /\ UNCHANGED record) \/ Incomplete(i)
    BY <1>6 DEF VerifyRemoved
  <2> QED
    BY <2>1, <2>2, FinishStepOrdinary DEF Incomplete
<1>7. CASE Settle(i)
  <2>1. cmd[i] # None /\ UNCHANGED <<lease, job, rebase, agent, tree>>
    BY <1>7 DEF Settle, At
  <2>2. \/ record' = [record EXCEPT ![i].stage = "finished"] /\ Goto(i, "return")
        \/ Incomplete(i)
    BY <1>7 DEF Settle
  <2> QED
    BY <2>1, <2>2, FinishStepOrdinary DEF Incomplete
<1>8. CASE Return(i)
  <2>1. cmd[i] # None /\ Ends(i) /\ UNCHANGED <<record, rebase, agent, tree>>
    BY <1>8 DEF Return, At
  <2>2. "return" \in Step /\ "return" \notin LaunchStep
    BY DEF Step, LaunchStep
  <2>3. cmd' \in [Issues -> Command \cup {None}] /\ Hosted'
    BY <2>1, <2>2, CommandTyped
  <2>4. \/ Released(i, record[i].token)
        \/ lease' = lease /\ (job' = Reconciled \/ job' = job)
    BY <1>8 DEF Return
  <2>5. lease' \in [Issues -> Lease \cup {None}] /\ Narrows /\ job' \in [Jobs -> Job]
    BY <2>4, ReleasedTyped, Unleased, Kind
  <2> QED
    BY <2>1, <2>3, <2>5, Kind DEF Ordinary, TypeOK
<1> QED
  BY <1>1, <1>2, <1>3, <1>4, <1>5, <1>6, <1>7, <1>8, BeginFinishOrdinary, OwnCleanupOrdinary
  DEF Finishing

-----------------------------------------------------------------------------
(* The engine, the jobs and what leaves. *)

LEMMA CommandsStay ==
  ASSUME TypeOK, Hosted, cmd' = cmd
  PROVE  cmd' \in [Issues -> Command \cup {None}] /\ Hosted'
BY DEF TypeOK, Hosted

LEMMA RebasingOrdinary ==
  ASSUME TypeOK, Hosted, NEW i \in Issues, Rebasing(i)
  PROVE  Ordinary
<1>2. "running" \in LeaseStage /\ "rebasing" \in LeaseStage
  BY DEF LeaseStage
<1>3. CASE Adopt(i)
  <2>1. /\ record' = [record EXCEPT ![i].stage = "running"]
        /\ UNCHANGED <<job, cmd, rebase, agent, tree>>
        /\ (lease[i] # None /\ Stages(i, "running")) \/ lease' = lease
    BY <1>3 DEF Adopt, Holds, Stages
  <2> DEFINE r == [record[i] EXCEPT !.stage = "running"]
  <2>2. r \in Record
    BY Kind DEF Record
  <2>3. record' = [record EXCEPT ![i] = r]
    BY <2>1
  <2> HIDE DEF r
  <2>4. record' \in [Issues -> Record]
    BY <2>2, <2>3 DEF TypeOK
  <2>5. lease' \in [Issues -> Lease \cup {None}] /\ Narrows
    BY <1>2, <2>1, Restaged, Unleased
  <2> QED
    BY <2>1, <2>4, <2>5, CommandsStay DEF Ordinary, TypeOK
<1>4. CASE ~Adopt(i)
  <2>1. /\ \E pc \in {"no", "due", "fenced", "replay", "lift", "cut"},
             token \in {None, record[i].token, rebase[i].token} : RebaseTo(i, pc, token)
        /\ UNCHANGED <<record, cmd, agent, tree>> /\ (job' = job \/ job' = Reconciled)
        /\ (lease[i] # None /\ (Stages(i, "running") \/ Stages(i, "rebasing"))) \/ lease' = lease
    <3>1. CASE RebaseBegin(i)
      BY <3>1 DEF RebaseBegin
    <3>2. CASE RebaseFence(i)
      BY <3>2 DEF RebaseFence, Holds
    <3>3. CASE RebaseCheck(i)
      BY <3>3 DEF RebaseCheck
    <3>4. CASE RebaseEnds(i)
      BY <3>4 DEF RebaseEnds, Holds
    <3>5. CASE RebaseCut(i)
      BY <3>5 DEF RebaseCut
    <3>6. CASE RebaseRecover(i)
      BY <3>6 DEF RebaseRecover
    <3> QED
      BY <1>4, <3>1, <3>2, <3>3, <3>4, <3>5, <3>6 DEF Rebasing
  <2>2. rebase' \in [Issues -> Rebase]
    <3>1. PICK pc \in {"no", "due", "fenced", "replay", "lift", "cut"},
               token \in {None, record[i].token, rebase[i].token} : RebaseTo(i, pc, token)
      BY <2>1
    <3>2. rebase[i] \in Rebase /\ record[i] \in Record
      BY DEF TypeOK
    <3>3. token \in Tokens \cup {None}
      BY <3>2 DEF Rebase, Record
    <3>4. [pc |-> pc, token |-> token] \in Rebase
      BY <3>3 DEF Rebase
    <3> QED
      BY <3>1, <3>4 DEF RebaseTo, TypeOK
  <2>3. lease' \in [Issues -> Lease \cup {None}] /\ Narrows
    BY <1>2, <2>1, Restaged, Unleased
  <2> QED
    BY <2>1, <2>2, <2>3, CommandsStay, Kind DEF Ordinary, TypeOK
<1> QED
  BY <1>3, <1>4

LEMMA OwnerlessTyped ==
  ASSUME TypeOK, NEW i \in Issues, lease[i] # None, lease' = [lease EXCEPT ![i].owned = FALSE]
  PROVE  lease' \in [Issues -> Lease \cup {None}] /\ Narrows
<1>1. lease[i] \in Lease
  BY DEF TypeOK
<1> DEFINE x == [lease[i] EXCEPT !.owned = FALSE]
<1>2. x \in Lease
  BY <1>1 DEF Lease
<1>3. x.host = lease[i].host /\ x.pending = lease[i].pending
  BY <1>1 DEF Lease
<1>4. lease' = [lease EXCEPT ![i] = x]
  OBVIOUS
<1> HIDE DEF x
<1> QED
  BY <1>2, <1>3, <1>4, Replaced

LEMMA LeavingOrdinary ==
  ASSUME TypeOK, Hosted, NEW i \in Issues, Leaving(i)
  PROVE  Ordinary
<1>1. CASE AgentExits(i)
  <2>1. /\ agent' = [agent EXCEPT ![i] = None]
        /\ UNCHANGED <<lease, job, record, cmd, rebase, tree>>
    BY <1>1 DEF AgentExits
  <2>2. agent' \in [Issues -> Hosts \cup {None}]
    BY <2>1 DEF TypeOK
  <2> QED
    BY <2>1, <2>2, Unleased, CommandsStay DEF Ordinary, TypeOK
<1>2. CASE CommandDies(i)
  <2>1. /\ cmd[i] # None /\ Ends(i) /\ UNCHANGED <<job, record, rebase, agent, tree>>
        /\ (lease[i] # None /\ lease' = [lease EXCEPT ![i].owned = FALSE]) \/ lease' = lease
    BY <1>2 DEF CommandDies, Mine, Holds
  <2>2. "return" \in Step /\ "return" \notin LaunchStep
    BY DEF Step, LaunchStep
  <2>3. cmd' \in [Issues -> Command \cup {None}] /\ Hosted'
    BY <2>1, <2>2, CommandTyped
  <2>4. lease' \in [Issues -> Lease \cup {None}] /\ Narrows
    BY <2>1, OwnerlessTyped, Unleased
  <2> QED
    BY <2>1, <2>3, <2>4 DEF Ordinary, TypeOK
<1>3. CASE OwnerExits(i)
  <2>1. /\ lease[i] # None /\ lease' = [lease EXCEPT ![i].owned = FALSE]
        /\ UNCHANGED <<job, record, cmd, rebase, agent, tree>>
    BY <1>3 DEF OwnerExits
  <2> QED
    BY <2>1, OwnerlessTyped, CommandsStay DEF Ordinary, TypeOK
<1> QED
  BY <1>1, <1>2, <1>3 DEF Leaving

-----------------------------------------------------------------------------
(* Jobs: their types, and that what works is leased. *)

ShapeOf(x) ==
  /\ x.pc \in {"leased", "spawned"} => x.lease = "held"
  /\ x.pc = "running" => x.lease = "grouped"
  /\ x.group = "working" => x.pc \in {"running", "dead"} /\ x.lease = "grouped"

LEMMA Shaped == JobShape <=> \A j \in Jobs : ShapeOf(job[j])
BY DEF JobShape, ShapeOf

LEMMA ReconciledShape ==
  ASSUME TypeOK, JobShape
  PROVE  /\ \A j \in Jobs : ShapeOf(Reconciled[j])
         /\ \A j \in Jobs : Reconciled[j].lease # "none" => job[j].lease # "none"
         /\ \A j \in Jobs : Reconciled[j].pc = job[j].pc
<1> SUFFICES ASSUME NEW j \in Jobs
             PROVE  /\ ShapeOf(Reconciled[j])
                    /\ Reconciled[j].lease # "none" => job[j].lease # "none"
                    /\ Reconciled[j].pc = job[j].pc
  OBVIOUS
<1>1. job[j] \in Job /\ ShapeOf(job[j])
  BY Shaped DEF TypeOK
<1>2. Reconciled[j] = IF Kept(j) THEN job[j] ELSE [job[j] EXCEPT !.lease = "none"]
  BY DEF Reconciled
<1>3. CASE Kept(j)
  BY <1>1, <1>2, <1>3
<1>4. CASE ~Kept(j)
  <2>1. job[j].pc = "dead" /\ (job[j].lease = "grouped" => job[j].group = "none")
    BY <1>4 DEF Kept
  <2>2. /\ Reconciled[j].pc = "dead" /\ Reconciled[j].group = job[j].group
        /\ Reconciled[j].lease = "none"
    BY <1>1, <1>2, <1>4, <2>1 DEF Job
  <2> QED
    BY <1>1, <2>1, <2>2 DEF ShapeOf
<1> QED
  BY <1>3, <1>4

\* A job's step on the list it found, `jobs'.
LEMMA JobStep ==
  ASSUME TypeOK, JobShape, NEW jobs \in {job, Reconciled}, NEW j \in Jobs, NEW x \in Job,
         ShapeOf(x), job' = [jobs EXCEPT ![j] = x]
  PROVE  /\ job' \in [Jobs -> Job] /\ JobShape'
         /\ job'[j] = x
         /\ \A k \in Jobs : k # j /\ job'[k].lease # "none" => job[k].lease # "none"
<1>1. jobs \in [Jobs -> Job]
  BY ReconciledTyped DEF TypeOK
<1>2. job' \in [Jobs -> Job]
  BY <1>1
<1>3. job'[j] = x /\ \A k \in Jobs : k # j => job'[k] = jobs[k]
  BY <1>1
<1>4. \A k \in Jobs : ShapeOf(jobs[k]) /\ (jobs[k].lease # "none" => job[k].lease # "none")
  BY ReconciledShape, Shaped
<1>5. \A k \in Jobs : ShapeOf(job'[k])
  BY <1>3, <1>4
<1> QED
  BY <1>2, <1>3, <1>4, <1>5 DEF JobShape, ShapeOf

LEMMA NoJobTyped == NoJob \in Job /\ ShapeOf(NoJob) /\ NoJob.lease = "none"
BY DEF NoJob, Job, ShapeOf

\* The jobs' steps but an admission.
LEMMA RunningShape ==
  ASSUME TypeOK, JobShape, NEW j \in Jobs, Running(j), ~Admit(j)
  PROVE  job' \in [Jobs -> Job] /\ JobShape' /\ Fewer
<1>1. job[j] \in Job /\ ShapeOf(job[j])
  BY Shaped DEF TypeOK
<1>2. ASSUME NEW jobs \in {job, Reconciled}, NEW x \in Job, ShapeOf(x),
             x.lease # "none" => job[j].lease # "none", job' = [jobs EXCEPT ![j] = x]
      PROVE  job' \in [Jobs -> Job] /\ JobShape' /\ Fewer
  <2>1. /\ job' \in [Jobs -> Job] /\ JobShape' /\ job'[j] = x
        /\ \A k \in Jobs : k # j /\ job'[k].lease # "none" => job[k].lease # "none"
    BY <1>2, JobStep
  <2> QED
    BY <1>2, <2>1 DEF Fewer
<1>3. CASE \E i \in Issues : Ask(j, i)
  <2>1. PICK i \in Issues : Ask(j, i)
    BY <1>3
  <2> DEFINE x == [NoJob EXCEPT !.pc = "asking", !.tree = i]
  <2>2. x \in Job /\ ShapeOf(x) /\ x.lease = "none"
    BY DEF NoJob, Job, ShapeOf
  <2>3. job' = [job EXCEPT ![j] = x]
    BY <2>1 DEF Ask
  <2> HIDE DEF x
  <2> QED
    BY <1>2, <2>2, <2>3
<1>4. CASE GiveBack(j)
  BY <1>2, <1>4, NoJobTyped DEF GiveBack
<1>5. CASE Spawn(j)
  <2> DEFINE x == [job[j] EXCEPT !.pc = "spawned", !.group = "waiting"]
  <2>1. job[j].pc = "leased" /\ job' = [job EXCEPT ![j] = x]
    BY <1>5 DEF Spawn
  <2>2. x \in Job /\ x.pc = "spawned" /\ x.group = "waiting" /\ x.lease = job[j].lease
    BY <1>1 DEF Job
  <2> HIDE DEF x
  <2>3. ShapeOf(x)
    BY <1>1, <2>1, <2>2 DEF ShapeOf
  <2> QED
    BY <1>2, <2>1, <2>2, <2>3
<1>6. CASE RecordGroup(j)
  <2>1. CASE job[j].lease = "none"
    BY <1>2, <1>6, <2>1, NoJobTyped DEF RecordGroup
  <2>2. CASE job[j].lease # "none"
    <3> DEFINE x == [job[j] EXCEPT !.pc = "running", !.lease = "grouped"]
    <3>1. job' = [job EXCEPT ![j] = x]
      BY <1>6, <2>2 DEF RecordGroup
    <3>2. x \in Job /\ x.pc = "running" /\ x.lease = "grouped"
      BY <1>1 DEF Job
    <3> HIDE DEF x
    <3>3. ShapeOf(x)
      BY <3>2 DEF ShapeOf
    <3> QED
      BY <1>2, <2>2, <3>1, <3>2, <3>3
  <2> QED
    BY <2>1, <2>2
<1>7. CASE Go(j)
  <2> DEFINE x == [job[j] EXCEPT !.group = "working"]
  <2>1. job[j].pc = "running" /\ job' = [job EXCEPT ![j] = x]
    BY <1>7 DEF Go
  <2>2. x \in Job /\ x.pc = job[j].pc /\ x.lease = job[j].lease
    BY <1>1 DEF Job
  <2> HIDE DEF x
  <2>3. ShapeOf(x)
    BY <1>1, <2>1, <2>2 DEF ShapeOf
  <2> QED
    BY <1>2, <2>1, <2>2, <2>3
<1>8. CASE GroupEnds(j)
  <2> DEFINE x == [job[j] EXCEPT !.group = "none"]
  <2>1. job' = [job EXCEPT ![j] = x]
    BY <1>8 DEF GroupEnds
  <2>2. x \in Job /\ x.pc = job[j].pc /\ x.group = "none" /\ x.lease = job[j].lease
    BY <1>1 DEF Job
  <2> HIDE DEF x
  <2>3. ShapeOf(x)
    BY <1>1, <2>2 DEF ShapeOf
  <2> QED
    BY <1>2, <2>1, <2>2, <2>3
<1>9. CASE SettleJob(j)
  <2>1. CASE job[j].group = "none"
    BY <1>2, <1>9, <2>1, NoJobTyped DEF SettleJob
  <2>2. CASE job[j].group # "none"
    <3> DEFINE x == [job[j] EXCEPT !.pc = "dead"]
    <3>1. job[j].pc = "running" /\ job' = [job EXCEPT ![j] = x]
      BY <1>9, <2>2 DEF SettleJob
    <3>2. x \in Job /\ x.pc = "dead" /\ x.group = job[j].group /\ x.lease = job[j].lease
      BY <1>1 DEF Job
    <3> HIDE DEF x
    <3>3. ShapeOf(x)
      BY <1>1, <3>1, <3>2 DEF ShapeOf
    <3> QED
      BY <1>2, <3>1, <3>2, <3>3
  <2> QED
    BY <2>1, <2>2
<1>10. CASE RunnerDies(j)
  <2> DEFINE x == [job[j] EXCEPT !.pc = "dead",
                                 !.group = IF @ = "working" THEN @ ELSE "none"]
  <2>1. job' = [job EXCEPT ![j] = x]
    BY <1>10 DEF RunnerDies
  <2>2. x \in Job /\ x.pc = "dead" /\ x.lease = job[j].lease
    BY <1>1 DEF Job
  <2>3. x.group = "working" => job[j].group = "working"
    BY <1>1 DEF Job
  <2> HIDE DEF x
  <2>4. ShapeOf(x)
    BY <1>1, <2>2, <2>3 DEF ShapeOf
  <2> QED
    BY <1>2, <2>1, <2>2, <2>4
<1>11. CASE Renew(j)
  BY <1>2, <1>11, NoJobTyped DEF Renew
<1> QED
  BY <1>3, <1>4, <1>5, <1>6, <1>7, <1>8, <1>9, <1>10, <1>11 DEF Running

JobLeases == {j \in Jobs : job[j].lease # "none"}

\* acquire_lease of a job: refused, or one more among those that are left.
LEMMA AdmitShape ==
  ASSUME TypeOK, JobShape, NEW j \in Jobs, Admit(j)
  PROVE  /\ job' \in [Jobs -> Job] /\ JobShape'
         /\ \/ Fewer
            \/ \E S \in SUBSET Jobs : Cardinality(S) < MaxJobs /\ JobLeases' \subseteq S \cup {j}
<1>1. job[j] \in Job /\ ShapeOf(job[j]) /\ job[j].pc = "asking"
  BY Shaped DEF TypeOK, Admit
<1>2. Reconciled[j] = job[j]
  BY <1>1 DEF Reconciled, Kept
<1>3. CASE job' = [Reconciled EXCEPT ![j] = NoJob]
  <2>1. /\ job' \in [Jobs -> Job] /\ JobShape' /\ job'[j] = NoJob
        /\ \A k \in Jobs : k # j /\ job'[k].lease # "none" => job[k].lease # "none"
    BY <1>3, JobStep, NoJobTyped
  <2> QED
    BY <2>1, NoJobTyped DEF Fewer
<1>4. CASE /\ job' = [Reconciled EXCEPT ![j].pc = "leased", ![j].lease = "held"]
           /\ Cardinality({k \in Jobs : Reconciled[k].lease # "none"}) < MaxJobs
  <2> DEFINE x == [job[j] EXCEPT !.pc = "leased", !.lease = "held"]
  <2> DEFINE S == {k \in Jobs : Reconciled[k].lease # "none"}
  <2>1. job' = [Reconciled EXCEPT ![j] = x]
    BY <1>2, <1>4
  <2>2. x \in Job /\ x.pc = "leased" /\ x.lease = "held" /\ x.group = job[j].group
    BY <1>1 DEF Job
  <2> HIDE DEF x
  <2>3. ShapeOf(x)
    BY <1>1, <2>2 DEF ShapeOf
  <2>4. job' \in [Jobs -> Job] /\ JobShape'
    BY <2>1, <2>2, <2>3, JobStep
  <2>5. \A k \in Jobs : k # j => job'[k] = Reconciled[k]
    BY <2>1, ReconciledTyped
  <2>6. JobLeases' \subseteq S \cup {j}
    BY <2>5 DEF JobLeases
  <2>7. S \in SUBSET Jobs /\ Cardinality(S) < MaxJobs
    BY <1>4
  <2> QED
    BY <2>4, <2>6, <2>7
<1> QED
  BY <1>3, <1>4 DEF Admit

-----------------------------------------------------------------------------
(* The bounds. *)

LEMMA Subsets ==
  ASSUME NEW S, IsFiniteSet(S), NEW T \in SUBSET S, NEW n \in Nat, Cardinality(S) <= n
  PROVE  Cardinality(T) <= n
<1>1. IsFiniteSet(T) /\ Cardinality(T) <= Cardinality(S)
  BY FS_Subset
<1>2. Cardinality(S) \in Nat /\ Cardinality(T) \in Nat
  BY <1>1, FS_CardinalityType
<1> QED
  BY <1>1, <1>2

LEMMA OneMore ==
  ASSUME NEW S, IsFiniteSet(S), NEW x, NEW T \in SUBSET (S \cup {x}), NEW n \in Nat,
         Cardinality(S) < n
  PROVE  Cardinality(T) <= n
<1>1. IsFiniteSet(S \cup {x}) /\ Cardinality(S \cup {x}) \in {Cardinality(S), Cardinality(S) + 1}
  BY FS_AddElement
<1>2. Cardinality(S) \in Nat
  BY FS_CardinalityType
<1>3. Cardinality(S \cup {x}) <= n
  BY <1>1, <1>2
<1> QED
  BY <1>1, <1>3, Subsets

AgentCaps ==
  /\ Cardinality(Agents) <= MaxAgents
  /\ \A e \in Epics : Cardinality(InEpic(e)) <= EpicCap
  /\ \A h \in Hosts : Cardinality(OnHost(h)) <= HostCap[h]

JobCaps == Cardinality(JobLeases) <= MaxJobs

LEMMA Caps == WithinCaps <=> AgentCaps /\ JobCaps
BY DEF WithinCaps, AgentCaps, JobCaps, JobLeases

LEMMA FiniteAgents ==
  /\ IsFiniteSet(Agents)
  /\ \A e \in Epics : IsFiniteSet(InEpic(e))
  /\ \A h \in Hosts : IsFiniteSet(OnHost(h))
  /\ \A S \in SUBSET Jobs : IsFiniteSet(S)
  /\ \A S \in SUBSET Issues : IsFiniteSet(S)
<1>1. IsFiniteSet(Issues) /\ IsFiniteSet(Jobs)
  BY LeaseConstants
<1>2. \A S \in SUBSET Issues : IsFiniteSet(S)
  BY <1>1, FS_Subset
<1>3. \A S \in SUBSET Jobs : IsFiniteSet(S)
  BY <1>1, FS_Subset
<1> QED
  BY <1>2, <1>3 DEF Agents, InEpic, OnHost

LEMMA NarrowCaps ==
  ASSUME TypeOK, AgentCaps, Narrows
  PROVE  AgentCaps'
<1>1. Agents' \subseteq Agents
  BY DEF Narrows, Agents
<1>2. \A e \in Epics : InEpic(e)' \subseteq InEpic(e)
  BY <1>1 DEF InEpic
<1>3. \A h \in Hosts : OnHost(h)' \subseteq OnHost(h)
  BY <1>1, LeaseConstants DEF OnHost, Narrows, Agents
<1>4. Cardinality(Agents') <= MaxAgents
  BY <1>1, Subsets, FiniteAgents, LeaseConstants DEF AgentCaps
<1>5. ASSUME NEW e \in Epics PROVE Cardinality(InEpic(e)') <= EpicCap
  BY <1>2, Subsets, FiniteAgents, LeaseConstants DEF AgentCaps
<1>6. ASSUME NEW h \in Hosts PROVE Cardinality(OnHost(h)') <= HostCap[h]
  BY <1>3, Subsets, FiniteAgents, LeaseConstants DEF AgentCaps
<1> QED
  BY <1>4, <1>5, <1>6 DEF AgentCaps

LEMMA FewerCaps ==
  ASSUME JobCaps, Fewer
  PROVE  JobCaps'
<1>1. JobLeases' \subseteq JobLeases /\ JobLeases \in SUBSET Jobs
  BY DEF Fewer, JobLeases
<1> QED
  BY <1>1, Subsets, FiniteAgents, LeaseConstants DEF JobCaps

\* What a reservation on host h does to the leases; the others stay.
LEMMA ReservedCaps ==
  ASSUME TypeOK, AgentCaps, NEW i \in Issues, NEW h \in Hosts, Room(i, h),
         \A k \in Issues : k # i => lease'[k] = lease[k],
         lease'[i] # None,
         {lease'[i].host, lease'[i].pending} \subseteq
           {h, None} \cup (IF lease[i] = None THEN {} ELSE {lease[i].host})
  PROVE  AgentCaps'
<1>1. Agents' \subseteq (Agents \ {i}) \cup {i}
  BY DEF Agents
<1>2. \A e \in Epics : InEpic(e)' \subseteq (InEpic(e) \ {i}) \cup {i}
  BY <1>1 DEF InEpic
<1>3. \A e \in Epics : e # EpicOf[i] => InEpic(e)' \subseteq InEpic(e)
  BY <1>1 DEF InEpic
<1>4. \A g \in Hosts : OnHost(g)' \subseteq (OnHost(g) \ {i}) \cup {i}
  BY <1>1 DEF OnHost, Agents
<1>5. \A g \in Hosts : g # h => OnHost(g)' \subseteq OnHost(g)
  BY <1>1, LeaseConstants DEF OnHost, Agents
<1>6. EpicOf[i] \in Epics
  BY LeaseConstants
<1>7. /\ Agents \ {i} \in SUBSET Issues
      /\ \A e \in Epics : InEpic(e) \ {i} \in SUBSET Issues
      /\ \A g \in Hosts : OnHost(g) \ {i} \in SUBSET Issues
  BY DEF Agents, InEpic, OnHost
<1>8. Cardinality(Agents') <= MaxAgents
  BY <1>1, <1>7, OneMore, FiniteAgents, LeaseConstants DEF Room
<1>9. ASSUME NEW e \in Epics PROVE Cardinality(InEpic(e)') <= EpicCap
  <2>1. CASE e = EpicOf[i]
    BY <1>2, <1>7, <2>1, OneMore, FiniteAgents, LeaseConstants DEF Room
  <2>2. CASE e # EpicOf[i]
    BY <1>3, <2>2, Subsets, FiniteAgents, LeaseConstants DEF AgentCaps
  <2> QED
    BY <2>1, <2>2
<1>10. ASSUME NEW g \in Hosts PROVE Cardinality(OnHost(g)') <= HostCap[g]
  <2>1. HostCap[g] \in Nat
    BY LeaseConstants
  <2>2. CASE g = h
    BY <1>4, <1>7, <2>1, <2>2, OneMore, FiniteAgents DEF Room
  <2>3. CASE g # h
    BY <1>5, <2>1, <2>3, Subsets, FiniteAgents DEF AgentCaps
  <2> QED
    BY <2>2, <2>3
<1> QED
  BY <1>8, <1>9, <1>10 DEF AgentCaps

-----------------------------------------------------------------------------
(* The two reservations of an agent. *)

LEMMA AcquireStep ==
  ASSUME TypeOK, Hosted, AgentCaps, NEW i \in Issues, Acquire(i)
  PROVE  TypeOK' /\ Hosted' /\ AgentCaps'
<1>1. /\ cmd[i] # None /\ cmd[i].pc = "reserve" /\ lease[i] = None
      /\ job' = Reconciled /\ UNCHANGED <<record, rebase, agent, tree>>
  BY DEF Acquire, At
<1>2. cmd[i] \in Command /\ cmd[i].host \in Hosts
  BY <1>1 DEF TypeOK, Hosted, LaunchStep
<1>3. CASE lease' = lease /\ Ends(i)
  <2>1. "return" \in Step /\ "return" \notin LaunchStep
    BY DEF Step, LaunchStep
  <2>2. Ordinary
    BY <1>1, <1>3, <2>1, Kind, GoesOrdinary
  <2> QED
    BY <2>2, NarrowCaps DEF Ordinary
<1>4. ASSUME NEW t \in Tokens, Room(i, cmd[i].host),
             lease' = [lease EXCEPT ![i] =
               [token |-> t, host |-> cmd[i].host, pending |-> None, tree |-> FALSE,
                stage |-> "starting", owned |-> TRUE]],
             cmd' = [cmd EXCEPT ![i].pc = "initialize", ![i].token = t, ![i].took = TRUE]
      PROVE TypeOK' /\ Hosted' /\ AgentCaps'
  <2> DEFINE x == [token |-> t, host |-> cmd[i].host, pending |-> None, tree |-> FALSE,
                   stage |-> "starting", owned |-> TRUE]
  <2> DEFINE c == [cmd[i] EXCEPT !.pc = "initialize", !.token = t, !.took = TRUE]
  <2>1. x \in Lease /\ x.host = cmd[i].host /\ x.pending = None
    BY <1>2 DEF Lease, LeaseStage
  <2>2. c \in Command /\ c.host = cmd[i].host
    BY <1>2 DEF Command, Step
  <2>3. lease' = [lease EXCEPT ![i] = x] /\ cmd' = [cmd EXCEPT ![i] = c]
    BY <1>4
  <2> HIDE DEF x, c
  <2>4. lease' \in [Issues -> Lease \cup {None}] /\ cmd' \in [Issues -> Command \cup {None}]
    BY <2>1, <2>2, <2>3 DEF TypeOK
  <2>5. /\ lease'[i] = x /\ \A k \in Issues : k # i => lease'[k] = lease[k]
        /\ cmd'[i] = c /\ \A k \in Issues : k # i => cmd'[k] = cmd[k]
    BY <2>3 DEF TypeOK
  <2>6. Hosted'
    BY <1>2, <2>2, <2>5 DEF Hosted
  <2>7. TypeOK'
    BY <1>1, <2>4, Kind DEF TypeOK
  <2>8. x # None
    BY <2>1, NoneIsNoLease
  <2>9. AgentCaps'
    BY <1>2, <1>4, <2>1, <2>5, <2>8, ReservedCaps
  <2> QED
    BY <2>6, <2>7, <2>9
<1> QED
  BY <1>3, <1>4 DEF Acquire

LEMMA PreparedStep ==
  ASSUME TypeOK, Hosted, AgentCaps, NEW i \in Issues, Prepared(i)
  PROVE  TypeOK' /\ Hosted' /\ AgentCaps'
<1> DEFINE x == [lease[i] EXCEPT !.pending = cmd[i].host, !.stage = "replacing"]
<1> DEFINE c == [cmd[i] EXCEPT !.pc = "announce", !.token = record[i].token]
<1>1. /\ cmd[i] # None /\ cmd[i].pc = "reserve" /\ lease[i] # None
      /\ lease[i].pending = cmd[i].host \/ Room(i, cmd[i].host)
      /\ lease' = [lease EXCEPT ![i] = x] /\ cmd' = [cmd EXCEPT ![i] = c]
      /\ UNCHANGED <<job, record, rebase, agent, tree>>
  BY DEF Prepared, At, Holds
<1>2. /\ cmd[i] \in Command /\ cmd[i].host \in Hosts /\ lease[i] \in Lease
      /\ record[i].token \in Tokens \cup {None}
  BY <1>1, Kind DEF TypeOK, Hosted, LaunchStep, Record
<1>3. x \in Lease /\ x.host = lease[i].host /\ x.pending = cmd[i].host
  BY <1>2 DEF Lease, LeaseStage
<1>4. c \in Command /\ c.host = cmd[i].host
  BY <1>2 DEF Command, Step
<1> HIDE DEF x, c
<1>5. lease' \in [Issues -> Lease \cup {None}] /\ cmd' \in [Issues -> Command \cup {None}]
  BY <1>1, <1>3, <1>4 DEF TypeOK
<1>6. /\ lease'[i] = x /\ \A k \in Issues : k # i => lease'[k] = lease[k]
      /\ cmd'[i] = c /\ \A k \in Issues : k # i => cmd'[k] = cmd[k]
  BY <1>1 DEF TypeOK
<1>7. TypeOK' /\ Hosted'
  BY <1>1, <1>2, <1>4, <1>5, <1>6 DEF TypeOK, Hosted
<1>8. x # None
  BY <1>3, NoneIsNoLease
<1>9. CASE lease[i].pending = cmd[i].host
  <2>1. Narrows
    BY <1>1, <1>3, <1>6, <1>9 DEF Narrows
  <2> QED
    BY <1>7, <2>1, NarrowCaps
<1>10. CASE Room(i, cmd[i].host)
  <2>1. AgentCaps'
    BY <1>1, <1>2, <1>3, <1>6, <1>8, <1>10, ReservedCaps
  <2> QED
    BY <1>7, <2>1
<1> QED
  BY <1>1, <1>9, <1>10

-----------------------------------------------------------------------------
(* The invariant. *)

LEMMA JobsOrReconciled ==
  ASSUME TypeOK, JobShape, job' = job \/ job' = Reconciled
  PROVE  JobShape' /\ Fewer
<1>1. CASE job' = job
  BY <1>1 DEF JobShape, Fewer
<1>2. CASE job' = Reconciled
  <2>1. \A j \in Jobs : ShapeOf(job'[j]) /\ (job'[j].lease # "none" => job[j].lease # "none")
    BY <1>2, ReconciledShape
  <2> QED
    BY <2>1 DEF JobShape, ShapeOf, Fewer
<1> QED
  BY <1>1, <1>2

LEMMA CommandsReconcile ==
  ASSUME NEW i \in Issues, Launching(i) \/ Finishing(i) \/ Rebasing(i) \/ Leaving(i)
  PROVE  job' = job \/ job' = Reconciled
<1>1. CASE Launching(i)
  BY <1>1 DEF Launching, BeginLaunch, Reclaim, Acquire, Reuse, Prepared, Refused, Announce,
     FenceSource, StopSource, VerifySource, Confirm, Move, Initialize, Prepare, StartAgent,
     Deliver, Patch, ReleaseAttempt, DropStage, Released, Persist, Fails
<1>2. CASE Finishing(i)
  BY <1>2 DEF Finishing, BeginFinish, OwnCleanup, ExitAgent, AwaitQuiet, VerifyNoJobs, Recheck,
     Remove, VerifyRemoved, Settle, Return, Released
<1>3. CASE Rebasing(i)
  BY <1>3 DEF Rebasing, Adopt, RebaseBegin, RebaseFence, RebaseCheck, RebaseEnds, RebaseCut, RebaseRecover
<1>4. CASE Leaving(i)
  BY <1>4 DEF Leaving, AgentExits, CommandDies, OwnerExits
<1> QED
  BY <1>1, <1>2, <1>3, <1>4

LEMMA GotoFacts ==
  ASSUME TypeOK, NEW i \in Issues, cmd[i] # None, NEW pc, Goto(i, pc)
  PROVE  /\ cmd'[i].pc = pc /\ cmd'[i].host = cmd[i].host /\ cmd'[i].token = cmd[i].token
         /\ cmd'[i].took = cmd[i].took
         /\ \A k \in Issues : k # i => cmd'[k] = cmd[k]
<1>1. cmd[i] \in Command
  BY DEF TypeOK
<1>2. cmd' = [cmd EXCEPT ![i] = [cmd[i] EXCEPT !.pc = pc]]
  BY DEF Goto
<1>3. cmd'[i] = [cmd[i] EXCEPT !.pc = pc] /\ \A k \in Issues : k # i => cmd'[k] = cmd[k]
  BY <1>2 DEF TypeOK
<1>4. [cmd[i] EXCEPT !.pc = pc].pc = pc
  BY <1>1 DEF Command
<1>5. /\ [cmd[i] EXCEPT !.pc = pc].host = cmd[i].host
      /\ [cmd[i] EXCEPT !.pc = pc].token = cmd[i].token
      /\ [cmd[i] EXCEPT !.pc = pc].took = cmd[i].took
  BY <1>1 DEF Command
<1> QED
  BY <1>3, <1>4, <1>5

LEMMA EndsFacts ==
  ASSUME TypeOK, NEW i \in Issues, Ends(i)
  PROVE  cmd'[i] = None /\ \A k \in Issues : k # i => cmd'[k] = cmd[k]
BY DEF TypeOK, Ends

\* A step of issue i leaves the others' records and commands alone.
LEMMA OthersStay ==
  ASSUME TypeOK, NEW i \in Issues, Launching(i) \/ Finishing(i) \/ Rebasing(i) \/ Leaving(i)
  PROVE  \A k \in Issues : k # i => cmd'[k] = cmd[k] /\ record'[k] = record[k]
<1>1. CASE Launching(i)
  <2>1. CASE \E h \in Hosts, verb \in {"launch", "replace"} : BeginLaunch(i, h, verb)
    BY <2>1 DEF BeginLaunch, TypeOK
  <2>2. CASE Reclaim(i) \/ Acquire(i) \/ Reuse(i) \/ Prepared(i) \/ Refused(i) \/ StopSource(i)
    BY <2>2 DEF Reclaim, Acquire, Reuse, Prepared, Refused, StopSource, Goto, Ends, TypeOK
  <2>3. CASE Announce(i) \/ Confirm(i) \/ Initialize(i) \/ Prepare(i) \/ Deliver(i)
    BY <2>3 DEF Announce, Confirm, Initialize, Prepare, Deliver, Persist, Fails, TypeOK
  <2>4. CASE FenceSource(i) \/ VerifySource(i) \/ Move(i) \/ StartAgent(i)
    BY <2>4 DEF FenceSource, VerifySource, Move, StartAgent, Persist, Fails, Goto, TypeOK
  <2>5. CASE Patch(i) \/ ReleaseAttempt(i) \/ DropStage(i)
    BY <2>5 DEF Patch, ReleaseAttempt, DropStage, Persist, Fails, Ends, TypeOK
  <2> QED
    BY <1>1, <2>1, <2>2, <2>3, <2>4, <2>5 DEF Launching
<1>2. CASE Finishing(i)
  <2>1. CASE BeginFinish(i)
    BY <2>1 DEF BeginFinish, TypeOK
  <2>2. CASE ~BeginFinish(i)
    BY <1>2, <2>2 DEF Finishing, OwnCleanup, ExitAgent, AwaitQuiet, VerifyNoJobs, Recheck,
       Remove, VerifyRemoved, Settle, Return, Incomplete, Goto, Ends, TypeOK
  <2> QED
    BY <2>1, <2>2
<1>3. CASE Rebasing(i)
  BY <1>3 DEF Rebasing, Adopt, RebaseBegin, RebaseFence, RebaseCheck, RebaseEnds, RebaseCut,
     RebaseRecover, TypeOK
<1>4. CASE Leaving(i)
  BY <1>4 DEF Leaving, AgentExits, CommandDies, OwnerExits, Ends, TypeOK
<1> QED
  BY <1>1, <1>2, <1>3, <1>4

LEMMA PersistFacts ==
  ASSUME TypeOK, NEW i \in Issues, cmd[i] # None, NEW saved \in Record,
         NEW stage, NEW next, Persist(i, saved, stage, next)
  PROVE  /\ lease' = lease
         /\ record'[i].stage = stage
         /\ cmd'[i].pc = "patch" /\ cmd'[i].next = next
         /\ cmd'[i].host = cmd[i].host /\ cmd'[i].token = cmd[i].token
         /\ cmd'[i].took = cmd[i].took
<1> DEFINE r == [saved EXCEPT !.stage = stage, !.token = cmd[i].token]
<1> DEFINE c == [cmd[i] EXCEPT !.pc = "patch", !.next = next]
<1>1. r.stage = stage
  BY DEF Record
<1>2. cmd[i] \in Command
  BY DEF TypeOK
<1>3. /\ c.pc = "patch" /\ c.next = next /\ c.host = cmd[i].host
      /\ c.token = cmd[i].token /\ c.took = cmd[i].took
  BY <1>2 DEF Command
<1>4. record' = [record EXCEPT ![i] = r] /\ cmd' = [cmd EXCEPT ![i] = c] /\ lease' = lease
  BY DEF Persist
<1> HIDE DEF r, c
<1>5. record'[i] = r /\ cmd'[i] = c
  BY <1>4 DEF TypeOK
<1> QED
  BY <1>1, <1>3, <1>4, <1>5

LEMMA PersistDue ==
  ASSUME TypeOK, NEW i \in Issues, cmd[i] # None, NEW saved \in Record,
         NEW stage \in Attempted, NEW next \in LaunchStep \cup {None},
         Persist(i, saved, stage, next)
  PROVE  Due(i)'
BY PersistFacts DEF Due

LEMMA FailsDue ==
  ASSUME TypeOK, NEW i \in Issues, cmd[i] # None, Fails(i)
  PROVE  Due(i)'
<1>1. record[i] \in Record /\ "uncertain" \in Attempted
  BY Kind DEF Attempted
<1> QED
  BY <1>1, PersistDue DEF Fails

LEMMA GoesDue ==
  ASSUME TypeOK, NEW i \in Issues, cmd[i] # None, NEW pc, pc # "patch", Goto(i, pc) \/ Ends(i)
  PROVE  Due(i)'
BY GotoFacts, EndsFacts DEF Due

\* The launch's own steps.
LEMMA LaunchingDue ==
  ASSUME TypeOK, NEW i \in Issues, Due(i), Launching(i)
  PROVE  Due(i)'
<1>1. CASE \E h \in Hosts, verb \in {"launch", "replace"} : BeginLaunch(i, h, verb)
  BY <1>1 DEF BeginLaunch, TypeOK, Due
<1>2. CASE Reclaim(i) \/ Refused(i) \/ StopSource(i)
  BY <1>2, GoesDue DEF Reclaim, Refused, StopSource, At
<1>3. CASE Acquire(i) \/ Reuse(i) \/ Prepared(i)
  <2>1. cmd[i] # None /\ cmd[i] \in Command
    BY <1>3 DEF Acquire, Reuse, Prepared, At, TypeOK
  <2>2. ASSUME NEW pc, pc # "patch", NEW t, NEW took,
               \/ cmd' = [cmd EXCEPT ![i].pc = pc, ![i].token = t]
               \/ cmd' = [cmd EXCEPT ![i].pc = pc, ![i].token = t, ![i].took = took]
        PROVE  Due(i)'
    BY <2>1, <2>2 DEF Due, Command, TypeOK
  <2>3. CASE Acquire(i)
    <3>1. CASE Ends(i)
      BY <2>1, <3>1, EndsFacts DEF Due
    <3>2. CASE \E t \in Tokens :
                 cmd' = [cmd EXCEPT ![i].pc = "initialize", ![i].token = t, ![i].took = TRUE]
      BY <2>2, <3>2
    <3> QED
      BY <2>3, <3>1, <3>2 DEF Acquire
  <2>4. CASE Reuse(i) \/ Prepared(i)
    BY <2>2, <2>4 DEF Reuse, Prepared
  <2> QED
    BY <1>3, <2>3, <2>4
<1>4. CASE Announce(i) \/ Confirm(i)
  <2>1. /\ cmd[i] # None /\ record[i] \in Record /\ "replacing" \in Attempted
        /\ {"fence", "move"} \subseteq LaunchStep
    BY <1>4, Kind DEF Announce, Confirm, At, Attempted, LaunchStep
  <2> QED
    BY <1>4, <2>1, PersistDue DEF Announce, Confirm
<1>5. CASE Initialize(i)
  <2>1. /\ cmd[i] # None /\ cmd[i] \in Command
        /\ "starting" \in Attempted /\ "prepare" \in LaunchStep
    BY <1>5 DEF Initialize, At, Attempted, LaunchStep, TypeOK
  <2>2. Persist(i, [record[i] EXCEPT !.host = cmd[i].host], "starting", "prepare")
    BY <1>5 DEF Initialize
  <2>3. record'[i].stage = "starting" /\ cmd'[i].next = "prepare"
    BY <2>1, <2>2, Kind DEF Persist, Record, Command, TypeOK
  <2> QED
    BY <2>1, <2>3 DEF Due
<1>6. CASE Prepare(i)
  <2> DEFINE saved == [record[i] EXCEPT !.tree = TRUE]
  <2>1. /\ cmd[i] # None /\ {"starting", "uncertain"} \subseteq Attempted /\ saved \in Record
        /\ "start" \in LaunchStep
    BY <1>6, Kind DEF Prepare, At, Attempted, Record, LaunchStep
  <2>2. Persist(i, saved, "starting", "start") \/ Persist(i, saved, "uncertain", None) \/ Fails(i)
    BY <1>6 DEF Prepare
  <2> HIDE DEF saved
  <2> QED
    BY <2>1, <2>2, PersistDue, FailsDue
<1>7. CASE Deliver(i)
  <2>1. cmd[i] # None /\ record[i] \in Record /\ "running" \in Attempted
    BY <1>7, Kind DEF Deliver, At, Attempted
  <2> QED
    BY <1>7, <2>1, PersistDue, FailsDue DEF Deliver
<1>8. CASE FenceSource(i) \/ VerifySource(i) \/ Move(i)
  <2>1. cmd[i] # None /\ (Fails(i) \/ Goto(i, "stop") \/ Goto(i, "confirm") \/ Goto(i, "initialize"))
    BY <1>8 DEF FenceSource, VerifySource, Move, At
  <2> QED
    BY <2>1, FailsDue, GoesDue
<1>9. CASE StartAgent(i)
  <2>1. /\ cmd[i] # None /\ cmd[i].pc = "start"
        /\ Fails(i) \/ Goto(i, "deliver") \/ Goto(i, "release") \/ cmd' = cmd
    BY <1>9 DEF StartAgent, At
  <2>2. cmd' = cmd => Due(i)'
    BY <2>1 DEF Due
  <2> QED
    BY <2>1, <2>2, FailsDue, GoesDue
<1>10. CASE Patch(i)
  <2>1. Ends(i) => Due(i)'
    BY <1>10, GoesDue DEF Patch, At
  <2>2. CASE ~Ends(i)
    <3> DEFINE c == [cmd[i] EXCEPT !.pc = cmd[i].next, !.next = None]
    <3>1. /\ record' = record /\ cmd[i] # None /\ cmd[i].pc = "patch" /\ cmd[i] \in Command
          /\ cmd' = [cmd EXCEPT ![i] = c]
      BY <1>10, <2>2 DEF Patch, At, TypeOK
    <3>2. c.next = None
      BY <3>1 DEF Command
    <3> HIDE DEF c
    <3>3. cmd'[i] = c
      BY <3>1 DEF TypeOK
    <3> QED
      BY <3>1, <3>2, <3>3 DEF Due
  <2> QED
    BY <2>1, <2>2
<1>11. CASE ReleaseAttempt(i)
  <2>1. cmd[i] # None /\ cmd[i] \in Command
    BY <1>11 DEF ReleaseAttempt, At, TypeOK
  <2>2. CASE Fails(i)
    BY <2>1, <2>2, FailsDue
  <2>3. CASE cmd' = [cmd EXCEPT ![i].pc = "drop", ![i].took = FALSE]
    BY <2>1, <2>3 DEF Due, Command, TypeOK
  <2> QED
    BY <1>11, <2>2, <2>3 DEF ReleaseAttempt
<1>12. CASE DropStage(i)
  BY <1>12, GoesDue DEF DropStage, At
<1> QED
  BY <1>1, <1>2, <1>3, <1>4, <1>5, <1>6, <1>7, <1>8, <1>9, <1>10, <1>11, <1>12 DEF Launching

LEMMA DueStep ==
  ASSUME TypeOK, \A k \in Issues : Due(k), NEW i \in Issues,
         Launching(i) \/ Finishing(i) \/ Rebasing(i) \/ Leaving(i)
  PROVE  \A k \in Issues : Due(k)'
<1>1. \A k \in Issues : k # i => Due(k)'
  BY OthersStay DEF Due
<1>2. CASE Launching(i)
  BY <1>1, <1>2, LaunchingDue
<1>3. CASE Finishing(i)
  <2>1. CASE BeginFinish(i)
    BY <1>1, <2>1 DEF BeginFinish, TypeOK, Due
  <2>2. CASE ~BeginFinish(i)
    <3>1. /\ cmd[i] # None
          /\ Ends(i) \/ \E pc \in {"exit", "gone", "quiet", "verify", "recheck", "remove",
                                   "settle", "return"} : Goto(i, pc)
      BY <1>3, <2>2 DEF Finishing, OwnCleanup, ExitAgent, AwaitQuiet, VerifyNoJobs, Recheck,
         Remove, VerifyRemoved, Settle, Return, Incomplete, At
    <3> QED
      BY <1>1, <3>1, GoesDue
  <2> QED
    BY <2>1, <2>2
<1>4. CASE Rebasing(i) \/ AgentExits(i) \/ OwnerExits(i)
  <2>1. cmd' = cmd /\ (record' = record \/ cmd[i] = None)
    BY <1>4 DEF Rebasing, Adopt, RebaseBegin, RebaseFence, RebaseCheck, RebaseEnds, RebaseCut,
       RebaseRecover, AgentExits, OwnerExits
  <2> QED
    BY <1>1, <2>1 DEF Due
<1>5. CASE CommandDies(i)
  BY <1>1, <1>5, GoesDue DEF CommandDies
<1> QED
  BY <1>2, <1>3, <1>4, <1>5 DEF Leaving

LEMMA LaunchingStep ==
  ASSUME TypeOK, Hosted, AgentCaps, NEW i \in Issues, Due(i), Launching(i)
  PROVE  TypeOK' /\ Hosted' /\ AgentCaps'
<1>1. CASE Acquire(i)
  BY <1>1, AcquireStep
<1>2. CASE Prepared(i)
  BY <1>2, PreparedStep
<1>3. CASE ~Acquire(i) /\ ~Prepared(i)
  <2>1. CASE \E h \in Hosts, verb \in {"launch", "replace"} : BeginLaunch(i, h, verb)
    BY <2>1, BeginLaunchOrdinary, NarrowCaps DEF Ordinary
  <2>2. CASE Reclaim(i) \/ Reuse(i) \/ Refused(i) \/ Announce(i) \/ FenceSource(i) \/ StopSource(i)
    BY <2>2, ReclaimOrdinary, ReuseOrdinary, RefusedOrdinary, AnnounceOrdinary,
       FenceSourceOrdinary, StopSourceOrdinary, NarrowCaps DEF Ordinary
  <2>3. CASE VerifySource(i) \/ Confirm(i) \/ Move(i) \/ Initialize(i) \/ Prepare(i)
    BY <2>3, VerifySourceOrdinary, ConfirmOrdinary, MoveOrdinary, InitializeOrdinary,
       PrepareOrdinary, NarrowCaps DEF Ordinary
  <2>4. CASE StartAgent(i) \/ Deliver(i) \/ Patch(i) \/ ReleaseAttempt(i) \/ DropStage(i)
    BY <2>4, StartAgentOrdinary, DeliverOrdinary, PatchOrdinary, ReleaseAttemptOrdinary,
       DropStageOrdinary, NarrowCaps DEF Ordinary
  <2> QED
    BY <1>3, <2>1, <2>2, <2>3, <2>4 DEF Launching
<1> QED
  BY <1>1, <1>2, <1>3

LEMMA RunningStep ==
  ASSUME IInv, NEW j \in Jobs, Running(j)
  PROVE  IInv'
<1>1. UNCHANGED <<lease, record, cmd, rebase, agent, tree>>
  BY DEF Running, Ask, Admit, GiveBack, Spawn, RecordGroup, Go, GroupEnds, SettleJob,
     RunnerDies, Renew
<1>2. AgentCaps /\ JobCaps /\ TypeOK /\ JobShape /\ Hosted
  BY Caps DEF IInv
<1>3. AgentCaps' /\ Hosted'
  BY <1>1, <1>2 DEF AgentCaps, Agents, InEpic, OnHost, Hosted
<1>7. \A i \in Issues : Due(i)'
  BY <1>1 DEF IInv, Due
<1>4. job' \in [Jobs -> Job] /\ JobShape' /\ JobCaps'
  <2>1. CASE Admit(j)
    <3>1. /\ job' \in [Jobs -> Job] /\ JobShape'
          /\ \/ Fewer
             \/ \E S \in SUBSET Jobs : Cardinality(S) < MaxJobs /\ JobLeases' \subseteq S \cup {j}
      BY <1>2, <2>1, AdmitShape
    <3>2. ASSUME NEW S \in SUBSET Jobs, Cardinality(S) < MaxJobs, JobLeases' \subseteq S \cup {j}
          PROVE JobCaps'
      BY <3>2, OneMore, FiniteAgents, LeaseConstants DEF JobCaps
    <3> QED
      BY <1>2, <3>1, <3>2, FewerCaps
  <2>2. CASE ~Admit(j)
    BY <1>2, <2>2, RunningShape, FewerCaps
  <2> QED
    BY <2>1, <2>2
<1>5. TypeOK'
  BY <1>1, <1>2, <1>4 DEF TypeOK
<1>6. WithinCaps'
  BY <1>3, <1>4 DEF WithinCaps, AgentCaps, JobCaps, JobLeases
<1> QED
  BY <1>3, <1>4, <1>5, <1>6, <1>7 DEF IInv

LEMMA InitIInv == Init => IInv
<1> SUFFICES ASSUME Init PROVE IInv
  OBVIOUS
<1>1. NoJob \in Job /\ NewRecord \in Record /\ NoRebase \in Rebase
  BY DEF NoJob, Job, NewRecord, Record, NoRebase, Rebase
<1>2. TypeOK
  BY <1>1 DEF Init, TypeOK
<1>3. Hosted
  BY DEF Init, Hosted
<1>4. JobShape
  BY DEF Init, JobShape, NoJob
<1>5. Agents = {} /\ JobLeases = {}
  BY DEF Init, Agents, JobLeases, NoJob
<1>6. (\A e \in Epics : InEpic(e) = {}) /\ (\A h \in Hosts : OnHost(h) = {})
  BY <1>5 DEF InEpic, OnHost
<1>7. \A n \in Nat : Cardinality({}) <= n
  BY FS_EmptySet
<1>8. AgentCaps /\ JobCaps
  BY <1>5, <1>6, <1>7, LeaseConstants DEF AgentCaps, JobCaps
<1>9. \A i \in Issues : Due(i)
  BY DEF Init, Due
<1> QED
  BY <1>2, <1>3, <1>4, <1>8, <1>9, Caps DEF IInv

LEMMA StepIInv == IInv /\ [Next]_vars => IInv'
<1> SUFFICES ASSUME IInv, [Next]_vars PROVE IInv'
  OBVIOUS
<1>1. /\ TypeOK /\ Hosted /\ JobShape /\ AgentCaps /\ JobCaps
      /\ \A i \in Issues : Due(i)
  BY Caps DEF IInv
<1>2. ASSUME NEW i \in Issues, Launching(i) \/ Finishing(i) \/ Rebasing(i) \/ Leaving(i)
      PROVE IInv'
  <2>1. TypeOK' /\ Hosted' /\ AgentCaps'
    BY <1>1, <1>2, LaunchingStep, FinishingOrdinary, RebasingOrdinary, LeavingOrdinary, NarrowCaps
    DEF Ordinary
  <2>2. JobShape' /\ JobCaps'
    BY <1>1, <1>2, CommandsReconcile, JobsOrReconciled, FewerCaps
  <2>3. WithinCaps'
    BY <2>1, <2>2 DEF WithinCaps, AgentCaps, JobCaps, JobLeases
  <2>4. \A k \in Issues : Due(k)'
    BY <1>1, <1>2, DueStep
  <2> QED
    BY <2>1, <2>2, <2>3, <2>4 DEF IInv
<1>3. ASSUME NEW j \in Jobs, Running(j) PROVE IInv'
  BY <1>3, RunningStep
<1>4. CASE UNCHANGED vars
  <2>1. TypeOK' /\ Hosted' /\ JobShape' /\ WithinCaps'
    BY <1>1, <1>4, Caps DEF vars, TypeOK, Hosted, JobShape, WithinCaps, AgentCaps, JobCaps,
       JobLeases, Agents, InEpic, OnHost
  <2>2. \A i \in Issues : Due(i)'
    BY <1>1, <1>4 DEF vars, Due
  <2> QED
    BY <2>1, <2>2 DEF IInv
<1> QED
  BY <1>2, <1>3, <1>4 DEF Next

\* Every variable keeps its type, whatever commands, engine and jobs overlap
\* and wherever they die.
THEOREM TypeCorrect == Spec => []TypeOK
<1>1. IInv => TypeOK
  BY DEF IInv
<1> QED
  BY <1>1, InitIInv, StepIInv, PTL DEF Spec

\* Agents and jobs stay within the bounds of the machine, the epic and the
\* host, in admit, admit_agent, reserve and every transition, for any bounds.
THEOREM BoundsHold == Spec => []WithinCaps
<1>1. IInv => WithinCaps
  BY DEF IInv
<1> QED
  BY <1>1, InitIInv, StepIInv, PTL DEF Spec

\* A process group past the go line of managed_job is named by a lease that
\* no reconciliation takes while it lives, though its runner died.
THEOREM JobsWorkLeased == Spec => []WorkIsLeased
<1>1. IInv => WorkIsLeased
  BY DEF IInv, JobShape, WorkIsLeased
<1> QED
  BY <1>1, InitIInv, StepIInv, PTL DEF Spec
-----------------------------------------------------------------------------
(* What the steps do to one lease. *)

LEMMA FencedFacts ==
  ASSUME TypeOK, NEW i \in Issues, lease[i] # None, NEW active \in BOOLEAN, Fenced(i, active)
  PROVE  /\ lease'[i] # None
         /\ lease'[i].host = lease[i].host /\ lease'[i].token = lease[i].token
         /\ lease'[i].owned = lease[i].owned
         /\ lease'[i].tree /\ lease'[i].stage = IF active THEN "cleanup-incomplete" ELSE "cleaning"
         /\ \A k \in Issues : k # i => lease'[k] = lease[k]
<1>1. lease[i] \in Lease
  BY DEF TypeOK
<1> DEFINE stage == IF active THEN "cleanup-incomplete" ELSE "cleaning"
<1> DEFINE x == [lease[i] EXCEPT !.tree = TRUE, !.stage = stage]
<1>2. stage \in LeaseStage
  BY DEF LeaseStage
<1>3. lease' = [lease EXCEPT ![i] = x]
  BY DEF Fenced
<1> HIDE DEF stage
<1>4. /\ x \in Lease /\ x.host = lease[i].host /\ x.token = lease[i].token
      /\ x.owned = lease[i].owned /\ x.tree /\ x.stage = stage
  BY <1>1, <1>2 DEF Lease
<1> HIDE DEF x
<1> QED
  BY <1>3, <1>4, NoneIsNoLease DEF TypeOK, stage

LEMMA StagesFacts ==
  ASSUME TypeOK, NEW i \in Issues, lease[i] # None, NEW stage \in LeaseStage, Stages(i, stage)
  PROVE  /\ lease'[i] # None
         /\ lease'[i].host = lease[i].host /\ lease'[i].token = lease[i].token
         /\ lease'[i].owned = lease[i].owned
         /\ lease'[i].tree = lease[i].tree /\ lease'[i].stage = stage
         /\ \A k \in Issues : k # i => lease'[k] = lease[k]
<1>1. lease[i] \in Lease
  BY DEF TypeOK
<1> DEFINE x == [lease[i] EXCEPT !.stage = stage]
<1>2. /\ x \in Lease /\ x.host = lease[i].host /\ x.token = lease[i].token
      /\ x.owned = lease[i].owned /\ x.tree = lease[i].tree /\ x.stage = stage
  BY <1>1 DEF Lease
<1>3. lease' = [lease EXCEPT ![i] = x]
  BY DEF Stages
<1> HIDE DEF x
<1> QED
  BY <1>2, <1>3, NoneIsNoLease DEF TypeOK

LEMMA OwnerlessFacts ==
  ASSUME TypeOK, NEW i \in Issues, lease[i] # None, lease' = [lease EXCEPT ![i].owned = FALSE]
  PROVE  /\ lease'[i] # None
         /\ lease'[i].token = lease[i].token
         /\ lease'[i].tree = lease[i].tree /\ lease'[i].stage = lease[i].stage
         /\ \A k \in Issues : k # i => lease'[k] = lease[k]
<1>1. lease[i] \in Lease
  BY DEF TypeOK
<1> DEFINE x == [lease[i] EXCEPT !.owned = FALSE]
<1>2. /\ x \in Lease /\ x.token = lease[i].token
      /\ x.tree = lease[i].tree /\ x.stage = lease[i].stage
  BY <1>1 DEF Lease
<1>3. lease' = [lease EXCEPT ![i] = x]
  OBVIOUS
<1> HIDE DEF x
<1> QED
  BY <1>2, <1>3, NoneIsNoLease DEF TypeOK

\* The patch of a lease that is still the attempt's.
LEMMA PatchFacts ==
  ASSUME TypeOK, NEW i \in Issues, Due(i), Patch(i), Mine(i)
  PROVE  /\ lease'[i] # None
         /\ lease'[i].host = lease[i].host /\ lease'[i].token = lease[i].token
         /\ lease'[i].owned = lease[i].owned
         /\ lease'[i].stage = record[i].stage /\ record[i].stage \in Attempted
         /\ \A k \in Issues : k # i => lease'[k] = lease[k]
<1> DEFINE x == [lease[i] EXCEPT !.stage = record[i].stage, !.tree = @ \/ record[i].tree]
<1>1. lease[i] # None /\ lease' = [lease EXCEPT ![i] = x] /\ record[i].stage \in Attempted
  BY DEF Patch, Mine, Holds, Due, At
<1>2. lease[i] \in Lease /\ record[i].stage \in LeaseStage /\ record[i].tree \in BOOLEAN
  BY <1>1, Kind DEF TypeOK, Attempted, LeaseStage, Record
<1>3. /\ x \in Lease /\ x.host = lease[i].host /\ x.token = lease[i].token
      /\ x.owned = lease[i].owned /\ x.stage = record[i].stage
  BY <1>2 DEF Lease
<1> HIDE DEF x
<1> QED
  BY <1>1, <1>3, NoneIsNoLease DEF TypeOK

\* A step of issue i changes another's lease only where its owner is gone.
LEMMA OthersLeases ==
  ASSUME TypeOK, NEW i \in Issues, Launching(i) \/ Finishing(i) \/ Rebasing(i) \/ Leaving(i)
  PROVE  \A k \in Issues : k # i =>
           lease'[k] = lease[k] \/ (lease'[k] = None /\ Reclaimable(k))
<1>1. CASE Launching(i)
  <2>1. CASE Reclaim(i)
    BY <2>1 DEF Reclaim, TypeOK
  <2>2. CASE ~Reclaim(i)
    <3>1. CASE Acquire(i) \/ Prepared(i) \/ FenceSource(i) \/ Move(i)
      BY <3>1 DEF Acquire, Prepared, FenceSource, Fenced, Move, Fails, Persist, TypeOK
    <3>2. CASE Patch(i) \/ ReleaseAttempt(i)
      BY <3>2 DEF Patch, ReleaseAttempt, Released, Fails, Persist, TypeOK
    <3> QED
      BY <1>1, <2>2, <3>1, <3>2 DEF Launching, BeginLaunch, Reuse, Refused, Announce,
         StopSource, VerifySource, Confirm, Initialize, Prepare, StartAgent, Deliver, DropStage,
         Persist, Fails
  <2> QED
    BY <2>1, <2>2
<1>2. CASE Finishing(i)
  BY <1>2 DEF Finishing, BeginFinish, OwnCleanup, ExitAgent, AwaitQuiet, VerifyNoJobs, Recheck,
     Remove, VerifyRemoved, Settle, Return, Released, Fenced, TypeOK
<1>3. CASE Rebasing(i)
  BY <1>3 DEF Rebasing, Adopt, RebaseBegin, RebaseFence, RebaseCheck, RebaseEnds, RebaseCut,
     RebaseRecover, Stages, TypeOK
<1>4. CASE Leaving(i)
  BY <1>4 DEF Leaving, AgentExits, CommandDies, OwnerExits, TypeOK
<1> QED
  BY <1>1, <1>2, <1>3, <1>4

-----------------------------------------------------------------------------
(* A launch keeps the lease it took. *)

\* Where a launch that took its lease can be.
Taking == {"patch", "initialize", "prepare", "start", "deliver", "release"}

Taken(i) ==
  cmd[i] # None /\ cmd[i].took =>
    /\ Mine(i) /\ lease[i].owned /\ lease[i].host = cmd[i].host
    /\ cmd[i].pc \in Taking
    /\ cmd[i].pc = "patch" => cmd[i].next \in Taking \cup {None}

KInv == IInv /\ \A i \in Issues : Taken(i)

LEMMA PersistTaken ==
  ASSUME TypeOK, NEW i \in Issues, Taken(i), cmd[i] # None, NEW saved \in Record,
         NEW stage, NEW next, Persist(i, saved, stage, next), next \in Taking \cup {None}
  PROVE  Taken(i)'
BY PersistFacts DEF Taken, Taking, Mine, Holds

LEMMA FailsTaken ==
  ASSUME TypeOK, NEW i \in Issues, Taken(i), cmd[i] # None, Fails(i)
  PROVE  Taken(i)'
BY Kind, PersistTaken DEF Fails

\* A step before the lease was taken, or of a finish.
LEMMA UntakenGoes ==
  ASSUME TypeOK, NEW i \in Issues, Taken(i), cmd[i] # None, cmd[i].pc \notin Taking,
         NEW pc, Goto(i, pc) \/ Ends(i)
  PROVE  Taken(i)'
<1>1. ~cmd[i].took
  BY DEF Taken
<1> QED
  BY <1>1, GotoFacts, EndsFacts DEF Taken

LEMMA LaunchingTaken ==
  ASSUME TypeOK, Hosted, NEW i \in Issues, Due(i), Taken(i), Launching(i)
  PROVE  Taken(i)'
<1>1. CASE \E h \in Hosts, verb \in {"launch", "replace"} : BeginLaunch(i, h, verb)
  <2>1. ~cmd'[i].took
    BY <1>1 DEF BeginLaunch, TypeOK
  <2> QED
    BY <2>1 DEF Taken
<1>2. CASE Reclaim(i) \/ Refused(i) \/ StopSource(i)
  <2>1. cmd[i] # None /\ cmd[i].pc \notin Taking
    BY <1>2 DEF Reclaim, Refused, StopSource, At, Taking
  <2> QED
    BY <1>2, <2>1, UntakenGoes DEF Reclaim, Refused, StopSource
<1>3. CASE Acquire(i)
  <2>1. cmd[i] # None /\ cmd[i] \in Command
    BY <1>3 DEF Acquire, At, TypeOK
  <2>2. CASE Ends(i)
    BY <2>1, <2>2, EndsFacts DEF Taken
  <2>3. ASSUME NEW t \in Tokens,
               lease' = [lease EXCEPT ![i] =
                 [token |-> t, host |-> cmd[i].host, pending |-> None, tree |-> FALSE,
                  stage |-> "starting", owned |-> TRUE]],
               cmd' = [cmd EXCEPT ![i].pc = "initialize", ![i].token = t, ![i].took = TRUE]
        PROVE  Taken(i)'
    <3> DEFINE x == [token |-> t, host |-> cmd[i].host, pending |-> None, tree |-> FALSE,
                     stage |-> "starting", owned |-> TRUE]
    <3> DEFINE c == [cmd[i] EXCEPT !.pc = "initialize", !.token = t, !.took = TRUE]
    <3>1. c.pc = "initialize" /\ c.token = t /\ c.host = cmd[i].host
      BY <2>1 DEF Command
    <3>2. lease'[i] = x /\ cmd'[i] = c
      BY <2>3 DEF TypeOK
    <3>3. x # None
      <4>1. cmd[i].host \in Hosts
        BY <1>3 DEF Acquire, At, Hosted, LaunchStep
      <4>2. x \in Lease
        BY <4>1 DEF Lease, LeaseStage
      <4> QED
        BY <4>2, NoneIsNoLease
    <3> QED
      BY <3>1, <3>2, <3>3 DEF Taken, Taking, Mine, Holds
  <2> QED
    BY <1>3, <2>2, <2>3 DEF Acquire
<1>4. CASE Reuse(i) \/ Prepared(i)
  <2>1. /\ cmd[i] # None /\ cmd[i] \in Command /\ cmd[i].pc \notin Taking
        /\ \E pc \in Step : cmd' = [cmd EXCEPT ![i].pc = pc, ![i].token = record[i].token]
    BY <1>4 DEF Reuse, Prepared, At, TypeOK, Taking, Step
  <2>2. ~cmd[i].took
    BY <2>1 DEF Taken
  <2>3. ~cmd'[i].took
    BY <2>1, <2>2 DEF Command, TypeOK
  <2> QED
    BY <2>3 DEF Taken
<1>5. CASE Announce(i) \/ Confirm(i)
  <2>1. /\ cmd[i] # None /\ cmd[i].pc \notin Taking /\ record[i] \in Record
        /\ \E next : Persist(i, record[i], "replacing", next)
    BY <1>5, Kind DEF Announce, Confirm, At, Taking
  <2>2. ~cmd[i].took
    BY <2>1 DEF Taken
  <2> QED
    BY <2>1, <2>2, PersistFacts DEF Taken
<1>6. CASE Initialize(i)
  <2> DEFINE saved == [record[i] EXCEPT !.host = cmd[i].host]
  <2>1. /\ cmd[i] # None /\ Persist(i, saved, "starting", "prepare")
        /\ UNCHANGED <<job, rebase, agent, tree>>
    BY <1>6 DEF Initialize, At
  <2>2. /\ cmd'[i].pc = "patch" /\ cmd'[i].next = "prepare" /\ cmd'[i].host = cmd[i].host
        /\ cmd'[i].token = cmd[i].token /\ cmd'[i].took = cmd[i].took /\ lease' = lease
    BY <2>1 DEF Persist, TypeOK, Command
  <2> QED
    BY <2>1, <2>2 DEF Taken, Taking, Mine, Holds
<1>7. CASE Prepare(i)
  <2> DEFINE saved == [record[i] EXCEPT !.tree = TRUE]
  <2>1. cmd[i] # None /\ "start" \in Taking /\ saved \in Record
    BY <1>7, Kind DEF Prepare, At, Taking, Record
  <2>2. Persist(i, saved, "starting", "start") \/ Persist(i, saved, "uncertain", None) \/ Fails(i)
    BY <1>7 DEF Prepare
  <2> HIDE DEF saved
  <2> QED
    BY <2>1, <2>2, PersistTaken, FailsTaken
<1>8. CASE Deliver(i)
  <2>1. cmd[i] # None /\ record[i] \in Record
    BY <1>8, Kind DEF Deliver, At
  <2> QED
    BY <1>8, <2>1, PersistTaken, FailsTaken DEF Deliver
<1>9. CASE FenceSource(i) \/ VerifySource(i) \/ Move(i)
  <2>1. /\ cmd[i] # None /\ cmd[i].pc \notin Taking
        /\ Fails(i) \/ Goto(i, "stop") \/ Goto(i, "confirm") \/ Goto(i, "initialize")
    BY <1>9 DEF FenceSource, VerifySource, Move, At, Taking
  <2> QED
    BY <2>1, FailsTaken, UntakenGoes
<1>10. CASE StartAgent(i)
  <2>1. cmd[i] # None
    BY <1>10 DEF StartAgent, At
  <2>2. CASE Fails(i)
    BY <2>1, <2>2, FailsTaken
  <2>3. CASE ~Fails(i)
    <3>1. lease' = lease /\ (Goto(i, "deliver") \/ Goto(i, "release") \/ cmd' = cmd)
      BY <1>10, <2>3 DEF StartAgent
    <3> QED
      BY <2>1, <3>1, GotoFacts DEF Taken, Taking, Mine, Holds
  <2> QED
    BY <2>2, <2>3
<1>11. CASE Patch(i)
  <2>1. cmd[i] # None /\ cmd[i] \in Command /\ cmd[i].pc = "patch"
    BY <1>11 DEF Patch, At, TypeOK
  <2>2. CASE Ends(i)
    BY <2>2, EndsFacts DEF Taken
  <2>3. CASE ~Ends(i)
    <3> DEFINE c == [cmd[i] EXCEPT !.pc = cmd[i].next, !.next = None]
    <3>1. Mine(i) /\ cmd[i].next # None /\ cmd' = [cmd EXCEPT ![i] = c]
      BY <1>11, <2>3 DEF Patch
    <3>2. /\ c.pc = cmd[i].next /\ c.next = None /\ c.token = cmd[i].token
          /\ c.host = cmd[i].host /\ c.took = cmd[i].took
      BY <2>1 DEF Command
    <3> HIDE DEF c
    <3>3. cmd'[i] = c
      BY <3>1 DEF TypeOK
    <3> QED
      BY <1>11, <2>1, <3>1, <3>2, <3>3, PatchFacts DEF Taken, Mine, Holds
  <2> QED
    BY <2>2, <2>3
<1>12. CASE ReleaseAttempt(i)
  <2>1. cmd[i] # None /\ cmd[i] \in Command
    BY <1>12 DEF ReleaseAttempt, At, TypeOK
  <2>2. CASE Fails(i)
    BY <2>1, <2>2, FailsTaken
  <2>3. CASE cmd' = [cmd EXCEPT ![i].pc = "drop", ![i].took = FALSE]
    BY <2>1, <2>3 DEF Taken, Command, TypeOK
  <2> QED
    BY <1>12, <2>2, <2>3 DEF ReleaseAttempt
<1>13. CASE DropStage(i)
  BY <1>13, EndsFacts DEF DropStage, Taken
<1> QED
  BY <1>1, <1>2, <1>3, <1>4, <1>5, <1>6, <1>7, <1>8, <1>9, <1>10, <1>11, <1>12, <1>13 DEF Launching

LEMMA FinishingTaken ==
  ASSUME TypeOK, NEW i \in Issues, Taken(i), Finishing(i)
  PROVE  Taken(i)'
<1>1. CASE BeginFinish(i)
  <2>1. ~cmd'[i].took
    BY <1>1 DEF BeginFinish, TypeOK
  <2> QED
    BY <2>1 DEF Taken
<1>2. CASE ~BeginFinish(i)
  <2>1. /\ cmd[i] # None /\ cmd[i].pc \notin Taking
        /\ Ends(i) \/ \E pc \in {"exit", "gone", "quiet", "verify", "recheck", "remove",
                                 "settle", "return"} : Goto(i, pc)
    BY <1>2 DEF Finishing, OwnCleanup, ExitAgent, AwaitQuiet, VerifyNoJobs, Recheck,
       Remove, VerifyRemoved, Settle, Return, Incomplete, At, Taking
  <2> QED
    BY <2>1, UntakenGoes
<1> QED
  BY <1>1, <1>2

LEMMA RebasingTaken ==
  ASSUME TypeOK, NEW i \in Issues, Taken(i), Rebasing(i)
  PROVE  Taken(i)'
<1>1. cmd' = cmd
  BY DEF Rebasing, Adopt, RebaseBegin, RebaseFence, RebaseCheck, RebaseEnds, RebaseCut,
     RebaseRecover
<1>2. lease' = lease \/ (lease[i] # None /\ \E stage \in {"running", "rebasing"} : Stages(i, stage))
  BY DEF Rebasing, Adopt, RebaseBegin, RebaseFence, RebaseCheck, RebaseEnds, RebaseCut,
     RebaseRecover, Holds, Stages
<1>3. {"running", "rebasing"} \subseteq LeaseStage
  BY DEF LeaseStage
<1> QED
  BY <1>1, <1>2, <1>3, StagesFacts DEF Taken, Mine, Holds

LEMMA LeavingTaken ==
  ASSUME TypeOK, NEW i \in Issues, Taken(i), Leaving(i)
  PROVE  Taken(i)'
<1>1. CASE AgentExits(i)
  BY <1>1 DEF AgentExits, Taken, Mine, Holds
<1>2. CASE CommandDies(i)
  BY <1>2, EndsFacts DEF CommandDies, Taken
<1>3. CASE OwnerExits(i)
  BY <1>3 DEF OwnerExits, Taken
<1> QED
  BY <1>1, <1>2, <1>3 DEF Leaving

LEMMA StepKInv == KInv /\ [Next]_vars => KInv'
<1> SUFFICES ASSUME KInv, [Next]_vars PROVE KInv'
  OBVIOUS
<1>1. IInv /\ TypeOK /\ Hosted /\ \A i \in Issues : Due(i) /\ Taken(i)
  BY DEF KInv, IInv
<1>2. IInv'
  BY <1>1, StepIInv
<1>3. ASSUME NEW i \in Issues, Launching(i) \/ Finishing(i) \/ Rebasing(i) \/ Leaving(i)
      PROVE  \A k \in Issues : Taken(k)'
  <2>1. Taken(i)'
    BY <1>1, <1>3, LaunchingTaken, FinishingTaken, RebasingTaken, LeavingTaken
  <2>2. ASSUME NEW k \in Issues, k # i PROVE Taken(k)'
    <3>1. cmd'[k] = cmd[k]
      BY <1>1, <1>3, <2>2, OthersStay
    <3>2. lease'[k] = lease[k] \/ Reclaimable(k)
      BY <1>1, <1>3, <2>2, OthersLeases
    <3> QED
      BY <1>1, <3>1, <3>2 DEF Taken, Mine, Holds, Reclaimable
  <2> QED
    BY <2>1, <2>2
<1>4. ASSUME NEW j \in Jobs, Running(j) PROVE \A k \in Issues : Taken(k)'
  <2>1. UNCHANGED <<lease, cmd>>
    BY <1>4 DEF Running, Ask, Admit, GiveBack, Spawn, RecordGroup, Go, GroupEnds, SettleJob,
       RunnerDies, Renew
  <2> QED
    BY <1>1, <2>1 DEF Taken, Mine, Holds
<1>5. CASE UNCHANGED vars
  <2>1. UNCHANGED <<lease, cmd>>
    BY <1>5 DEF vars
  <2>2. \A k \in Issues : Taken(k)'
    BY <1>1, <2>1 DEF Taken, Mine, Holds
  <2> QED
    BY <1>2, <2>2 DEF KInv
<1>6. CASE Next
  <2>1. \A k \in Issues : Taken(k)'
    BY <1>3, <1>4, <1>6 DEF Next
  <2> QED
    BY <1>2, <2>1 DEF KInv
<1> QED
  BY <1>5, <1>6

\* A launch that took a lease (resources/launch.rs) has it until it ends, as
\* its owner and on its host, though other launches reclaim leases meanwhile
\* and rebases and finishes write over its stage.
THEOREM LaunchesKeepTheirLease == Spec => []LaunchKeepsItsLease
<1>1. Init => KInv
  BY InitIInv DEF KInv, Init, Taken
<1>2. KInv => LaunchKeepsItsLease
  BY DEF KInv, Taken, LaunchKeepsItsLease
<1> QED
  BY <1>1, <1>2, StepKInv, PTL DEF Spec
=============================================================================
