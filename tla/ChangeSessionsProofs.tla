------------------------ MODULE ChangeSessionsProofs ------------------------
(***************************************************************************)
(* What is proved of BoundedOperation for every catalogue value, every set *)
(* of devices and every pattern of failures and interference, and of       *)
(* ChangeSessions for every number of sessions, request threads and        *)
(* devices: its types, that the gates and the recorded statuses tell the   *)
(* truth about the worker, and that it implements ChangeLifecycle.         *)
(***************************************************************************)
EXTENDS ChangeSessions, TLAPS

(***************************************************************************)
(* Bounded operations.  The invariants of the runs are not inductive:      *)
(* whether a verdict is true depends on what the pipeline has read and     *)
(* recorded on the way.  OpInv below says what is known at every stage.    *)
(***************************************************************************)

BeforeSending == {"precheck", "config", "backup", "execute"}
AfterSending  == {"verify", "rollback", "restored"}
BeforeKnown   == {"backup", "execute"} \cup AfterSending

\* The worker knows what it works on, and the way back while it is needed.
OpShape ==
  /\ OpTypeOK
  /\ op.pc # "idle" => /\ op.device \in Devices
                       /\ op.plan \in Plans
                       /\ history.original \in Interface
  /\ op.pc \in BeforeKnown => /\ op.before \in SettingsOf(Property(op.plan))
                              /\ RollbackExists(op.plan, op.before)

\* Nothing is sent before a backup and a way back exist.
OpPaperwork ==
  /\ op.pc \in BeforeSending => ~history.sent
  /\ op.pc \in {"execute"} \cup AfterSending => op.backup
  /\ op.pc \in BeforeSending \cup AfterSending => op.status = "none"
  /\ SentOnlyWithWayBack

\* As long as nobody interferes, what was read is what the operation found,
\* only the planned property can have changed, and where it has, the operation
\* has written something that the reading tells entirely.
OpOriginal ==
  ~history.interfered =>
    /\ op.pc \in BeforeSending => running[op.device] = history.original
    /\ op.pc = "config" => op.shown = Seen(op.plan, history.original)
    /\ op.pc \in BeforeKnown => op.before = Seen(op.plan, history.original)
    /\ op.pc \in AfterSending =>
         \A p \in Properties \ {Property(op.plan)} :
           running[op.device][p] = history.original[p]
    /\ op.pc \in AfterSending =>
         \/ running[op.device][Property(op.plan)]
              = history.original[Property(op.plan)]
         \/ Legible(op.plan, running[op.device])

OpInv == OpShape /\ OpPaperwork /\ OpOriginal

-----------------------------------------------------------------------------
(* The catalogue *)

LEMMA PropertyFits ==
  ASSUME NEW plan \in Plans
  PROVE  Property(plan) \in Properties
BY DEF Property, Properties

LEMMA SettingsFit ==
  ASSUME NEW p \in Properties
  PROVE  SettingsOf(p) \subseteq Settings
BY DEF Properties, SettingsOf, Settings

LEMMA WantedFits ==
  ASSUME NEW plan \in Plans
  PROVE  Wanted(plan) \in SettingsOf(Property(plan))
BY OperationAssumption
   DEF Plans, Kinds, Wanted, Property, SettingsOf

LEMMA SeenFits ==
  ASSUME NEW plan \in Plans, NEW i \in Interface
  PROVE  Seen(plan, i) \in SettingsOf(Property(plan))
<1>1. \A p \in Properties : i[p] \in SettingsOf(p)
  BY DEF Interface
<1>2. CASE Property(plan) = "poe"
  <2>1. i["poe"] \in PoeSettings
    BY <1>1 DEF Properties, SettingsOf
  <2>2. PoeAdmin(i["poe"]) \in PoeSettings
    BY <2>1, OperationAssumption DEF PoeAdmin
  <2> QED
    BY <1>2, <2>2 DEF Seen, SettingsOf
<1>3. CASE Property(plan) # "poe"
  BY <1>1, <1>3, PropertyFits DEF Seen
<1> QED
  BY <1>2, <1>3

LEMMA SetFits ==
  ASSUME NEW i \in Interface, NEW p \in Properties, NEW v \in SettingsOf(p)
  PROVE  [i EXCEPT ![p] = v] \in Interface
<1>1. v \in Settings
  BY SettingsFit
<1> QED
  BY <1>1 DEF Interface

LEMMA AppliedFits ==
  ASSUME NEW plan \in Plans, NEW i \in Interface
  PROVE  /\ Applied(plan, i) \in Interface
         /\ \A p \in Properties \ {Property(plan)} : Applied(plan, i)[p] = i[p]
BY WantedFits, PropertyFits, SetFits DEF Applied, Interface

LEMMA RolledBackFits ==
  ASSUME NEW plan \in Plans, NEW i \in Interface,
         NEW before \in SettingsOf(Property(plan))
  PROVE  /\ RolledBack(plan, before, i) \in Interface
         /\ \A p \in Properties \ {Property(plan)} :
              RolledBack(plan, before, i)[p] = i[p]
BY PropertyFits, SetFits DEF RolledBack, Interface

\* What the operation writes is legible.
LEMMA AppliedLegible ==
  ASSUME NEW plan \in Plans, NEW i \in Interface
  PROVE  Legible(plan, Applied(plan, i))
<1>1. Applied(plan, i)[Property(plan)] = Wanted(plan)
  BY PropertyFits DEF Applied, Interface
<1>2. Property(plan) = "poe" => Wanted(plan) \in {"auto", "never"}
  BY DEF Plans, Kinds, Property, Wanted
<1> QED
  BY <1>1, <1>2 DEF Legible, Seen, PoeAdmin

LEMMA RolledBackLegible ==
  ASSUME NEW plan \in Plans, NEW i \in Interface, NEW j \in Interface
  PROVE  Legible(plan, RolledBack(plan, Seen(plan, j), i))
<1>1. RolledBack(plan, Seen(plan, j), i)[Property(plan)] = Seen(plan, j)
  BY PropertyFits DEF RolledBack, Interface
<1>2. Property(plan) = "poe" => PoeAdmin(Seen(plan, j)) = Seen(plan, j)
  BY DEF Seen, PoeAdmin
<1> QED
  BY <1>1, <1>2 DEF Legible, Seen

\* An interface that reads as before and differs in nothing else is the one
\* before, or the one that writing back the reading makes of it.
LEMMA SeenDetermines ==
  ASSUME NEW plan \in Plans, NEW i \in Interface, NEW j \in Interface,
         Seen(plan, i) = Seen(plan, j),
         \A p \in Properties \ {Property(plan)} : i[p] = j[p],
         \/ i[Property(plan)] = j[Property(plan)]
         \/ Legible(plan, i)
  PROVE  /\ i \in {j, RolledBack(plan, Seen(plan, j), j)}
         /\ Legible(plan, j) => i = j
<1>1. ASSUME NEW k \in Interface, \A p \in Properties : i[p] = k[p]
      PROVE  i = k
  BY <1>1 DEF Interface
<1>2. RolledBack(plan, Seen(plan, j), j) \in Interface
      /\ \A p \in Properties \ {Property(plan)} :
           RolledBack(plan, Seen(plan, j), j)[p] = j[p]
  BY SeenFits, RolledBackFits
<1>3. RolledBack(plan, Seen(plan, j), j)[Property(plan)] = Seen(plan, j)
  BY PropertyFits DEF RolledBack, Interface
<1>4. CASE i[Property(plan)] = j[Property(plan)]
  BY <1>1, <1>4
<1>5. CASE Legible(plan, i)
  <2>1. i[Property(plan)] = Seen(plan, j)
    BY <1>5 DEF Legible
  <2>2. i = RolledBack(plan, Seen(plan, j), j)
    BY <1>1, <1>2, <1>3, <2>1
  <2>3. Legible(plan, j) => i = j
    BY <1>1, <2>1 DEF Legible
  <2> QED
    BY <2>2, <2>3
<1> QED
  BY <1>4, <1>5

-----------------------------------------------------------------------------
(* The invariant *)

LEMMA SeenIsSetting ==
  ASSUME NEW plan \in Plans, NEW i \in Interface
  PROVE  Seen(plan, i) \in Settings
BY SeenFits, PropertyFits, SettingsFit

OpRecord == [pc : Stages, device : Devices \cup {None},
             plan : Plans \cup {None}, shown : Settings \cup {None},
             before : Settings \cup {None}, backup : BOOLEAN,
             status : Verdicts, requiresSave : BOOLEAN]

HistoryRecord == [original : Interface \cup {None}, interfered : BOOLEAN,
                  sent : BOOLEAN]

LEMMA Types ==
  OpTypeOK <=> /\ running \in [Devices -> Interface]
               /\ op \in OpRecord
               /\ history \in HistoryRecord
BY DEF OpTypeOK, OpRecord, HistoryRecord

LEMMA IdleIsRecord == IdleOp \in OpRecord /\ NoHistory \in HistoryRecord
BY DEF IdleOp, NoHistory, OpRecord, HistoryRecord, Stages, Verdicts

\* A step of the pipeline that only moves on.
LEMMA Moves ==
  ASSUME OpTypeOK, NEW stage \in Stages, Goto(stage)
  PROVE  /\ op' \in OpRecord
         /\ op'.pc = stage
         /\ op'.device = op.device /\ op'.plan = op.plan
         /\ op'.before = op.before /\ op'.shown = op.shown
         /\ op'.backup = op.backup /\ op'.status = op.status
<1>1. op \in OpRecord
  BY Types
<1> QED
  BY <1>1 DEF Goto, OpRecord

\* A step that ends with a verdict.
LEMMA Finishes ==
  ASSUME OpTypeOK, NEW status \in Verdicts, NEW save \in BOOLEAN,
         Finish(status, save)
  PROVE  /\ op' \in OpRecord
         /\ op'.pc = "audit"
         /\ op'.device = op.device /\ op'.plan = op.plan
         /\ op'.before = op.before /\ op'.backup = op.backup
         /\ op'.status = status /\ op'.requiresSave = save
<1>1. op \in OpRecord
  BY Types
<1>2. "audit" \in Stages
  BY DEF Stages
<1> QED
  BY <1>1, <1>2 DEF Finish, OpRecord

LEMMA Refuses ==
  ASSUME OpTypeOK, Refuse
  PROVE  /\ op' \in OpRecord
         /\ op'.pc = "audit"
         /\ op'.device = op.device /\ op'.plan = op.plan
         /\ op'.before = op.before /\ op'.backup = op.backup
         /\ op'.status = "blocked"
         /\ UNCHANGED <<running, history>>
<1>1. "blocked" \in Verdicts /\ FALSE \in BOOLEAN
  BY DEF Verdicts
<1>2. Finish("blocked", FALSE) /\ UNCHANGED <<running, history>>
  BY DEF Refuse
<1> QED
  BY <1>1, <1>2, Finishes

\* What is sent leaves every switch with a configuration.
LEMMA SentFits ==
  ASSUME running \in [Devices -> Interface], NEW d \in Devices,
         NEW effect \in Interface, Sent(d, effect)
  PROVE  running' \in [Devices -> Interface]
BY DEF Sent

LEMMA ShapeInit == OpInit => OpShape
<1> SUFFICES ASSUME OpInit PROVE OpShape
  OBVIOUS
<1>1. op \in OpRecord /\ history \in HistoryRecord /\ op.pc = "idle"
  BY IdleIsRecord DEF OpInit, IdleOp
<1>2. OpTypeOK
  BY <1>1, Types DEF OpInit
<1> QED
  BY <1>1, <1>2 DEF OpShape, BeforeKnown, AfterSending

\* The stages of one operation keep what it works on.
LEMMA ShapeKept ==
  ASSUME OpShape, op.pc # "idle", op' \in OpRecord,
         op'.device = op.device, op'.plan = op.plan, op'.before = op.before,
         op'.pc \in BeforeKnown => op.pc \in BeforeKnown,
         running' \in [Devices -> Interface],
         history' \in HistoryRecord, history'.original = history.original
  PROVE  OpShape'
<1>1. OpTypeOK'
  BY DEF OpTypeOK, OpRecord, HistoryRecord
<1> QED
  BY <1>1 DEF OpShape

LEMMA ShapeStep ==
  ASSUME OpShape, [OpNext]_opVars
  PROVE  OpShape'
<1>0. /\ OpTypeOK
      /\ running \in [Devices -> Interface]
      /\ op \in OpRecord /\ history \in HistoryRecord
  BY Types DEF OpShape
<1>s. /\ {"config", "backup", "execute", "verify", "rollback", "restored", "audit",
          "done"} \subseteq Stages
      /\ {"success", "failed", "rolled_back"} \subseteq Verdicts
      /\ "audit" \notin BeforeKnown /\ "done" \notin BeforeKnown
      /\ "idle" \notin BeforeKnown /\ "precheck" \notin BeforeKnown
      /\ "config" \notin BeforeKnown
      /\ {"backup", "execute", "verify", "rollback", "restored"} \subseteq BeforeKnown
  BY DEF Stages, Verdicts, BeforeKnown, AfterSending
<1>w. op.pc # "idle" => /\ op.device \in Devices
                        /\ op.plan \in Plans
                        /\ running[op.device] \in Interface
  BY <1>0 DEF OpShape
<1>1. ASSUME NEW d \in Devices, NEW plan \in Plans, Begin(d, plan)
      PROVE  OpShape'
  <2>1. /\ op' = [IdleOp EXCEPT !.pc = "precheck", !.device = d, !.plan = plan]
        /\ history' = [original |-> running[d], interfered |-> FALSE, sent |-> FALSE]
        /\ running' = running
    BY <1>1 DEF Begin
  <2>2. "precheck" \in Stages
    BY DEF Stages
  <2>3. op' \in OpRecord
    BY <2>1, <2>2, IdleIsRecord DEF OpRecord
  <2>4. op'.pc = "precheck" /\ op'.device = d /\ op'.plan = plan
    BY <2>1 DEF IdleOp
  <2>5. running[d] \in Interface
    BY <1>0
  <2>6. history' \in HistoryRecord /\ history'.original \in Interface
    BY <2>1, <2>5 DEF HistoryRecord
  <2>7. OpTypeOK'
    BY <1>0, <2>1, <2>3, <2>6
      DEF OpTypeOK, OpRecord, HistoryRecord
  <2> QED
    BY <1>s, <2>4, <2>6, <2>7 DEF OpShape
<1>2. CASE ReadStatus
  <2>0. op.pc # "idle" /\ UNCHANGED <<running, history>>
    BY <1>2 DEF ReadStatus, Refuse
  <2>1. CASE Refuse
    BY <1>0, <1>s, <2>0, <2>1, Refuses, ShapeKept
  <2>2. CASE ~Refuse
    <3>1. op' = [op EXCEPT !.pc = "config",
                           !.shown = Seen(op.plan, running[op.device])]
      BY <1>2, <2>2 DEF ReadStatus
    <3>2. Seen(op.plan, running[op.device]) \in Settings
      BY <1>w, <2>0, SeenIsSetting
    <3>3. /\ op' \in OpRecord /\ op'.pc = "config" /\ op'.before = op.before
          /\ op'.device = op.device /\ op'.plan = op.plan
      BY <1>0, <1>s, <3>1, <3>2 DEF OpRecord
    <3> QED
      BY <1>0, <1>s, <2>0, <3>3, ShapeKept
  <2> QED
    BY <2>1, <2>2
<1>3. CASE ReadConfig
  <2>0. op.pc # "idle" /\ UNCHANGED <<running, history>>
    BY <1>3 DEF ReadConfig, Refuse
  <2> DEFINE before == Seen(op.plan, running[op.device])
  <2>1. before \in Settings /\ before \in SettingsOf(Property(op.plan))
    BY <1>w, <2>0, SeenIsSetting, SeenFits
  <2>2. CASE Refuse
    BY <1>0, <1>s, <2>0, <2>2, Refuses, ShapeKept
  <2>3. CASE /\ RollbackExists(op.plan, before)
             /\ op' = [op EXCEPT !.pc = "audit", !.before = before,
                                 !.status = "success", !.requiresSave = FALSE]
    <3>1. /\ op' \in OpRecord /\ op'.pc = "audit"
          /\ op'.device = op.device /\ op'.plan = op.plan
      BY <1>0, <1>s, <2>1, <2>3 DEF OpRecord
    <3>2. OpTypeOK'
      BY <1>0, <2>0, <3>1
      DEF OpTypeOK, OpRecord, HistoryRecord
    <3> QED
      BY <1>s, <2>0, <3>1, <3>2 DEF OpShape
  <2>4. CASE /\ RollbackExists(op.plan, before)
             /\ op' = [op EXCEPT !.pc = "backup", !.before = before]
    <3>1. /\ op' \in OpRecord /\ op'.before = before
          /\ op'.device = op.device /\ op'.plan = op.plan
      BY <1>0, <1>s, <2>1, <2>4 DEF OpRecord
    <3>2. OpTypeOK'
      BY <1>0, <2>0, <3>1
      DEF OpTypeOK, OpRecord, HistoryRecord
    <3> QED
      BY <2>0, <2>1, <2>4, <3>1, <3>2 DEF OpShape
  <2> QED
    BY <1>3, <2>2, <2>3, <2>4 DEF ReadConfig
<1>4. CASE Backup
  <2>0. op.pc = "backup" /\ UNCHANGED <<running, history>>
    BY <1>4 DEF Backup, Refuse
  <2>1. CASE Refuse
    BY <1>0, <1>s, <2>0, <2>1, Refuses, ShapeKept
  <2>2. CASE ~Refuse
    <3>1. op' = [op EXCEPT !.pc = "execute", !.backup = TRUE]
      BY <1>4, <2>2 DEF Backup
    <3>2. /\ op' \in OpRecord /\ op'.before = op.before
          /\ op'.device = op.device /\ op'.plan = op.plan
      BY <1>0, <1>s, <3>1 DEF OpRecord
    <3> QED
      BY <1>0, <1>s, <2>0, <3>2, ShapeKept
  <2> QED
    BY <2>1, <2>2
<1>5. CASE Execute
  <2>0. /\ op.pc = "execute"
        /\ history' = [history EXCEPT !.sent = TRUE]
    BY <1>5 DEF Execute
  <2>1. history' \in HistoryRecord /\ history'.original = history.original
    BY <1>0, <2>0 DEF HistoryRecord
  <2>2. Applied(op.plan, running[op.device]) \in Interface
    BY <1>w, <2>0, AppliedFits
  <2>3. running' \in [Devices -> Interface]
    BY <1>0, <1>5, <1>w, <2>0, <2>2, SentFits DEF Execute
  <2>4. Finish("failed", TRUE) \/ Finish("failed", FALSE) \/ Goto("verify")
    BY <1>5 DEF Execute
  <2>5. /\ op' \in OpRecord /\ op'.before = op.before
        /\ op'.device = op.device /\ op'.plan = op.plan
    BY <1>0, <1>s, <2>4, Finishes, Moves
  <2> QED
    BY <1>s, <2>0, <2>1, <2>3, <2>5, ShapeKept
<1>6. CASE Verify
  <2>0. /\ op.pc = "verify" /\ UNCHANGED <<running, history>>
        /\ Finish("success", TRUE) \/ Goto("rollback")
    BY <1>6 DEF Verify
  <2>1. /\ op' \in OpRecord /\ op'.before = op.before
        /\ op'.device = op.device /\ op'.plan = op.plan
    BY <1>0, <1>s, <2>0, Finishes, Moves
  <2> QED
    BY <1>0, <1>s, <2>0, <2>1, ShapeKept
<1>7. CASE Rollback
  <2>0. /\ op.pc = "rollback" /\ UNCHANGED history
        /\ Finish("failed", TRUE) \/ Goto("restored")
    BY <1>7 DEF Rollback
  <2>1. op.before \in SettingsOf(Property(op.plan))
    BY <1>s, <2>0 DEF OpShape
  <2>2. RolledBack(op.plan, op.before, running[op.device]) \in Interface
    BY <1>w, <2>0, <2>1, RolledBackFits
  <2>3. running' \in [Devices -> Interface]
    BY <1>0, <1>7, <1>w, <2>0, <2>2, SentFits DEF Rollback
  <2>4. /\ op' \in OpRecord /\ op'.before = op.before
        /\ op'.device = op.device /\ op'.plan = op.plan
    BY <1>0, <1>s, <2>0, Finishes, Moves
  <2> QED
    BY <1>0, <1>s, <2>0, <2>3, <2>4, ShapeKept
<1>8. CASE ReadBack
  <2>0. /\ op.pc = "restored" /\ UNCHANGED <<running, history>>
        /\ Finish("rolled_back", FALSE) \/ Finish("failed", TRUE)
    BY <1>8 DEF ReadBack
  <2>1. /\ op' \in OpRecord /\ op'.before = op.before
        /\ op'.device = op.device /\ op'.plan = op.plan
    BY <1>0, <1>s, <2>0, Finishes
  <2> QED
    BY <1>0, <1>s, <2>0, <2>1, ShapeKept
<1>9. CASE Audit
  <2>0. op.pc = "audit" /\ UNCHANGED <<running, history>> /\ Goto("done")
    BY <1>9 DEF Audit
  <2>1. /\ op' \in OpRecord /\ op'.before = op.before /\ op'.pc = "done"
        /\ op'.device = op.device /\ op'.plan = op.plan
    BY <1>0, <1>s, <2>0, Moves
  <2> QED
    BY <1>0, <1>s, <2>0, <2>1, ShapeKept
<1>10. CASE Return
  <2>1. op' = IdleOp /\ history' = NoHistory /\ running' = running
    BY <1>10 DEF Return
  <2>2. OpTypeOK'
    BY <1>0, <2>1, IdleIsRecord
      DEF OpTypeOK, OpRecord, HistoryRecord
  <2>3. op'.pc = "idle"
    BY <2>1 DEF IdleOp
  <2> QED
    BY <1>s, <2>2, <2>3 DEF OpShape
<1>11. ASSUME NEW d \in Devices, Interfere(d)
       PROVE  OpShape'
  <2>0. PICK p \in Meddled : \E v \in SettingsOf(p) :
          running' = [running EXCEPT ![d] = [@ EXCEPT ![p] = v]]
    BY <1>11 DEF Interfere
  <2>1. PICK v \in SettingsOf(p) :
          running' = [running EXCEPT ![d] = [@ EXCEPT ![p] = v]]
    BY <2>0
  <2>2. p \in Properties
    BY OperationAssumption DEF Properties
  <2>3. [running[d] EXCEPT ![p] = v] \in Interface
    BY <1>0, <2>2, SetFits
  <2>4. running' \in [Devices -> Interface]
    BY <1>0, <2>1, <2>3
  <2>5. /\ op' = op
        /\ history' = [history EXCEPT !.interfered = @ \/ d = op.device]
    BY <1>11 DEF Interfere
  <2>6. history' \in HistoryRecord /\ history'.original = history.original
    BY <1>0, <2>5 DEF HistoryRecord
  <2>7. OpTypeOK'
    BY <1>0, <2>4, <2>5, <2>6
      DEF OpTypeOK, OpRecord, HistoryRecord
  <2> QED
    BY <2>5, <2>6, <2>7 DEF OpShape
<1>12. CASE UNCHANGED opVars
  BY <1>12 DEF opVars, OpShape, OpTypeOK
<1> QED
  BY <1>1, <1>2, <1>3, <1>4, <1>5, <1>6, <1>7, <1>8, <1>9, <1>10, <1>11, <1>12
     DEF OpNext, OpStep

\* Every state of the pipeline is well-typed: OpTypeOK of the run.
THEOREM TypeCorrect == OpSpec => []OpTypeOK
<1>1. OpShape => OpTypeOK
  BY DEF OpShape
<1> QED
  BY <1>1, ShapeInit, ShapeStep, PTL DEF OpSpec

LEMMA PaperworkInit == OpInit => OpPaperwork
BY DEF OpInit, OpPaperwork, IdleOp, NoHistory, BeforeSending, AfterSending,
       SentOnlyWithWayBack

LEMMA PaperworkStep ==
  ASSUME OpShape, OpPaperwork, [OpNext]_opVars
  PROVE  OpPaperwork'
<1> USE DEF AfterSending, OpPaperwork, BeforeSending, SentOnlyWithWayBack
<1>0. OpTypeOK /\ op \in OpRecord
  BY Types DEF OpShape
<1>1. ASSUME NEW d \in Devices, NEW plan \in Plans, Begin(d, plan)
      PROVE  OpPaperwork'
  BY <1>1 DEF Begin, IdleOp
<1>s. /\ {"verify", "rollback", "restored", "done"} \subseteq Stages
      /\ {"success", "failed", "rolled_back"} \subseteq Verdicts
  BY DEF Stages, Verdicts
<1>r. Refuse => /\ op'.pc = "audit" /\ op'.backup = op.backup
                /\ UNCHANGED history
  BY <1>0, Refuses
<1>2. CASE ReadStatus
  <2>0. op.pc = "precheck" /\ UNCHANGED history
    BY <1>2 DEF ReadStatus, Refuse
  <2>1. op'.pc = "audit" \/ (op'.pc = "config" /\ op'.status = op.status)
    BY <1>0, <1>2, <1>r DEF ReadStatus, OpRecord
  <2> QED
    BY <2>0, <2>1
<1>3. CASE ReadConfig
  <2>0. op.pc = "config" /\ UNCHANGED history
    BY <1>3 DEF ReadConfig, Refuse
  <2>1. op'.pc \in {"audit", "backup"}
        /\ (op'.pc = "backup" => op'.status = op.status)
    BY <1>0, <1>3, <1>r DEF ReadConfig, OpRecord
  <2> QED
    BY <2>0, <2>1
<1>4. CASE Backup
  <2>0. op.pc = "backup" /\ UNCHANGED history
    BY <1>4 DEF Backup, Refuse
  <2>1. op'.pc = "audit" \/ /\ op'.pc = "execute" /\ op'.status = op.status
                             /\ op'.backup
    BY <1>0, <1>4, <1>r DEF Backup, OpRecord
  <2> QED
    BY <2>0, <2>1
<1>5. CASE Execute
  <2>0. /\ op.pc = "execute"
        /\ Finish("failed", TRUE) \/ Finish("failed", FALSE) \/ Goto("verify")
    BY <1>5 DEF Execute
  <2> QED
    BY <2>0, <1>0, <1>s, Finishes, Moves DEF OpShape, BeforeKnown
<1>6. CASE Verify
  <2>0. /\ op.pc = "verify" /\ UNCHANGED history
        /\ Finish("success", TRUE) \/ Goto("rollback")
    BY <1>6 DEF Verify
  <2> QED
    BY <2>0, <1>0, <1>s, Finishes, Moves
<1>7. CASE Rollback
  <2>0. /\ op.pc = "rollback" /\ UNCHANGED history
        /\ Finish("failed", TRUE) \/ Goto("restored")
    BY <1>7 DEF Rollback
  <2> QED
    BY <2>0, <1>0, <1>s, Finishes, Moves
<1>8. CASE ReadBack
  <2>0. /\ op.pc = "restored" /\ UNCHANGED history
        /\ Finish("rolled_back", FALSE) \/ Finish("failed", TRUE)
    BY <1>8 DEF ReadBack
  <2> QED
    BY <2>0, <1>0, <1>s, Finishes
<1>9. CASE Audit
  <2>0. op.pc = "audit" /\ UNCHANGED history /\ Goto("done")
    BY <1>9 DEF Audit
  <2> QED
    BY <2>0, <1>0, <1>s, Moves
<1>10. CASE Return
  BY <1>10 DEF Return, IdleOp, NoHistory
<1>11. ASSUME NEW d \in Devices, Interfere(d)
       PROVE  OpPaperwork'
  BY <1>11 DEF Interfere
<1>12. CASE UNCHANGED opVars
  BY <1>12 DEF opVars
<1> QED
  BY <1>1, <1>2, <1>3, <1>4, <1>5, <1>6, <1>7, <1>8, <1>9, <1>10, <1>11, <1>12
     DEF OpNext, OpStep

\* Configuration is sent only with a backup on disk and an expressible way
\* back, and a blocked result never was: SentOnlyWithWayBack of the run.
THEOREM WayBackFirst == OpSpec => []SentOnlyWithWayBack
<1>1. OpPaperwork => SentOnlyWithWayBack
  BY DEF OpPaperwork
<1> QED
  BY <1>1, ShapeInit, ShapeStep, PaperworkInit, PaperworkStep, PTL DEF OpSpec

-----------------------------------------------------------------------------
(* Verdicts *)

LEMMA OriginalInit == OpInit => OpOriginal /\ SuccessIsReal
BY DEF OpInit, OpOriginal, IdleOp, NoHistory, BeforeSending, AfterSending,
       BeforeKnown, SuccessIsReal, Concluded

\* Two steps that send configuration change only the planned property.
LEMMA SentKeepsOthers ==
  ASSUME OpShape, NEW d \in Devices, NEW effect \in Interface, NEW p \in Properties,
         effect[p] = running[d][p], Sent(d, effect)
  PROVE  running'[d][p] = running[d][p]
BY DEF Sent, OpShape, OpTypeOK

LEMMA SentIsEffect ==
  ASSUME OpShape, NEW d \in Devices, NEW effect \in Interface, Sent(d, effect)
  PROVE  running'[d] \in {effect, running[d]}
BY DEF Sent, OpShape, OpTypeOK

LEMMA OriginalStep ==
  ASSUME OpShape, OpPaperwork, OpOriginal, [OpNext]_opVars
  PROVE  OpOriginal'
<1> USE DEF OpShape, OpTypeOK, Stages, BeforeKnown, AfterSending, BeforeSending,
            OpOriginal
<1>1. ASSUME NEW d \in Devices, NEW plan \in Plans, Begin(d, plan)
      PROVE  OpOriginal'
  BY <1>1 DEF Begin, IdleOp
<1>2. CASE ReadStatus
  <2>1. CASE Refuse
    BY <1>2, <2>1 DEF ReadStatus, Refuse, Finish
  <2>2. CASE ~Refuse
    <3>1. /\ op.pc = "precheck"
          /\ op' = [op EXCEPT !.pc = "config",
                               !.shown = Seen(op.plan, running[op.device])]
          /\ UNCHANGED <<running, history>>
      BY <1>2, <2>2 DEF ReadStatus
    <3>2. /\ op'.pc = "config" /\ op'.plan = op.plan /\ op'.device = op.device
          /\ op'.shown = Seen(op.plan, running[op.device])
      BY <3>1
    <3> QED
      BY <3>1, <3>2
  <2> QED
    BY <2>1, <2>2
<1>3. CASE ReadConfig
  <2>1. CASE Refuse
    BY <2>1 DEF Refuse, Finish
  <2>2. CASE ~Refuse
    <3>1. /\ op.pc = "config"
          /\ UNCHANGED <<running, history>>
          /\ op' = [op EXCEPT !.pc = "audit",
                              !.before = Seen(op.plan, running[op.device]),
                              !.status = "success", !.requiresSave = FALSE]
             \/ op' = [op EXCEPT !.pc = "backup",
                                 !.before = Seen(op.plan, running[op.device])]
      BY <1>3, <2>2 DEF ReadConfig
    <3>2. /\ op'.pc \in {"audit", "backup"}
          /\ op'.device = op.device /\ op'.plan = op.plan
          /\ op'.before = Seen(op.plan, running[op.device])
      BY <3>1
    <3> QED
      BY <3>1, <3>2
  <2> QED
    BY <2>1, <2>2
<1>4. CASE Backup
  BY <1>4 DEF Backup, Refuse, Finish
<1>5. CASE Execute
  <2> DEFINE effect == Applied(op.plan, running[op.device])
  <2>1. /\ op.pc = "execute"
        /\ running[op.device] \in Interface
        /\ history'.interfered = history.interfered
        /\ history'.original = history.original
    BY <1>5 DEF Execute
  <2>2. CASE op'.pc = "verify"
    <3>1. /\ Sent(op.device, effect)
          /\ op'.device = op.device /\ op'.plan = op.plan /\ op'.before = op.before
      BY <1>5, <2>2 DEF Execute, Finish, Goto
    <3>2. effect \in Interface
          /\ \A p \in Properties \ {Property(op.plan)} :
               effect[p] = running[op.device][p]
      BY <2>1, AppliedFits
    <3>3. \A p \in Properties \ {Property(op.plan)} :
            running'[op.device][p] = running[op.device][p]
      BY <2>1, <3>1, <3>2, SentKeepsOthers
    <3>4. \/ running'[op.device] = running[op.device]
          \/ Legible(op.plan, running'[op.device])
      BY <2>1, <3>1, <3>2, SentIsEffect, AppliedLegible
    <3> QED
      BY <2>1, <2>2, <3>1, <3>3, <3>4
  <2>3. CASE op'.pc # "verify"
    <3>1. op'.pc = "audit"
      BY <1>5, <2>3 DEF Execute, Finish, Goto
    <3> QED
      BY <3>1
  <2> QED
    BY <2>2, <2>3
<1>6. CASE Verify
  BY <1>6 DEF Verify, Finish, Goto
<1>7. CASE Rollback
  <2> DEFINE effect == RolledBack(op.plan, op.before, running[op.device])
  <2>1. /\ op.pc = "rollback"
        /\ running[op.device] \in Interface
        /\ UNCHANGED history
    BY <1>7 DEF Rollback
  <2>2. CASE op'.pc = "restored"
    <3>1. /\ Sent(op.device, effect)
          /\ op'.device = op.device /\ op'.plan = op.plan /\ op'.before = op.before
      BY <1>7, <2>2 DEF Rollback, Finish, Goto
    <3>2. effect \in Interface
          /\ \A p \in Properties \ {Property(op.plan)} :
               effect[p] = running[op.device][p]
      BY <2>1, RolledBackFits
    <3>3. \A p \in Properties \ {Property(op.plan)} :
            running'[op.device][p] = running[op.device][p]
      BY <2>1, <3>1, <3>2, SentKeepsOthers
    <3>4. ~history.interfered =>
             \/ running'[op.device] = running[op.device]
             \/ Legible(op.plan, running'[op.device])
      BY <2>1, <3>1, <3>2, SentIsEffect, RolledBackLegible
    <3> QED
      BY <2>1, <2>2, <3>1, <3>3, <3>4
  <2>3. CASE op'.pc # "restored"
    <3>1. op'.pc = "audit"
      BY <1>7, <2>3 DEF Rollback, Finish, Goto
    <3> QED
      BY <3>1
  <2> QED
    BY <2>2, <2>3
<1>8. CASE ReadBack
  <2>1. Finish("rolled_back", FALSE) \/ Finish("failed", TRUE)
    BY <1>8 DEF ReadBack
  <2>2. op'.pc = "audit"
    BY <2>1 DEF Finish
  <2>3. history' = history
    BY <1>8 DEF ReadBack
  <2> QED
    BY <2>2, <2>3
<1>9. CASE Audit
  BY <1>9 DEF Audit, Goto
<1>10. CASE Return
  BY <1>10 DEF Return, IdleOp, NoHistory
<1>11. ASSUME NEW d \in Devices, Interfere(d)
       PROVE  OpOriginal'
  <2>1. op' = op /\ history' = [history EXCEPT !.interfered = @ \/ d = op.device]
    BY <1>11 DEF Interfere
  <2>2. CASE d = op.device
    BY <2>1, <2>2
  <2>3. CASE d # op.device
    <3>1. \A e \in Devices \ {d} : running'[e] = running[e]
      BY <1>11 DEF Interfere
    <3> QED
      BY <2>1, <2>3, <3>1
  <2> QED
    BY <2>2, <2>3
<1>12. CASE UNCHANGED opVars
  BY <1>12 DEF opVars
<1> QED
  BY <1>1, <1>2, <1>3, <1>4, <1>5, <1>6, <1>7, <1>8, <1>9, <1>10, <1>11, <1>12
     DEF OpNext, OpStep

LEMMA SuccessStep ==
  ASSUME OpShape, OpPaperwork, OpOriginal, SuccessIsReal, [OpNext]_opVars
  PROVE  SuccessIsReal'
<1> USE DEF OpShape, OpTypeOK, Stages, SuccessIsReal, Concluded
<1>1. ASSUME NEW d \in Devices, NEW plan \in Plans, Begin(d, plan)
      PROVE  SuccessIsReal'
  BY <1>1 DEF Begin, IdleOp
<1>2. CASE ReadStatus
  BY <1>2 DEF ReadStatus, Refuse, Finish
<1>3. CASE ReadConfig
  <2>1. CASE Refuse
    BY <2>1 DEF Refuse, Finish
  <2>2. CASE op'.pc = "audit" /\ ~Refuse
    <3> DEFINE seen == IF Property(op.plan) = "description"
                         THEN Seen(op.plan, running[op.device]) ELSE op.shown
    <3>1. /\ op.pc = "config"
          /\ PostconditionMet(op.plan, seen)
          /\ op'.plan = op.plan /\ op'.device = op.device
          /\ UNCHANGED <<running, history>>
      BY <1>3, <2>2 DEF ReadConfig
    <3>2. ~history.interfered => seen = Seen(op.plan, running[op.device])
      BY <3>1 DEF OpOriginal, BeforeSending
    <3> QED
      BY <3>1, <3>2 DEF PostconditionMet
  <2>3. CASE op'.pc # "audit"
    <3>1. op'.pc = "backup"
      BY <1>3, <2>3 DEF ReadConfig, Refuse, Finish
    <3> QED
      BY <3>1
  <2> QED
    BY <2>1, <2>2, <2>3
<1>4. CASE Backup
  BY <1>4 DEF Backup, Refuse, Finish
<1>5. CASE Execute
  BY <1>5 DEF Execute, Finish, Goto
<1>6. CASE Verify
  BY <1>6 DEF Verify, Finish, Goto, PostconditionMet
<1>7. CASE Rollback
  BY <1>7 DEF Rollback, Finish, Goto
<1>8. CASE ReadBack
  <2>1. Finish("rolled_back", FALSE) \/ Finish("failed", TRUE)
    BY <1>8 DEF ReadBack
  <2> QED
    BY <2>1 DEF Finish
<1>9. CASE Audit
  BY <1>9 DEF Audit, Goto
<1>10. CASE Return
  BY <1>10 DEF Return, IdleOp, NoHistory
<1>11. ASSUME NEW d \in Devices, Interfere(d)
       PROVE  SuccessIsReal'
  <2>1. op' = op /\ history' = [history EXCEPT !.interfered = @ \/ d = op.device]
    BY <1>11 DEF Interfere
  <2>2. CASE d = op.device
    BY <2>1, <2>2
  <2>3. CASE d # op.device
    <3>1. \A e \in Devices \ {d} : running'[e] = running[e]
      BY <1>11 DEF Interfere
    <3> QED
      BY <2>1, <2>3, <3>1
  <2> QED
    BY <2>2, <2>3
<1>12. CASE UNCHANGED opVars
  BY <1>12 DEF opVars
<1> QED
  BY <1>1, <1>2, <1>3, <1>4, <1>5, <1>6, <1>7, <1>8, <1>9, <1>10, <1>11, <1>12
     DEF OpNext, OpStep

\* A result that says success says it of the switch: SuccessIsReal of the run.
THEOREM SuccessMeansApplied == OpSpec => []SuccessIsReal
BY ShapeInit, ShapeStep, PaperworkInit, PaperworkStep, OriginalInit, OriginalStep,
   SuccessStep, PTL DEF OpSpec

-----------------------------------------------------------------------------
(* What is left on the switch *)

NothingChanged == NothingLeftBehind /\ RollbackLosesOnlyLimits

LEMMA NothingChangedInit == OpInit => NothingChanged
BY DEF OpInit, IdleOp, NothingChanged, NothingLeftBehind, RollbackLosesOnlyLimits, Concluded

LEMMA NothingChangedStep ==
  ASSUME OpShape, OpPaperwork, OpOriginal, NothingChanged, [OpNext]_opVars
  PROVE  NothingChanged'
<1> USE DEF OpShape, OpTypeOK, Stages, NothingChanged, NothingLeftBehind,
            RollbackLosesOnlyLimits, Concluded
<1>1. ASSUME NEW d \in Devices, NEW plan \in Plans, Begin(d, plan)
      PROVE  NothingChanged'
  BY <1>1 DEF Begin, IdleOp
<1>2. CASE ReadStatus
  BY <1>2 DEF ReadStatus, Refuse, Finish, OpOriginal, BeforeSending
<1>3. CASE ReadConfig
  BY <1>3 DEF ReadConfig, Refuse, Finish, OpOriginal, BeforeSending
<1>4. CASE Backup
  BY <1>4 DEF Backup, Refuse, Finish, OpOriginal, BeforeSending
<1>5. CASE Execute
  BY <1>5 DEF Execute, Finish, Goto, OpOriginal, BeforeSending
<1>6. CASE Verify
  BY <1>6 DEF Verify, Finish, Goto
<1>7. CASE Rollback
  BY <1>7 DEF Rollback, Finish, Goto
<1>8. CASE ReadBack
  <2>1. CASE op'.status = "rolled_back"
    <3>1. /\ op.pc = "restored"
          /\ op'.device = op.device /\ op'.plan = op.plan
          /\ op.before = Seen(op.plan, running[op.device])
          /\ UNCHANGED <<running, history>>
      BY <1>8, <2>1 DEF ReadBack, Finish, RollbackVerified
    <3>2. ~history.interfered =>
            /\ running[op.device] \in
                 {history.original,
                  RolledBack(op.plan, Seen(op.plan, history.original), history.original)}
            /\ Legible(op.plan, history.original)
                 => running[op.device] = history.original
      BY <3>1, SeenDetermines DEF OpOriginal, BeforeKnown, AfterSending
    <3> QED
      BY <2>1, <3>1, <3>2
  <2>2. CASE op'.status # "rolled_back"
    BY <1>8, <2>2 DEF ReadBack, Finish
  <2> QED
    BY <2>1, <2>2
<1>9. CASE Audit
  BY <1>9 DEF Audit, Goto
<1>10. CASE Return
  BY <1>10 DEF Return, IdleOp, NoHistory
<1>11. ASSUME NEW d \in Devices, Interfere(d)
       PROVE  NothingChanged'
  <2>1. op' = op /\ history' = [history EXCEPT !.interfered = @ \/ d = op.device]
    BY <1>11 DEF Interfere
  <2>2. CASE d = op.device
    BY <2>1, <2>2
  <2>3. CASE d # op.device
    <3>1. \A e \in Devices \ {d} : running'[e] = running[e]
      BY <1>11 DEF Interfere
    <3> QED
      BY <2>1, <2>3, <3>1
  <2> QED
    BY <2>2, <2>3
<1>12. CASE UNCHANGED opVars
  BY <1>12 DEF opVars
<1> QED
  BY <1>1, <1>2, <1>3, <1>4, <1>5, <1>6, <1>7, <1>8, <1>9, <1>10, <1>11, <1>12
     DEF OpNext, OpStep

\* A result that asks for no save left the interface as it was, a lost power
\* limit aside: NothingLeftBehind of the run.
THEOREM NoSilentChange == OpSpec => []NothingLeftBehind
<1>1. NothingChanged => NothingLeftBehind
  BY DEF NothingChanged
<1> QED
  BY <1>1, NothingChangedStep, ShapeInit, ShapeStep, PaperworkInit, PaperworkStep,
     OriginalInit, OriginalStep, NothingChangedInit, PTL DEF OpSpec

\* A rolled-back interface has its original configuration, except that a power
\* limit may be gone: RollbackLosesOnlyLimits of the run.
THEOREM RollbackRestores == OpSpec => []RollbackLosesOnlyLimits
<1>1. NothingChanged => RollbackLosesOnlyLimits
  BY DEF NothingChanged
<1> QED
  BY <1>1, NothingChangedStep, ShapeInit, ShapeStep, PaperworkInit, PaperworkStep,
     OriginalInit, OriginalStep, NothingChangedInit, PTL DEF OpSpec

-----------------------------------------------------------------------------
(***************************************************************************)
(* Change sessions: types, gates and statuses.                             *)
(***************************************************************************)

\* A request thread that is busy has a session and a kind of request.
ActiveRequests == [pc : {"queued", "running", "failed", "blocking"},
                   kind : {"preflight", "execute"},
                   session : Sessions, waiting : BOOLEAN]

RequestsShape == requests \in [Requests -> {IdleRequest} \cup ActiveRequests]

\* A worker that is busy has a session, a request and a connected device, and
\* runs an operation exactly in the last stages of an execution.
WorkerShape ==
  /\ worker \in WorkerStates
  /\ worker.pc # "idle" => /\ worker.session \in Sessions
                           /\ worker.request \in Requests
                           /\ link \in Devices
  /\ op.pc # "idle" <=> worker.pc \in {"operation", "after"}

GatesShape == /\ unlocked \in BOOLEAN
              /\ controlled \in BOOLEAN
              /\ operable \in SUBSET Devices
              /\ configured \in Devices \cup {None}
              /\ link \in Devices \cup {None}
              /\ touched \in SUBSET Sessions

StoreShape == /\ store \in [Sessions -> Documents]
              /\ unrecorded \in SUBSET Sessions

SessionShape == OpShape /\ StoreShape /\ RequestsShape /\ WorkerShape /\ GatesShape

-----------------------------------------------------------------------------
(* Documents, requests and the worker *)

LEMMA StatusFits ==
  ASSUME NEW doc \in Documents, NEW status \in Statuses
  PROVE  /\ [doc EXCEPT !.status = status] \in Documents
         /\ [doc EXCEPT !.status = status].status = status
BY DEF Documents

LEMMA SaveFits ==
  ASSUME StoreShape, NEW s \in Sessions, NEW status \in Statuses, Save(s, status)
  PROVE  /\ StoreShape'
         /\ store'[s].status = status
         /\ s \notin unrecorded'
         /\ \A t \in Sessions \ {s} : /\ store'[t] = store[t]
                                      /\ t \in unrecorded' <=> t \in unrecorded
<1>1. store' = [store EXCEPT ![s] = [store[s] EXCEPT !.status = status]]
      /\ unrecorded' = unrecorded \ {s}
  BY DEF Save
<1>2. store[s] \in Documents
  BY DEF StoreShape
<1>3. [store[s] EXCEPT !.status = status] \in Documents
      /\ [store[s] EXCEPT !.status = status].status = status
  BY <1>2, StatusFits
<1> QED
  BY <1>1, <1>3 DEF StoreShape

LEMMA StrandFits ==
  ASSUME StoreShape, worker.session \in Sessions, StoreUnchanged \/ Strand
  PROVE  StoreShape'
BY DEF StoreShape, StoreUnchanged, Strand

LEMMA StageStatusInFlight ==
  ASSUME NEW stage
  PROVE  StageStatus(stage) \in InFlight
BY DEF StageStatus, InFlight

LEMMA RecoveredFits ==
  ASSUME NEW doc \in Documents
  PROVE  /\ Recovered(doc) \in Documents
         /\ Recovered(doc).status \notin InFlight
         /\ doc.status \in InFlight => Recovered(doc).status = "indeterminate"
         /\ doc.status \notin InFlight => Recovered(doc) = doc
<1>1. "indeterminate" \in Statuses /\ "indeterminate" \notin InFlight
  BY DEF Statuses, Terminal, InFlight
<1> QED
  BY <1>1, StatusFits DEF Recovered, Documents

LEMMA IdlesFit == IdleWorker \in WorkerStates /\ IdleRequest \in RequestStates
BY DEF IdleWorker, IdleRequest, WorkerStates, RequestStates

LEMMA RequestsShapeFits ==
  ASSUME RequestsShape
  PROVE  requests \in [Requests -> RequestStates]
BY IdlesFit DEF RequestsShape, ActiveRequests, RequestStates

LEMMA SetRequestFits ==
  ASSUME RequestsShape, NEW r \in Requests,
         NEW q \in {IdleRequest} \cup ActiveRequests,
         requests' = [requests EXCEPT ![r] = q]
  PROVE  RequestsShape'
BY DEF RequestsShape

LEMMA BusyIsActive ==
  ASSUME RequestsShape, NEW r \in Requests, requests[r].pc # "idle"
  PROVE  requests[r] \in ActiveRequests
BY DEF RequestsShape, IdleRequest

LEMMA RaiseFits ==
  ASSUME RequestsShape, NEW r \in Requests, Raise(r)
  PROVE  RequestsShape'
BY DEF Raise, RequestsShape, ActiveRequests, IdleRequest

\* The job of the worker ends, in one of the ways the code has.
JobEnd == Complete \/ (Raise(worker.request) /\ worker' = IdleWorker)

LEMMA JobEndShape ==
  ASSUME SessionShape, worker.pc # "idle", JobEnd,
         OpShape', op'.pc = "idle", StoreShape', GatesShape'
  PROVE  SessionShape'
<1>1. RequestsShape' /\ worker' = IdleWorker
  BY RaiseFits, SetRequestFits DEF JobEnd, Complete, SessionShape, WorkerShape
<1> QED
  BY <1>1, IdlesFit DEF SessionShape, WorkerShape, IdleWorker

\* The job goes on with its next stage.
Stage(next, host) == /\ worker' = [worker EXCEPT !.pc = next, !.host = host]
                     /\ UNCHANGED requests

LEMMA AdvanceStage ==
  ASSUME WorkerShape, NEW next, Advance(next)
  PROVE  Stage(next, worker.host)
BY DEF WorkerShape, WorkerStates, Advance, Stage

LEMMA StageFits ==
  ASSUME SessionShape, NEW next, NEW host, Stage(next, host)
  PROVE  /\ worker'.pc = next /\ worker'.host = host
         /\ worker'.session = worker.session
         /\ worker'.request = worker.request
BY DEF SessionShape, WorkerShape, WorkerStates, Stage

LEMMA StageShape ==
  ASSUME SessionShape, worker.pc # "idle",
         NEW next \in {"capture", "guard", "before", "begin", "operation", "after"},
         NEW host \in Devices \cup {None}, Stage(next, host),
         op'.pc # "idle" <=> next \in {"operation", "after"},
         OpShape', StoreShape', GatesShape', link' = link
  PROVE  SessionShape'
<1>1. worker' \in WorkerStates /\ RequestsShape'
  BY DEF Stage, SessionShape, WorkerShape, WorkerStates, RequestsShape
<1> QED
  BY <1>1, StageFits DEF SessionShape, WorkerShape

-----------------------------------------------------------------------------
(* Types *)

LEMMA SessionShapeInit == Init => SessionShape
<1> SUFFICES ASSUME Init PROVE SessionShape
  OBVIOUS
<1>1. OpShape
  BY ShapeInit DEF Init
<1>2. StoreShape
  BY DEF Init, StoreShape, NoDocument, Documents, Statuses
<1>3. WorkerShape
  BY IdlesFit DEF Init, WorkerShape, IdleWorker, OpInit, IdleOp
<1> QED
  BY <1>1, <1>2, <1>3 DEF Init, SessionShape, RequestsShape, GatesShape

LEMMA HandlerShape ==
  ASSUME SessionShape, NEW r \in Requests, GiveUp(r) \/ HandleFailure(r) \/ Block(r)
  PROVE  SessionShape'
<1> USE DEF SessionShape
<1>0. OpShape' /\ WorkerShape' /\ GatesShape'
  BY ShapeStep DEF GiveUp, HandleFailure, Block, gateVars, onlookerVars, opVars,
                   WorkerShape, GatesShape
<1>1. requests[r] \in ActiveRequests
  BY BusyIsActive DEF GiveUp, HandleFailure, Block
<1>2. RequestsShape'
  <2>1. [requests[r] EXCEPT !.waiting = FALSE] \in ActiveRequests
        /\ [requests[r] EXCEPT !.pc = "blocking"] \in ActiveRequests
    BY <1>1 DEF ActiveRequests
  <2>2. \E q \in {IdleRequest} \cup ActiveRequests :
          requests' = [requests EXCEPT ![r] = q]
    BY <2>1 DEF GiveUp, HandleFailure, Block
  <2> QED
    BY <2>2, SetRequestFits
<1>3. StoreShape'
  <2>1. "blocked" \in Statuses /\ requests[r].session \in Sessions
    BY <1>1 DEF Statuses, Open, ActiveRequests
  <2> QED
    BY <2>1, SaveFits DEF GiveUp, HandleFailure, Block, StoreShape, StoreUnchanged,
                          onlookerVars
<1> QED
  BY <1>0, <1>2, <1>3

LEMMA TakeShape ==
  ASSUME SessionShape, NEW r \in Requests, Take(r) \/ Unavailable(r)
  PROVE  SessionShape'
<1> USE DEF SessionShape
<1>1. OpShape' /\ StoreShape'
  BY ShapeStep DEF Take, Unavailable, opVars, onlookerVars, StoreShape
<1>2. CASE Take(r)
  <2>1. requests[r] \in ActiveRequests
    BY <1>2, BusyIsActive DEF Take
  <2>2. requests' = [requests EXCEPT ![r] = [requests[r] EXCEPT !.pc = "running"]]
    BY <1>2 DEF Take
  <2>3. RequestsShape'
    BY <2>1, <2>2, SetRequestFits DEF ActiveRequests
  <2>4. worker' \in WorkerStates /\ worker'.pc \in {"preflight", "execute"}
        /\ worker'.request = r /\ worker'.session = requests[r].session
    BY <1>2, <2>1, IdlesFit DEF Take, WorkerStates, ActiveRequests
  <2>5. link' \in Devices /\ UNCHANGED op /\ op.pc = "idle"
    BY <1>2 DEF Take, opVars, GatesShape, WorkerShape
  <2>6. WorkerShape'
    BY <2>1, <2>4, <2>5 DEF WorkerShape, ActiveRequests
  <2> QED
    BY <1>1, <1>2, <2>3, <2>5, <2>6 DEF Take, GatesShape, gateVars, onlookerVars
<1>3. CASE Unavailable(r)
  BY <1>1, <1>3, RaiseFits
     DEF Unavailable, WorkerShape, GatesShape, gateVars, opVars, onlookerVars
<1> QED
  BY <1>2, <1>3

LEMMA PreflightShape ==
  ASSUME SessionShape, PreflightLoad \/ PreflightEnd
  PROVE  SessionShape'
<1>1. /\ worker.pc # "idle" /\ worker.session \in Sessions
      /\ OpShape' /\ op'.pc = "idle" /\ GatesShape' /\ link' = link
  BY ShapeStep DEF SessionShape, WorkerShape, PreflightLoad, PreflightEnd, opVars,
                   GatesShape, gateVars
<1>2. {"preflight", "ready", "blocked"} \subseteq Statuses
  BY DEF Statuses, Open
<1>3. StoreShape'
  BY <1>1, <1>2, SaveFits, StrandFits
     DEF PreflightLoad, PreflightEnd, JobRaises, StoreFails, Conclude, SessionShape
<1>4. CASE JobEnd
  BY <1>1, <1>3, <1>4, JobEndShape
<1>5. CASE ~JobEnd
  <2>1. Stage("capture", configured) /\ configured \in Devices \cup {None}
    BY <1>5 DEF PreflightLoad, PreflightEnd, JobRaises, StoreFails, Conclude, JobEnd,
                Stage, SessionShape, GatesShape
  <2> QED
    BY <1>1, <1>3, <2>1, StageShape
<1> QED
  BY <1>4, <1>5

LEMMA ExecuteStartShape ==
  ASSUME SessionShape, ExecuteLoad \/ ExecuteGuard \/ ExecuteBefore \/ ExecuteBegin
  PROVE  SessionShape'
<1>0. /\ worker.session \in Sessions /\ worker.pc # "idle" /\ op.pc = "idle"
      /\ StoreShape /\ WorkerShape /\ worker.host \in Devices \cup {None}
      /\ link \in Devices /\ configured \in Devices \cup {None}
  BY DEF SessionShape, WorkerShape, WorkerStates, GatesShape, ExecuteLoad, ExecuteGuard,
         ExecuteBefore, ExecuteBegin
<1>1. {"executing", "blocked", "indeterminate"} \subseteq Statuses
  BY DEF Statuses, InFlight, Terminal, Open
<1>2. GatesShape' /\ link' = link
  BY <1>0 DEF SessionShape, GatesShape, ExecuteLoad, ExecuteGuard, ExecuteBefore,
              ExecuteBegin, gateVars
<1>3. StoreShape'
  BY <1>0, <1>1, SaveFits, StrandFits
     DEF ExecuteLoad, ExecuteGuard, ExecuteBefore, ExecuteBegin, JobRaises, StoreFails,
         Conclude, Record, Report
<1>4. OpShape' /\ (UNCHANGED opVars \/ Begin(link, PlanOf[worker.session]))
  <2>1. PlanOf[worker.session] \in Plans
    BY <1>0, SessionAssumption
  <2>2. UNCHANGED opVars \/ Begin(link, PlanOf[worker.session])
    BY DEF ExecuteLoad, ExecuteGuard, ExecuteBefore, ExecuteBegin
  <2> QED
    BY <1>0, <2>1, <2>2, ShapeStep DEF OpNext, SessionShape
<1>5. CASE JobEnd /\ UNCHANGED opVars
  BY <1>0, <1>2, <1>3, <1>4, <1>5, JobEndShape DEF opVars
<1>6. CASE ExecuteLoad /\ ~JobEnd
  <2>1. Stage("guard", configured) /\ UNCHANGED op
    BY <1>6 DEF ExecuteLoad, JobRaises, StoreFails, JobEnd, Stage, opVars
  <2> QED
    BY <1>0, <1>2, <1>3, <1>4, <2>1, StageShape
<1>7. CASE (ExecuteGuard \/ ExecuteBefore) /\ ~JobEnd
  <2>1. PICK next \in {"before", "begin"} : Advance(next) /\ UNCHANGED op
    BY <1>7 DEF ExecuteGuard, ExecuteBefore, JobRaises, StoreFails, Conclude, Strand,
                JobEnd, Record, opVars
  <2> QED
    BY <1>0, <1>2, <1>3, <1>4, <2>1, AdvanceStage, StageShape
<1>8. CASE ExecuteBegin /\ Begin(link, PlanOf[worker.session])
           /\ Report("executing", "operation")
  <2>1. op'.pc # "idle"
    BY <1>8 DEF Begin, IdleOp
  <2>2. Advance("operation")
    BY <1>8 DEF Report, Record
  <2> QED
    BY <1>0, <1>2, <1>3, <1>4, <2>1, <2>2, AdvanceStage, StageShape
<1>9. ExecuteLoad \/ ExecuteGuard \/ ExecuteBefore => UNCHANGED opVars
  BY DEF ExecuteLoad, ExecuteGuard, ExecuteBefore
<1>10. ExecuteBegin => \/ JobEnd /\ UNCHANGED opVars
                       \/ Begin(link, PlanOf[worker.session])
                          /\ Report("executing", "operation")
  BY DEF ExecuteBegin, Conclude, Strand, JobEnd
<1> QED
  BY <1>5, <1>6, <1>7, <1>8, <1>9, <1>10

LEMMA StepGoesOn == ASSUME OpShape, OpStep PROVE op'.pc # "idle"
BY DEF OpStep, ReadStatus, ReadConfig, Backup, Execute, Verify, Rollback, ReadBack,
       Audit, Refuse, Finish, Goto, OpShape, OpTypeOK

LEMMA FinalFits ==
  ASSUME NEW verdict, NEW met
  PROVE  FinalStatuses(verdict, met) \subseteq Terminal
BY DEF FinalStatuses, Terminal, Succeeded

LEMMA ExecuteEndShape ==
  ASSUME SessionShape, ExecuteStep \/ ExecuteReturn \/ ExecuteAfter
  PROVE  SessionShape'
<1>0. /\ worker.session \in Sessions /\ worker.pc # "idle" /\ op.pc # "idle"
      /\ StoreShape /\ WorkerShape /\ worker.host \in Devices \cup {None}
  BY DEF SessionShape, WorkerShape, WorkerStates, ExecuteStep, ExecuteReturn, ExecuteAfter
<1>1. InFlight \cup Terminal \subseteq Statuses /\ "verifying" \in InFlight
      /\ "indeterminate" \in Terminal
  BY DEF Statuses, InFlight, Terminal
<1>2. GatesShape' /\ link' = link
  <2>1. touched' \in SUBSET Sessions
    BY <1>0 DEF ExecuteStep, ExecuteReturn, ExecuteAfter, SessionShape, GatesShape
  <2> QED
    BY <2>1 DEF ExecuteStep, ExecuteReturn, ExecuteAfter, SessionShape, GatesShape,
                gateVars
<1>3. CASE ExecuteStep
  <2>1. OpShape' /\ op'.pc # "idle"
    BY <1>3, ShapeStep, StepGoesOn DEF ExecuteStep, OpNext, SessionShape
  <2>2. PICK status \in InFlight : Report(status, "operation")
    BY <1>3, StageStatusInFlight DEF ExecuteStep
  <2>3. StoreShape' /\ Advance("operation")
    BY <1>0, <1>1, <2>2, SaveFits, StrandFits DEF Report, Record
  <2> QED
    BY <1>0, <1>2, <2>1, <2>3, AdvanceStage, StageShape
<1>4. CASE ExecuteReturn
  <2>1. CASE Record("verifying", "after") /\ UNCHANGED opVars
    <3>1. StoreShape' /\ Advance("after")
      BY <1>0, <1>1, <2>1, SaveFits DEF Record
    <3>2. OpShape' /\ op'.pc # "idle"
      BY <1>0, <2>1, ShapeStep DEF opVars, SessionShape
    <3> QED
      BY <1>0, <1>2, <3>1, <3>2, AdvanceStage, StageShape
  <2>2. CASE Strand /\ Return
    <3>1. OpShape' /\ op'.pc = "idle"
      BY <2>2, ShapeStep DEF SessionShape, OpNext, Return, IdleOp
    <3>2. JobEnd
      BY <2>2 DEF Strand, JobEnd
    <3> QED
      BY <1>0, <1>2, <2>2, <3>1, <3>2, StrandFits, JobEndShape
  <2> QED
    BY <1>4, <2>1, <2>2 DEF ExecuteReturn
<1>5. CASE ExecuteAfter
  <2>1. OpShape' /\ op'.pc = "idle"
    BY <1>5, ShapeStep DEF ExecuteAfter, OpNext, Return, IdleOp, SessionShape
  <2>2. (\E status \in Terminal : Conclude(status)) \/ Strand
    BY <1>1, <1>5, FinalFits DEF ExecuteAfter
  <2>3. StoreShape' /\ JobEnd
    BY <1>0, <1>1, <2>2, SaveFits, StrandFits DEF Conclude, Strand, JobEnd
  <2> QED
    BY <1>0, <1>2, <2>1, <2>3, JobEndShape
<1> QED
  BY <1>3, <1>4, <1>5

\* The actions that leave the documents, the requests and the worker alone.
Outside == \/ Unlock \/ Lock \/ SetPolicy
           \/ \E enabled \in BOOLEAN : SetControlled(enabled)
           \/ \E d \in Devices \cup {None} : Configure(d)
           \/ \E d \in Devices : Console(d)
           \/ LinkLost

LEMMA OutsideShape ==
  ASSUME SessionShape, Outside
  PROVE  SessionShape' /\ UNCHANGED <<store, requests, worker, touched, unrecorded>>
<1> USE DEF SessionShape
<1>1. /\ UNCHANGED <<store, requests, worker, touched, unrecorded>> /\ op' = op
      /\ link' = link \/ worker.pc = "idle"
  BY DEF Outside, Unlock, Lock, SetPolicy, SetControlled, Control, Configure, Console,
         LinkLost, Interfere, opVars, onlookerVars
<1>2. OpShape'
  BY ShapeStep DEF Outside, Unlock, Lock, SetPolicy, SetControlled, Control, Configure,
                   Console, LinkLost, OpNext, opVars
<1>3. GatesShape'
  BY DEF GatesShape, Outside, Unlock, Lock, SetPolicy, SetControlled, Control,
         Configure, Console, LinkLost, gateVars, onlookerVars
<1>4. WorkerShape'
  BY <1>1 DEF WorkerShape
<1> QED
  BY <1>1, <1>2, <1>3, <1>4 DEF StoreShape, RequestsShape

LEMMA ArrivalShape ==
  ASSUME SessionShape,
         \/ \E s \in Sessions : CreatePlan(s)
         \/ \E r \in Requests, s \in Sessions, kind \in {"preflight", "execute"} :
              Post(r, kind, s)
  PROVE  SessionShape'
<1> USE DEF SessionShape
<1>0. OpShape' /\ GatesShape' /\ WorkerShape'
  BY ShapeStep DEF CreatePlan, Post, opVars, onlookerVars, GatesShape, gateVars,
                   WorkerShape
<1>1. ASSUME NEW s \in Sessions, CreatePlan(s)
      PROVE  SessionShape'
  <2>1. [status |-> "planned", device |-> configured] \in Documents
    BY DEF Documents, Statuses, Open, GatesShape
  <2>2. StoreShape' /\ RequestsShape'
    BY <1>1, <2>1 DEF CreatePlan, StoreShape, RequestsShape, onlookerVars
  <2> QED
    BY <1>0, <2>2
<1>2. ASSUME NEW r \in Requests, NEW s \in Sessions,
             NEW kind \in {"preflight", "execute"}, Post(r, kind, s)
      PROVE  SessionShape'
  <2>1. [pc |-> "queued", kind |-> kind, session |-> s, waiting |-> TRUE]
          \in ActiveRequests
    BY DEF ActiveRequests
  <2>2. RequestsShape'
    BY <1>2, <2>1, SetRequestFits DEF Post
  <2> QED
    BY <1>0, <1>2, <2>2 DEF Post, StoreShape, onlookerVars
<1> QED
  BY <1>1, <1>2

LEMMA RestartShape ==
  ASSUME SessionShape, Restart
  PROVE  SessionShape'
<1> USE DEF SessionShape
<1>1. StoreShape'
  BY RecoveredFits DEF Restart, StoreShape
<1>2. OpShape' /\ op'.pc = "idle"
  BY DEF Restart, OpShape, OpTypeOK, IdleOp, NoHistory, Stages, Verdicts, BeforeKnown,
         AfterSending
<1>3. GatesShape' /\ RequestsShape' /\ worker' = IdleWorker
  BY DEF Restart, GatesShape, RequestsShape
<1> QED
  BY <1>1, <1>2, <1>3, IdlesFit DEF WorkerShape, IdleWorker

LEMMA SessionShapeStep ==
  ASSUME SessionShape, [Next]_vars
  PROVE  SessionShape'
<1>1. CASE WorkerStep
  BY <1>1, TakeShape, PreflightShape, ExecuteStartShape, ExecuteEndShape DEF WorkerStep
<1>2. CASE \E r \in Requests : GiveUp(r) \/ HandleFailure(r) \/ Block(r)
  BY <1>2, HandlerShape
<1>3. CASE Outside
  BY <1>3, OutsideShape
<1>4. CASE UNCHANGED vars
  BY <1>4, ShapeStep DEF vars, SessionShape, StoreShape, RequestsShape, WorkerShape,
                         GatesShape, gateVars, onlookerVars, opVars
<1> QED
  BY <1>1, <1>2, <1>3, <1>4, ArrivalShape, RestartShape DEF Next, Outside

\* Every document, request and job keeps its type: TypeOK of the runs.
THEOREM SessionTypeCorrect == Spec => []TypeOK
<1>1. SessionShape => TypeOK
  BY RequestsShapeFits
     DEF SessionShape, TypeOK, OpShape, StoreShape, WorkerShape, GatesShape
<1> QED
  BY <1>1, SessionShapeInit, SessionShapeStep, PTL DEF Spec

-----------------------------------------------------------------------------
(* What the steps of the worker do to the documents *)

\* What is known of a busy worker, and of the documents it can write.
LEMMA Busy ==
  ASSUME SessionShape, worker.pc # "idle"
  PROVE  /\ StoreShape /\ WorkerShape /\ worker \in WorkerStates
         /\ worker.session \in Sessions
BY DEF SessionShape, WorkerShape

\* The worker puts the next status of the execution on record, or fails to.
LEMMA ReportFits ==
  ASSUME SessionShape, worker.pc # "idle", NEW status \in Statuses, NEW next,
         Record(status, next) \/ Report(status, next)
  PROVE  /\ \/ store' = store /\ unrecorded' = unrecorded
            \/ /\ store'[worker.session].status = status
               /\ \A t \in Sessions \ {worker.session} :
                    store'[t] = store[t] /\ (t \in unrecorded' <=> t \in unrecorded)
         /\ Record(status, next) => store'[worker.session].status = status
         /\ worker'.pc = next /\ worker'.host = worker.host
         /\ worker'.session = worker.session
<1>1. Advance(next)
  BY DEF Record, Report
<1>2. worker'.pc = next /\ worker'.host = worker.host
      /\ worker'.session = worker.session
  BY <1>1, Busy, AdvanceStage, StageFits
<1> QED
  BY <1>2, Busy, SaveFits DEF Record, Report, StoreUnchanged

LEMMA ConcludeFits ==
  ASSUME SessionShape, worker.pc # "idle", NEW status \in Statuses, Conclude(status)
  PROVE  /\ worker' = IdleWorker
         /\ store'[worker.session].status = status
         /\ \A t \in Sessions \ {worker.session} :
              store'[t] = store[t] /\ (t \in unrecorded' <=> t \in unrecorded)
BY Busy, SaveFits DEF Conclude, Complete

\* Every step inside the guards goes on inside them, or ends the job, or loses
\* the record of its end.
LEMMA GuardedStep ==
  ASSUME SessionShape, GuardsHeld, WorkerStep
  PROVE  \/ \E status \in InFlight, next \in {"begin", "operation", "after"} :
              Record(status, next) \/ Report(status, next)
         \/ \E status \in {"blocked"} \cup Terminal : Conclude(status)
         \/ Strand
<1>1. ~\E r \in Requests : Take(r) \/ Unavailable(r)
  BY DEF GuardsHeld, Take, Unavailable
<1>2. ~PreflightLoad /\ ~PreflightEnd /\ ~ExecuteLoad /\ ~ExecuteGuard
  BY DEF GuardsHeld, PreflightLoad, PreflightEnd, ExecuteLoad, ExecuteGuard
<1>3. "executing" \in InFlight /\ "verifying" \in InFlight
      /\ "indeterminate" \in Terminal
  BY DEF InFlight, Terminal
<1>4. CASE ExecuteBefore \/ ExecuteBegin
  BY <1>3, <1>4 DEF ExecuteBefore, ExecuteBegin
<1>5. CASE ExecuteStep
  BY <1>5, StageStatusInFlight DEF ExecuteStep
<1>6. CASE ExecuteReturn \/ ExecuteAfter
  BY <1>3, <1>6, FinalFits DEF ExecuteReturn, ExecuteAfter
<1> QED
  BY <1>1, <1>2, <1>4, <1>5, <1>6 DEF WorkerStep

\* Outside the guards a step enters them with its session on record, or stays
\* outside and writes nothing but its own open session.
LEMMA UnguardedStep ==
  ASSUME SessionShape, ~GuardsHeld, WorkerStep
  PROVE  /\ ExecuteGuard /\ Record("executing", "before")
             => GuardsOpen(worker.host) /\ worker'.pc = "before"
         /\ ~(ExecuteGuard /\ Record("executing", "before"))
             => /\ ~GuardsHeld' /\ touched' = touched
                /\ \/ store' = store /\ unrecorded' = unrecorded
                   \/ /\ worker.session \in Sessions
                      /\ \/ worker.pc = "preflight"
                            /\ store[worker.session].status \notin InFlight \cup Terminal
                         \/ worker.pc = "capture"
                      /\ \E status \in {"preflight", "ready", "blocked"} :
                           Save(worker.session, status)
<1>1. ASSUME NEW r \in Requests, Take(r) \/ Unavailable(r)
      PROVE  ~GuardsHeld' /\ UNCHANGED <<store, unrecorded, touched>> /\ worker.pc = "idle"
  BY <1>1, BusyIsActive DEF Take, Unavailable, IdleWorker, SessionShape, ActiveRequests,
                            GuardsHeld, onlookerVars
<1>2. ~ExecuteBefore /\ ~ExecuteBegin /\ ~ExecuteStep /\ ~ExecuteReturn /\ ~ExecuteAfter
  BY DEF GuardsHeld, ExecuteBefore, ExecuteBegin, ExecuteStep, ExecuteReturn, ExecuteAfter
<1>3. JobEnd => ~GuardsHeld'
  BY DEF JobEnd, Complete, IdleWorker, GuardsHeld
<1>4. CASE PreflightLoad
  <2>1. worker.session \in Sessions
    BY <1>4, Busy DEF PreflightLoad
  <2>2. ASSUME Stage("capture", configured)
        PROVE  ~GuardsHeld'
    BY <2>2, StageFits DEF GuardsHeld
  <2> QED
    BY <1>3, <1>4, <2>1, <2>2
       DEF PreflightLoad, JobRaises, StoreFails, JobEnd, StoreUnchanged, Stage,
           ExecuteGuard
<1>5. CASE PreflightEnd
  BY <1>3, <1>5, Busy
     DEF PreflightEnd, StoreFails, JobEnd, StoreUnchanged, Conclude, ExecuteGuard
<1>6. CASE ExecuteLoad
  <2>1. ASSUME Stage("guard", configured)
        PROVE  ~GuardsHeld'
    BY <2>1, StageFits DEF GuardsHeld
  <2> QED
    BY <1>3, <1>6, <2>1
       DEF ExecuteLoad, JobRaises, StoreFails, JobEnd, StoreUnchanged, Stage,
           ExecuteGuard
<1>7. CASE ExecuteGuard
  <2>1. Record("executing", "before") => worker'.pc = "before"
    BY <1>7, ReportFits DEF ExecuteGuard, Statuses, InFlight
  <2>2. Record("executing", "before") => GuardsOpen(worker.host)
    <3>1. ASSUME JobEnd, Record("executing", "before")
          PROVE  FALSE
      BY <2>1, <3>1 DEF JobEnd, Complete, IdleWorker
    <3> QED
      BY <1>7, <3>1 DEF ExecuteGuard, JobRaises, JobEnd
  <2> QED
    BY <1>3, <1>7, <2>1, <2>2
       DEF ExecuteGuard, JobRaises, StoreFails, JobEnd, StoreUnchanged
<1> QED
  BY <1>1, <1>2, <1>4, <1>5, <1>6, <1>7 DEF WorkerStep, ExecuteGuard

-----------------------------------------------------------------------------
(* The gates, and the statuses of the documents *)

LEMMA GatesStep ==
  ASSUME SessionShape, GatesHeld, [Next]_vars
  PROVE  GatesHeld'
<1> USE DEF GatesHeld
<1>1. CASE WorkerStep
  <2>1. GuardsOpen(worker.host)' = GuardsOpen(worker'.host)
    <3>1. UNCHANGED gateVars
      BY <1>1 DEF WorkerStep, Take, Unavailable, PreflightLoad, PreflightEnd,
                  ExecuteLoad, ExecuteGuard, ExecuteBefore, ExecuteBegin, ExecuteStep,
                  ExecuteReturn, ExecuteAfter
    <3> QED
      BY <3>1 DEF gateVars, GuardsOpen
  <2>2. CASE GuardsHeld
    <3>1. worker' = IdleWorker \/ worker'.host = worker.host
      <4>1. worker.pc # "idle" /\ InFlight \subseteq Statuses
        BY <2>2 DEF GuardsHeld, Statuses
      <4> QED
        BY <1>1, <2>2, <4>1, GuardedStep, ReportFits DEF Conclude, Strand, Complete
    <3> QED
      BY <2>1, <2>2, <3>1 DEF IdleWorker, GuardsHeld
  <2>3. CASE ~GuardsHeld
    <3>1. CASE ExecuteGuard /\ Record("executing", "before")
      <4>1. worker'.host = worker.host
        BY <3>1, ReportFits DEF ExecuteGuard, Statuses, InFlight
      <4>2. UNCHANGED gateVars /\ GuardsOpen(worker.host)
        BY <1>1, <2>3, <3>1, UnguardedStep DEF ExecuteGuard
      <4> QED
        BY <4>1, <4>2 DEF gateVars, GuardsOpen
    <3> QED
      BY <1>1, <2>3, <3>1, UnguardedStep
  <2> QED
    BY <2>2, <2>3
<1>2. CASE \E r \in Requests : GiveUp(r) \/ HandleFailure(r) \/ Block(r)
  BY <1>2 DEF GiveUp, HandleFailure, Block, gateVars, GuardsHeld, GuardsOpen
<1>3. CASE Outside
  <2>1. CASE GuardsHeld
    <3>1. UNCHANGED <<worker, unlocked, controlled, operable>>
      BY <1>3, <2>1 DEF Outside, Unlock, Lock, SetPolicy, SetControlled, Control,
                        Configure, Console, LinkLost, gateVars, GuardsHeld
    <3> QED
      BY <3>1 DEF GuardsHeld, GuardsOpen
  <2>2. CASE ~GuardsHeld
    BY <1>3, <2>2, OutsideShape DEF GuardsHeld
  <2> QED
    BY <2>1, <2>2
<1>4. CASE Restart
  BY <1>4 DEF Restart, IdleWorker, GuardsHeld
<1>5. CASE \/ \E s \in Sessions : CreatePlan(s)
           \/ \E r \in Requests, s \in Sessions, kind \in {"preflight", "execute"} :
                Post(r, kind, s)
           \/ UNCHANGED vars
  BY <1>5 DEF CreatePlan, Post, vars, gateVars, GuardsHeld, GuardsOpen
<1> QED
  BY <1>1, <1>2, <1>3, <1>4, <1>5 DEF Next, Outside

\* No gate closes under a transaction: GatesHeld of the runs.
THEOREM GatesStayOpen == Spec => []GatesHeld
<1>1. Init => GatesHeld
  BY DEF Init, GatesHeld, GuardsHeld, IdleWorker
<1> QED
  BY <1>1, GatesStep, SessionShapeInit, SessionShapeStep, PTL DEF Spec

LEMMA InFlightWorkerStep ==
  ASSUME SessionShape, InFlightIsRunning, WorkerStep
  PROVE  InFlightIsRunning'
<1> USE DEF InFlightIsRunning, Executing
<1>0. /\ InFlight \cup {"blocked"} \cup Terminal \subseteq Statuses
      /\ InFlight \cap ({"blocked"} \cup Terminal) = {}
      /\ "executing" \in InFlight
  BY DEF Statuses, Open, InFlight, Terminal, Succeeded
<1>1. CASE GuardsHeld
  <2>0. worker.pc # "idle" /\ worker.session \in Sessions
    BY <1>1, Busy DEF GuardsHeld
  <2>1. ASSUME NEW status \in InFlight, NEW next \in {"begin", "operation", "after"},
               Record(status, next) \/ Report(status, next)
        PROVE  InFlightIsRunning'
    <3>1. GuardsHeld' /\ worker'.session = worker.session
      BY <1>0, <2>0, <2>1, ReportFits DEF GuardsHeld
    <3>2. \A t \in Sessions \ {worker.session} :
            store'[t] = store[t] /\ (t \in unrecorded' <=> t \in unrecorded)
      BY <1>0, <2>0, <2>1, ReportFits
    <3> QED
      BY <3>1, <3>2
  <2>2. ASSUME NEW status \in {"blocked"} \cup Terminal, Conclude(status)
        PROVE  InFlightIsRunning'
    BY <1>0, <2>0, <2>2, ConcludeFits
  <2>3. CASE Strand
    BY <2>3 DEF Strand
  <2> QED
    BY <1>1, <2>1, <2>2, <2>3, GuardedStep
<1>2. CASE ~GuardsHeld
  <2>1. CASE ExecuteGuard /\ Record("executing", "before")
    <3>1. worker.pc # "idle" /\ worker'.pc = "before"
          /\ worker'.session = worker.session
          /\ \A t \in Sessions \ {worker.session} :
               store'[t] = store[t] /\ (t \in unrecorded' <=> t \in unrecorded)
      <4>1. worker.pc # "idle"
        BY <2>1 DEF ExecuteGuard
      <4>2. Save(worker.session, "executing") /\ worker.session \in Sessions
        BY <2>1, <4>1, Busy DEF Record
      <4> QED
        BY <1>0, <2>1, <4>1, <4>2, ReportFits, SaveFits, Busy
    <3> QED
      BY <1>2, <3>1 DEF GuardsHeld
  <2>2. CASE store' = store /\ unrecorded' = unrecorded
    BY <1>2, <2>2
  <2>3. ASSUME worker.session \in Sessions,
               NEW status \in {"preflight", "ready", "blocked"},
               Save(worker.session, status)
        PROVE  InFlightIsRunning'
    <3>1. status \in Statuses \ InFlight
      BY DEF Statuses, Open, InFlight
    <3> QED
      BY <1>2, <2>3, <3>1, SaveFits DEF SessionShape
  <2> QED
    BY <1>2, <2>1, <2>2, <2>3, UnguardedStep
<1> QED
  BY <1>1, <1>2

LEMMA InFlightStep ==
  ASSUME SessionShape, InFlightIsRunning, [Next]_vars
  PROVE  InFlightIsRunning'
<1> USE DEF InFlightIsRunning, Executing, GuardsHeld
<1>1. CASE WorkerStep
  BY <1>1, InFlightWorkerStep
<1>2. CASE \E r \in Requests : GiveUp(r) \/ HandleFailure(r)
  BY <1>2 DEF GiveUp, HandleFailure, onlookerVars
<1>3. ASSUME NEW r \in Requests, Block(r)
      PROVE  InFlightIsRunning'
  <2>1. requests[r].session \in Sessions /\ worker' = worker
    BY <1>3, BusyIsActive DEF Block, SessionShape, ActiveRequests
  <2>2. CASE Save(requests[r].session, "blocked")
    <3>1. "blocked" \in Statuses \ InFlight
      BY DEF Statuses, Open, InFlight
    <3> QED
      BY <2>1, <2>2, <3>1, SaveFits DEF SessionShape
  <2>3. CASE StoreUnchanged
    BY <2>1, <2>3 DEF StoreUnchanged
  <2> QED
    BY <1>3, <2>2, <2>3 DEF Block
<1>4. ASSUME NEW s \in Sessions, CreatePlan(s)
      PROVE  InFlightIsRunning'
  BY <1>4 DEF CreatePlan, SessionShape, StoreShape, InFlight, onlookerVars
<1>5. CASE Outside
  BY <1>5, OutsideShape
<1>6. CASE Restart
  BY <1>6, RecoveredFits DEF Restart, SessionShape, StoreShape
<1>7. CASE \/ \E r \in Requests, s \in Sessions, kind \in {"preflight", "execute"} :
                Post(r, kind, s)
           \/ UNCHANGED vars
  BY <1>7 DEF Post, vars, onlookerVars
<1> QED
  BY <1>1, <1>2, <1>3, <1>4, <1>5, <1>6, <1>7 DEF Next, Outside

\* A document says that a write is under way only while the worker is on that
\* very session, inside the guards, or after the store has refused the end of
\* the execution: InFlightIsRunning of the run.
THEOREM StatusesTellTheTruth == Spec => []InFlightIsRunning
<1>1. Init => InFlightIsRunning
  BY DEF Init, InFlightIsRunning, NoDocument, InFlight
<1> QED
  BY <1>1, InFlightStep, SessionShapeInit, SessionShapeStep, PTL DEF Spec

-----------------------------------------------------------------------------
(***************************************************************************)
(* The refinement of ChangeLifecycle, for any number of sessions, request  *)
(* threads and devices.  What has to be known besides the statuses: up to  *)
(* the guards the session of the worker is open; inside them its document  *)
(* is in flight, or BLOCKED by a request that failed; and the session      *)
(* counts as touched exactly from the moment the operation has sent.       *)
(***************************************************************************)

Status(s) == store[s].status

WorkerIsRecorded ==
  /\ worker.pc \in {"capture", "guard"} => Status(worker.session) \in Open
  /\ GuardsHeld => Status(worker.session) \in InFlight \cup {"blocked"}
  /\ worker.pc \in {"before", "begin"} => worker.session \notin touched
  /\ worker.pc = "operation" => (worker.session \in touched <=> history.sent)

PromiseInv == SessionShape /\ InFlightIsRunning /\ WorkerIsRecorded

LEMMA StatusKinds ==
  /\ Statuses = {"absent"} \cup Open \cup InFlight \cup Terminal
  /\ "blocked" \in Open /\ "preflight" \in Open /\ "ready" \in Open /\ "planned" \in Open
  /\ "executing" \in InFlight /\ "indeterminate" \in Terminal
  /\ Open \cap InFlight = {} /\ Open \cap Terminal = {} /\ InFlight \cap Terminal = {}
  /\ "absent" \notin Open \cup InFlight \cup Terminal
BY DEF Statuses, Open, InFlight, Terminal, Succeeded

-----------------------------------------------------------------------------
(* Steps of the promised life cycle *)

Now == [s \in Sessions |-> PhaseOf(s)]

LifecycleStep == [Lifecycle!Next]_(Lifecycle!vars)

LEMMA SameNow ==
  ASSUME touched' = touched, \A s \in Sessions : PhaseOf(s)' = PhaseOf(s)
  PROVE  LifecycleStep
<1>1. Now' = Now
  BY DEF Now
<1> QED
  BY <1>1 DEF LifecycleStep, Lifecycle!vars, Now

LEMMA OnePhase ==
  ASSUME NEW s \in Sessions, \A t \in Sessions \ {s} : PhaseOf(t)' = PhaseOf(t)
  PROVE  Now' = [Now EXCEPT ![s] = PhaseOf(s)']
BY DEF Now

\* The documents whose status stays, and which the worker is not on, before or
\* after, keep their phase.
LEMMA OthersKeep ==
  ASSUME NEW t \in Sessions, store'[t].status = store[t].status,
         Executing(t)' <=> Executing(t)
  PROVE  PhaseOf(t)' = PhaseOf(t)
BY DEF PhaseOf

LEMMA PhaseCases ==
  ASSUME NEW s \in Sessions
  PROVE  /\ Executing(s) /\ Status(s) \in InFlight => PhaseOf(s) = "running"
         /\ Executing(s) /\ Status(s) \notin InFlight => PhaseOf(s) = "usurped"
         /\ ~Executing(s) /\ Status(s) \in InFlight => PhaseOf(s) = "stranded"
         /\ ~Executing(s) /\ Status(s) \in Terminal => PhaseOf(s) = "closed"
         /\ ~Executing(s) /\ Status(s) \notin InFlight \cup Terminal => PhaseOf(s) = "open"
BY StatusKinds DEF PhaseOf, Status

LEMMA PhaseCasesNext ==
  ASSUME NEW s \in Sessions
  PROVE  LET now == store'[s].status
         IN /\ Executing(s)' /\ now \in InFlight => PhaseOf(s)' = "running"
            /\ Executing(s)' /\ now \notin InFlight => PhaseOf(s)' = "usurped"
            /\ ~Executing(s)' /\ now \in InFlight => PhaseOf(s)' = "stranded"
            /\ ~Executing(s)' /\ now \in Terminal => PhaseOf(s)' = "closed"
            /\ ~Executing(s)' /\ now \notin InFlight \cup Terminal => PhaseOf(s)' = "open"
BY StatusKinds DEF PhaseOf

\* An execution that goes on inside the guards.
LEMMA PromiseReport ==
  ASSUME PromiseInv, GuardsHeld, NEW status \in InFlight,
         NEW next \in {"begin", "operation", "after"},
         Record(status, next) \/ Report(status, next),
         \/ touched' = touched
         \/ worker.session \notin touched /\ touched' = touched \cup {worker.session},
         next = "begin" => worker.session \notin touched',
         next = "operation" => (worker.session \in touched' <=> history'.sent)
  PROVE  WorkerIsRecorded' /\ LifecycleStep
<1>s. PICK s : s = worker.session
  OBVIOUS
<1> USE <1>s
<1>0. /\ SessionShape /\ worker.pc # "idle" /\ s \in Sessions /\ status \in Statuses
      /\ Status(s) \in InFlight \cup {"blocked"}
  BY Busy, StatusKinds DEF PromiseInv, WorkerIsRecorded, GuardsHeld
<1>1. /\ worker'.pc = next /\ worker'.session = s /\ GuardsHeld'
      /\ store' = store \/ store'[s].status = status
      /\ \A t \in Sessions \ {s} : store'[t] = store[t]
  BY <1>0, ReportFits DEF GuardsHeld
<1>2. WorkerIsRecorded'
  BY <1>0, <1>1 DEF WorkerIsRecorded, Status
<1>3. \A t \in Sessions : Executing(t) <=> t = s
  BY DEF Executing
<1>4. \A t \in Sessions : Executing(t)' <=> t = s
  BY <1>1 DEF Executing
<1>5. \A t \in Sessions \ {s} : PhaseOf(t)' = PhaseOf(t)
  BY <1>1, <1>3, <1>4, OthersKeep
<1>6. PhaseOf(s) \in {"running", "usurped"}
  BY <1>0, <1>3, PhaseCases
<1>7. PhaseOf(s)' \in {PhaseOf(s), "running"}
  BY <1>0, <1>1, <1>3, <1>4, PhaseCasesNext, OthersKeep
<1>8. Now' \in {Now, [Now EXCEPT ![s] = "running"]} /\ Now[s] \in {"running", "usurped"}
  <2>1. Now' = [Now EXCEPT ![s] = PhaseOf(s)']
    BY <1>0, <1>5, OnePhase
  <2>2. Now[s] = PhaseOf(s) /\ [Now EXCEPT ![s] = Now[s]] = Now
    BY <1>0 DEF Now
  <2> QED
    BY <1>6, <1>7, <2>1, <2>2
<1>9. ASSUME touched' = touched
      PROVE  LifecycleStep
  <2>1. CASE Now' = Now
    BY <1>9, <2>1 DEF LifecycleStep, Lifecycle!vars, Now
  <2>2. CASE Now' # Now
    <3>1. Now[s] = "usurped" /\ Now' = [Now EXCEPT ![s] = "running"]
      BY <1>8, <2>2 DEF Now
    <3>2. Lifecycle!Reclaim(s)
      BY <1>9, <3>1 DEF Lifecycle!Reclaim, Now
    <3> QED
      BY <1>0, <3>2 DEF LifecycleStep, Lifecycle!Next
  <2> QED
    BY <2>1, <2>2
<1>10. ASSUME s \notin touched, touched' = touched \cup {s}
       PROVE  LifecycleStep
  <2>1. Lifecycle!Attempt(s)
    BY <1>8, <1>10 DEF Lifecycle!Attempt, Lifecycle!Active, Now
  <2> QED
    BY <1>0, <2>1 DEF LifecycleStep, Lifecycle!Next
<1> QED
  BY <1>2, <1>9, <1>10

\* An execution that ends, on record or not.
LEMMA PromiseEnds ==
  ASSUME PromiseInv, GuardsHeld, touched' = touched,
         \/ Strand
         \/ \E status \in {"blocked"} \cup Terminal :
              /\ Conclude(status)
              /\ status = "blocked" => worker.session \notin touched
  PROVE  WorkerIsRecorded' /\ LifecycleStep
<1>s. PICK s : s = worker.session
  OBVIOUS
<1> USE <1>s
<1>0. /\ SessionShape /\ worker.pc # "idle" /\ s \in Sessions
      /\ Status(s) \in InFlight \cup {"blocked"}
  BY Busy, StatusKinds DEF PromiseInv, WorkerIsRecorded, GuardsHeld
<1>1. worker' = IdleWorker /\ \A t \in Sessions \ {s} : store'[t] = store[t]
  BY <1>0, StatusKinds, ConcludeFits DEF Strand, Complete
<1>2. WorkerIsRecorded' /\ ~GuardsHeld'
  BY <1>1 DEF WorkerIsRecorded, IdleWorker, GuardsHeld
<1>3. \A t \in Sessions : (Executing(t) <=> t = s) /\ ~Executing(t)'
  BY <1>2 DEF Executing
<1>4. \A t \in Sessions \ {s} : PhaseOf(t)' = PhaseOf(t)
  BY <1>1, <1>3, OthersKeep
<1>5. Now[s] = IF Status(s) \in InFlight THEN "running" ELSE "usurped"
  BY <1>0, <1>3, PhaseCases DEF Now
<1>6. CASE Strand
  <2>1. store' = store
    BY <1>6 DEF Strand
  <2>2. PhaseOf(s)' = IF Now[s] = "running" THEN "stranded" ELSE "open"
    BY <1>0, <1>3, <1>5, <2>1, PhaseCasesNext, StatusKinds DEF Status
  <2>3. Lifecycle!Strand(s)
    <3>1. Now' = [Now EXCEPT ![s] = IF Now[s] = "running" THEN "stranded" ELSE "open"]
      BY <1>0, <1>4, <2>2, OnePhase
    <3> QED
      BY <1>5, <3>1 DEF Lifecycle!Strand, Lifecycle!Active, Now
  <2> QED
    BY <1>0, <1>2, <2>3 DEF LifecycleStep, Lifecycle!Next
<1>7. ASSUME NEW status \in {"blocked"} \cup Terminal, Conclude(status),
             status = "blocked" => worker.session \notin touched
      PROVE  LifecycleStep
  <2>1. store'[s].status = status
    BY <1>0, <1>7, StatusKinds, ConcludeFits
  <2>2. PhaseOf(s)' = IF status = "blocked" THEN "open" ELSE "closed"
    BY <1>0, <1>3, <2>1, PhaseCasesNext, StatusKinds
  <2>3. Now' = [Now EXCEPT ![s] = IF status = "blocked" THEN "open" ELSE "closed"]
    BY <1>0, <1>4, <2>2, OnePhase
  <2>4. Lifecycle!Abandon(s) \/ Lifecycle!Close(s)
    BY <1>5, <1>7, <2>3 DEF Lifecycle!Abandon, Lifecycle!Close, Lifecycle!Active, Now
  <2> QED
    BY <1>0, <2>4 DEF LifecycleStep, Lifecycle!Next
<1> QED
  BY <1>2, <1>6, <1>7

-----------------------------------------------------------------------------
(* The steps of the worker *)

\* Outside the guards: an execution is taken up, or nothing of the life cycle
\* happens.
LEMMA PromiseUnguarded ==
  ASSUME PromiseInv, ~GuardsHeld, WorkerStep
  PROVE  WorkerIsRecorded' /\ LifecycleStep
<1>s. PICK s : s = worker.session
  OBVIOUS
<1> USE <1>s
<1>0. SessionShape /\ \A t \in Sessions : ~Executing(t)
  BY DEF PromiseInv, Executing
<1>1. CASE ExecuteGuard /\ Record("executing", "before")
  <2>1. /\ worker.pc = "guard" /\ s \in Sessions /\ Status(s) \in Open
        /\ worker'.pc = "before" /\ worker'.session = s
        /\ touched' = touched \ {s}
    <3>1. worker.pc = "guard"
      BY <1>1 DEF ExecuteGuard
    <3>2. worker'.pc = "before" /\ worker'.session = s
      BY <1>0, <1>1, <3>1, ReportFits, StatusKinds
    <3>3. touched' = touched \ {s}
      BY <1>1, <3>2 DEF ExecuteGuard, JobRaises, StoreFails, Complete, IdleWorker
    <3> QED
      BY <1>0, <3>1, <3>2, <3>3, Busy DEF PromiseInv, WorkerIsRecorded
  <2>2. /\ store'[s].status = "executing"
        /\ \A t \in Sessions \ {s} : store'[t] = store[t]
    BY <1>0, <1>1, <2>1, SaveFits, StatusKinds, Busy DEF Record
  <2>3. WorkerIsRecorded' /\ GuardsHeld'
    BY <2>1, <2>2, StatusKinds DEF WorkerIsRecorded, GuardsHeld, Status
  <2>4. \A t \in Sessions : Executing(t)' <=> t = s
    BY <2>1, <2>3 DEF Executing
  <2>5. PhaseOf(s) = "open" /\ PhaseOf(s)' = "running"
        /\ \A t \in Sessions \ {s} : PhaseOf(t)' = PhaseOf(t)
    BY <1>0, <2>1, <2>2, <2>4, PhaseCases, PhaseCasesNext, OthersKeep, StatusKinds
  <2>6. \A t \in Sessions : Now[t] \notin {"running", "usurped"}
    <3>1. \A t \in Sessions : PhaseOf(t) \in {"stranded", "closed", "open"}
      BY <1>0, PhaseCases
    <3> QED
      BY <3>1 DEF Now
  <2>7. Now' = [Now EXCEPT ![s] = "running"] /\ Now[s] = "open"
    BY <2>1, <2>5, OnePhase DEF Now
  <2>8. Lifecycle!Begin(s)
    BY <2>1, <2>6, <2>7 DEF Lifecycle!Begin, Lifecycle!Active, Now
  <2> QED
    BY <2>1, <2>3, <2>8 DEF LifecycleStep, Lifecycle!Next
<1>2. CASE ~(ExecuteGuard /\ Record("executing", "before"))
  <2>1. ~GuardsHeld' /\ touched' = touched /\ \A t \in Sessions : ~Executing(t)'
    BY <1>0, <1>2, UnguardedStep DEF Executing
  <2>2. \/ store' = store
        \/ /\ s \in Sessions /\ Status(s) \notin InFlight \cup Terminal
           /\ store'[s].status \in {"preflight", "ready", "blocked"}
           /\ \A t \in Sessions \ {s} : store'[t] = store[t]
    <3>1. worker.pc = "capture" => Status(s) \in Open
      BY DEF PromiseInv, WorkerIsRecorded
    <3>2. ASSUME NEW status \in {"preflight", "ready", "blocked"}, Save(s, status),
                 s \in Sessions
          PROVE  /\ store'[s].status \in {"preflight", "ready", "blocked"}
                 /\ \A t \in Sessions \ {s} : store'[t] = store[t]
      BY <1>0, <3>2, SaveFits, StatusKinds DEF SessionShape
    <3> QED
      BY <1>0, <1>2, <3>1, <3>2, UnguardedStep, StatusKinds DEF Status
  <2>3. LifecycleStep
    <3>1. \A t \in Sessions : PhaseOf(t)' = PhaseOf(t)
      BY <1>0, <2>1, <2>2, PhaseCases, PhaseCasesNext, OthersKeep, StatusKinds
    <3> QED
      BY <2>1, <3>1, SameNow
  <2>4. worker'.pc \in {"capture", "guard"} => store'[worker'.session].status \in Open
    <3>1. CASE JobEnd
      BY <3>1 DEF JobEnd, Complete, IdleWorker
    <3>2. CASE PreflightLoad /\ ~JobEnd
      <4>1. Save(s, "preflight") /\ Stage("capture", configured)
        BY <3>2 DEF PreflightLoad, JobRaises, StoreFails, JobEnd, Stage
      <4>2. s \in Sessions /\ worker'.session = s /\ StoreShape
        BY <1>0, <3>2, <4>1, Busy, StageFits DEF PreflightLoad
      <4> QED
        BY <4>1, <4>2, SaveFits, StatusKinds
    <3>3. CASE ExecuteLoad /\ ~JobEnd
      <4>1. /\ Stage("guard", configured) /\ store' = store
            /\ store[s].status = "ready"
        BY <3>3 DEF ExecuteLoad, JobRaises, StoreFails, JobEnd, Stage, StoreUnchanged
      <4> QED
        BY <1>0, <4>1, StageFits, StatusKinds
    <3>4. ASSUME NEW r \in Requests, Take(r)
          PROVE  worker'.pc \notin {"capture", "guard"}
      BY <1>0, <3>4, BusyIsActive DEF Take, IdleWorker, SessionShape, ActiveRequests
    <3>5. ASSUME NEW r \in Requests, Unavailable(r)
          PROVE  worker'.pc \notin {"capture", "guard"}
      BY <3>5 DEF Unavailable
    <3>6. PreflightEnd => JobEnd
      BY DEF PreflightEnd, Conclude, StoreFails, JobEnd
    <3>7. ExecuteGuard => JobEnd
      BY <1>2 DEF ExecuteGuard, JobRaises, StoreFails, JobEnd
    <3>8. ~ExecuteBefore /\ ~ExecuteBegin /\ ~ExecuteStep /\ ~ExecuteReturn
          /\ ~ExecuteAfter
      BY DEF GuardsHeld, ExecuteBefore, ExecuteBegin, ExecuteStep, ExecuteReturn,
             ExecuteAfter
    <3> QED
      BY <3>1, <3>2, <3>3, <3>4, <3>5, <3>6, <3>7, <3>8 DEF WorkerStep
  <2>5. WorkerIsRecorded'
    BY <2>1, <2>4 DEF WorkerIsRecorded, Status, GuardsHeld
  <2> QED
    BY <2>3, <2>5
<1> QED
  BY <1>1, <1>2

\* Once something is sent, it stays sent until the operation returns.
LEMMA SentStays ==
  ASSUME OpShape, OpStep
  PROVE  history'.sent \in BOOLEAN /\ (history.sent => history'.sent)
BY DEF OpStep, ReadStatus, ReadConfig, Backup, Execute, Verify, Rollback, ReadBack,
       Audit, Refuse, OpShape, OpTypeOK

LEMMA PromiseGuarded ==
  ASSUME PromiseInv, GuardsHeld, WorkerStep
  PROVE  WorkerIsRecorded' /\ LifecycleStep
<1>1. CASE ExecuteBefore
  <2>1. touched' = touched /\ worker.session \notin touched
    BY <1>1 DEF ExecuteBefore, PromiseInv, WorkerIsRecorded
  <2> QED
    BY <1>1, <2>1, PromiseReport, PromiseEnds, StatusKinds DEF ExecuteBefore
<1>2. CASE ExecuteBegin
  <2>1. touched' = touched /\ worker.session \notin touched
    BY <1>2 DEF ExecuteBegin, PromiseInv, WorkerIsRecorded
  <2>2. CASE Begin(link, PlanOf[worker.session]) /\ Report("executing", "operation")
    BY <2>1, <2>2, PromiseReport, StatusKinds DEF Begin
  <2> QED
    BY <1>2, <2>1, <2>2, PromiseEnds, StatusKinds DEF ExecuteBegin
<1>3. CASE ExecuteStep
  <2>1. PICK status \in InFlight : Report(status, "operation")
    BY <1>3, StageStatusInFlight DEF ExecuteStep
  <2>2. worker.session \in touched <=> history.sent
    BY <1>3 DEF ExecuteStep, PromiseInv, WorkerIsRecorded
  <2>3. history'.sent \in BOOLEAN /\ (history.sent => history'.sent)
    BY <1>3, SentStays DEF ExecuteStep, PromiseInv, SessionShape
  <2>4. touched' = touched \cup (IF history'.sent THEN {worker.session} ELSE {})
    BY <1>3 DEF ExecuteStep
  <2>5. /\ \/ touched' = touched
           \/ worker.session \notin touched /\ touched' = touched \cup {worker.session}
        /\ worker.session \in touched' <=> history'.sent
    BY <2>2, <2>3, <2>4
  <2> QED
    BY <2>1, <2>5, PromiseReport
<1>4. CASE ExecuteReturn
  <2>1. touched' = touched /\ "verifying" \in InFlight
    BY <1>4 DEF ExecuteReturn, InFlight
  <2> QED
    BY <1>4, <2>1, PromiseReport, PromiseEnds DEF ExecuteReturn
<1>5. CASE ExecuteAfter
  <2>1. touched' = touched
    BY <1>5 DEF ExecuteAfter
  <2>2. Strand \/ \E status \in Terminal : Conclude(status)
    BY <1>5, FinalFits, StatusKinds DEF ExecuteAfter
  <2>3. "blocked" \notin Terminal
    BY StatusKinds
  <2> QED
    BY <2>1, <2>2, <2>3, PromiseEnds
<1>6. ~\E r \in Requests : Take(r) \/ Unavailable(r)
  BY DEF GuardsHeld, Take, Unavailable
<1>7. ~PreflightLoad /\ ~PreflightEnd /\ ~ExecuteLoad /\ ~ExecuteGuard
  BY DEF GuardsHeld, PreflightLoad, PreflightEnd, ExecuteLoad, ExecuteGuard
<1> QED
  BY <1>1, <1>2, <1>3, <1>4, <1>5, <1>6, <1>7 DEF WorkerStep

-----------------------------------------------------------------------------
(* The steps of the request threads, of the operators and of the world *)

\* A request that failed writes over what the record says of a session.
LEMMA PromiseBlock ==
  ASSUME PromiseInv, NEW r \in Requests, Block(r)
  PROVE  WorkerIsRecorded' /\ LifecycleStep
<1>s. PICK s : s = requests[r].session
  OBVIOUS
<1> USE <1>s
<1>0. /\ SessionShape /\ s \in Sessions
      /\ UNCHANGED <<worker, touched, history>>
  BY BusyIsActive DEF Block, PromiseInv, SessionShape, ActiveRequests, opVars
<1>1. /\ store' = store \/ store'[s].status = "blocked"
      /\ \A t \in Sessions \ {s} : store'[t] = store[t]
  BY <1>0, SaveFits, StatusKinds DEF Block, StoreUnchanged, SessionShape
<1>2. WorkerIsRecorded'
  BY <1>0, <1>1, StatusKinds
     DEF PromiseInv, WorkerIsRecorded, Status, GuardsHeld, SessionShape, WorkerShape
<1>3. \A t \in Sessions : Executing(t)' <=> Executing(t)
  BY <1>0 DEF Executing, GuardsHeld
<1>4. \A t \in Sessions \ {s} : PhaseOf(t)' = PhaseOf(t)
  BY <1>1, <1>3, OthersKeep
<1>5. CASE PhaseOf(s)' = PhaseOf(s)
  BY <1>0, <1>2, <1>4, <1>5, SameNow
<1>6. CASE PhaseOf(s)' # PhaseOf(s)
  <2>1. store'[s].status = "blocked"
    BY <1>0, <1>1, <1>3, <1>6, OthersKeep
  <2>2. /\ PhaseOf(s) \in {"running", "stranded", "closed"}
        /\ PhaseOf(s)' = IF PhaseOf(s) = "running" THEN "usurped" ELSE "open"
    BY <1>0, <1>3, <1>6, <2>1, PhaseCases, PhaseCasesNext, StatusKinds
  <2>3. Now[s] = PhaseOf(s)
    BY <1>0 DEF Now
  <2>4. Now' = [Now EXCEPT ![s] = IF Now[s] = "running" THEN "usurped" ELSE "open"]
    BY <1>0, <1>4, <2>2, <2>3, OnePhase
  <2>5. Lifecycle!Disown(s)
    BY <1>0, <2>2, <2>3, <2>4 DEF Lifecycle!Disown, Now
  <2> QED
    BY <1>0, <1>2, <2>5 DEF LifecycleStep, Lifecycle!Next
<1> QED
  BY <1>5, <1>6

LEMMA PromiseCreate ==
  ASSUME PromiseInv, NEW s \in Sessions, CreatePlan(s)
  PROVE  WorkerIsRecorded' /\ LifecycleStep
<1>1. /\ Status(s) = "absent" /\ store'[s].status = "planned"
      /\ \A t \in Sessions \ {s} : store'[t] = store[t]
      /\ UNCHANGED <<worker, touched, history>>
  BY DEF CreatePlan, Status, PromiseInv, SessionShape, StoreShape, opVars, onlookerVars
<1>2. WorkerIsRecorded'
  BY <1>1, StatusKinds
     DEF PromiseInv, WorkerIsRecorded, Status, GuardsHeld, SessionShape, WorkerShape
<1>3. \A t \in Sessions : Executing(t)' <=> Executing(t)
  BY <1>1 DEF Executing, GuardsHeld
<1>4. ~Executing(s)
  BY <1>1, StatusKinds DEF PromiseInv, WorkerIsRecorded, Executing
<1>5. \A t \in Sessions : PhaseOf(t)' = PhaseOf(t)
  BY <1>1, <1>3, <1>4, OthersKeep, PhaseCases, PhaseCasesNext, StatusKinds
<1> QED
  BY <1>1, <1>2, <1>5, SameNow

\* Everything else leaves the documents, the worker and its history alone.
LEMMA PromiseIdle ==
  ASSUME PromiseInv, UNCHANGED <<store, worker, touched>>,
         worker.pc = "operation" => history'.sent = history.sent
  PROVE  WorkerIsRecorded' /\ LifecycleStep
<1>1. WorkerIsRecorded'
  BY DEF PromiseInv, WorkerIsRecorded, Status, GuardsHeld
<1>2. \A t \in Sessions : PhaseOf(t)' = PhaseOf(t)
  BY OthersKeep DEF Executing, GuardsHeld
<1> QED
  BY <1>1, <1>2, SameNow

\* Whatever is in flight when the process dies is closed.
LEMMA PromiseRestart ==
  ASSUME PromiseInv, Restart
  PROVE  WorkerIsRecorded' /\ LifecycleStep
<1>1. /\ worker' = IdleWorker /\ touched' = touched
      /\ \A s \in Sessions : store'[s] = Recovered(store[s])
  BY DEF Restart
<1>2. \A s \in Sessions :
        /\ Status(s) \notin InFlight => store'[s] = store[s]
        /\ Status(s) \in InFlight => store'[s].status = "indeterminate"
  BY <1>1, RecoveredFits DEF PromiseInv, SessionShape, StoreShape, Status
<1>3. WorkerIsRecorded' /\ \A s \in Sessions : ~Executing(s)'
  BY <1>1 DEF WorkerIsRecorded, IdleWorker, GuardsHeld, Executing
<1>4. \A s \in Sessions : Executing(s) => Status(s) \in InFlight \cup {"blocked"}
  BY DEF PromiseInv, WorkerIsRecorded, Executing
<1>5. \A s \in Sessions :
        PhaseOf(s)' = CASE PhaseOf(s) \in {"running", "stranded"} -> "closed"
                        [] PhaseOf(s) = "usurped" -> "open"
                        [] OTHER -> PhaseOf(s)
  <2> TAKE s \in Sessions
  <2>1. CASE Status(s) \in InFlight
    <3>1. PhaseOf(s) \in {"running", "stranded"} /\ PhaseOf(s)' = "closed"
      BY <1>2, <1>3, <2>1, PhaseCases, PhaseCasesNext, StatusKinds
    <3> QED
      BY <3>1
  <2>2. CASE Executing(s) /\ Status(s) = "blocked"
    <3>1. PhaseOf(s) = "usurped" /\ PhaseOf(s)' = "open"
      BY <1>2, <1>3, <2>2, PhaseCases, PhaseCasesNext, StatusKinds DEF Status
    <3> QED
      BY <3>1
  <2>3. CASE ~Executing(s) /\ Status(s) \notin InFlight
    <3>1. PhaseOf(s) \in {"closed", "open"} /\ PhaseOf(s)' = PhaseOf(s)
      BY <1>2, <1>3, <2>3, PhaseCases, OthersKeep
    <3> QED
      BY <3>1
  <2> QED
    BY <1>4, <2>1, <2>2, <2>3
<1>6. Lifecycle!Crash
  BY <1>1, <1>5 DEF Lifecycle!Crash
<1> QED
  BY <1>3, <1>6 DEF LifecycleStep, Lifecycle!Next

-----------------------------------------------------------------------------
(* The theorems *)

LEMMA PromiseInit == Init => PromiseInv /\ Lifecycle!Init
<1> SUFFICES ASSUME Init PROVE PromiseInv /\ Lifecycle!Init
  OBVIOUS
<1>1. SessionShape
  BY SessionShapeInit
<1>2. /\ \A s \in Sessions : store[s].status = "absent" /\ ~Executing(s)
      /\ worker.pc = "idle" /\ touched = {}
  BY DEF Init, NoDocument, IdleWorker, Executing, GuardsHeld
<1>3. InFlightIsRunning /\ WorkerIsRecorded
  BY <1>2, StatusKinds DEF InFlightIsRunning, WorkerIsRecorded, GuardsHeld
<1>4. \A s \in Sessions : PhaseOf(s) = "open"
  BY <1>2, PhaseCases, StatusKinds DEF Status
<1>5. Lifecycle!Init
  BY <1>2, <1>4 DEF Lifecycle!Init
<1> QED
  BY <1>1, <1>3, <1>5 DEF PromiseInv

LEMMA PromiseStep ==
  ASSUME PromiseInv, [Next]_vars
  PROVE  PromiseInv' /\ LifecycleStep
<1>1. SessionShape' /\ InFlightIsRunning'
  BY SessionShapeStep, InFlightStep DEF PromiseInv
<1>2. CASE WorkerStep
  BY <1>1, <1>2, PromiseGuarded, PromiseUnguarded DEF PromiseInv
<1>3. CASE \/ \E r \in Requests : GiveUp(r) \/ HandleFailure(r)
           \/ \E r \in Requests, s \in Sessions, kind \in {"preflight", "execute"} :
                Post(r, kind, s)
           \/ UNCHANGED vars
  <2>1. UNCHANGED <<store, worker, touched, history>>
    BY <1>3 DEF GiveUp, HandleFailure, Post, vars, onlookerVars, opVars
  <2> QED
    BY <1>1, <2>1, PromiseIdle DEF PromiseInv
<1>4. CASE \E r \in Requests : Block(r)
  BY <1>1, <1>4, PromiseBlock DEF PromiseInv
<1>5. CASE \E s \in Sessions : CreatePlan(s)
  BY <1>1, <1>5, PromiseCreate DEF PromiseInv
<1>6. CASE Outside
  <2>1. UNCHANGED <<store, worker, touched>> /\ history'.sent = history.sent
    BY <1>6, OutsideShape
       DEF PromiseInv, SessionShape, OpShape, OpTypeOK, Outside, Unlock, Lock, SetPolicy,
           SetControlled, Control, Configure, Console, Interfere, LinkLost, opVars
  <2> QED
    BY <1>1, <2>1, PromiseIdle DEF PromiseInv
<1>7. CASE Restart
  BY <1>1, <1>7, PromiseRestart DEF PromiseInv
<1> QED
  BY <1>2, <1>3, <1>4, <1>5, <1>6, <1>7 DEF Next, Outside

\* Change sessions implement the promised life cycle, for any number of
\* sessions, requests and devices: KeepsPromise of the run.
THEOREM PromiseKept == Spec => KeepsPromise
<1>1. PromiseInv /\ [Next]_vars => PromiseInv' /\ [Lifecycle!Next]_(Lifecycle!vars)
  BY PromiseStep DEF LifecycleStep
<1> QED
  BY <1>1, PromiseInit, PTL DEF Spec, KeepsPromise, Lifecycle!Spec

LEMMA TerminalStep ==
  ASSUME PromiseInv, [Next]_vars, NEW s \in Sessions, Status(s) \in Terminal,
         store'[s].status # Status(s)
  PROVE  /\ store'[s].status = "blocked"
         /\ \E r \in Requests : requests[r].pc = "blocking" /\ requests[r].session = s
<1>0. SessionShape /\ StoreShape
  BY DEF PromiseInv, SessionShape
<1>1. ~WorkerStep
  <2>1. ASSUME GuardsHeld, WorkerStep
        PROVE  FALSE
    <3>1. worker.session # s /\ worker.pc # "idle"
      BY <2>1, StatusKinds DEF PromiseInv, WorkerIsRecorded, GuardsHeld
    <3> QED
      BY <1>0, <2>1, <3>1, GuardedStep, ReportFits, ConcludeFits, StatusKinds
         DEF Strand, Status
  <2>2. ASSUME ~GuardsHeld, WorkerStep
        PROVE  FALSE
    <3>1. CASE ExecuteGuard /\ Record("executing", "before")
      <4>1. worker.pc = "guard" /\ worker.session # s /\ worker.session \in Sessions
        BY <1>0, <3>1, Busy, StatusKinds DEF ExecuteGuard, PromiseInv, WorkerIsRecorded
      <4> QED
        BY <1>0, <3>1, <4>1, SaveFits, StatusKinds DEF Record, Status
    <3>2. ASSUME worker.session \in Sessions,
                 \/ worker.pc = "preflight"
                    /\ store[worker.session].status \notin InFlight \cup Terminal
                 \/ worker.pc = "capture",
                 NEW status \in {"preflight", "ready", "blocked"},
                 Save(worker.session, status)
          PROVE  FALSE
      <4>1. worker.session # s
        BY <3>2, StatusKinds DEF Status, PromiseInv, WorkerIsRecorded
      <4> QED
        BY <1>0, <3>2, <4>1, SaveFits, StatusKinds DEF Status
    <3> QED
      BY <1>0, <2>2, <3>1, <3>2, UnguardedStep DEF Status
  <2> QED
    BY <2>1, <2>2
<1>2. ASSUME NEW r \in Requests, Block(r)
      PROVE  /\ store'[s].status = "blocked"
             /\ requests[r].pc = "blocking" /\ requests[r].session = s
  <2>1. requests[r].session \in Sessions
    BY <1>0, <1>2, BusyIsActive DEF Block, SessionShape, ActiveRequests
  <2> QED
    BY <1>0, <1>2, <2>1, SaveFits, StatusKinds DEF Block, StoreUnchanged, Status
<1>3. ~\E t \in Sessions : CreatePlan(t)
  BY <1>0, StatusKinds DEF CreatePlan, StoreShape, Status
<1>4. ~Restart
  BY <1>0, RecoveredFits, StatusKinds DEF Restart, StoreShape, Status
<1>5. ~\/ \E r \in Requests : GiveUp(r) \/ HandleFailure(r)
       \/ \E r \in Requests, t \in Sessions, kind \in {"preflight", "execute"} :
            Post(r, kind, t)
       \/ UNCHANGED vars
  BY DEF GiveUp, HandleFailure, Post, vars, Status
<1>6. ~Outside
  BY <1>0, OutsideShape DEF Status
<1> QED
  BY <1>1, <1>2, <1>3, <1>4, <1>5, <1>6 DEF Next, Outside

\* Neither the worker nor a restart rewrites the status of a finished session;
\* only a request that failed may write BLOCKED over it: FinishedUntilBlocked
\* of the run.
THEOREM FinishedUnlessBlocked == Spec => FinishedUntilBlocked
<1>1. PromiseInv /\ [Next]_vars => PromiseInv'
  BY PromiseStep
<1>2. PromiseInv /\ [Next]_vars
        => [\A s \in Sessions :
              store[s].status \in Terminal /\ store'[s].status # store[s].status
                => /\ store'[s].status = "blocked"
                   /\ \E r \in Requests : requests[r].pc = "blocking"
                                         /\ requests[r].session = s]_vars
  BY TerminalStep DEF Status
<1> QED
  BY <1>1, <1>2, PromiseInit, PTL DEF Spec, FinishedUntilBlocked

=============================================================================
