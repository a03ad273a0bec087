-------------------------- MODULE BoundedOperation --------------------------
(***************************************************************************)
(* The bounded operation of backend/app/operations.py: one configuration   *)
(* change of one property of one interface, run as one job of the device   *)
(* worker.  The pipeline reads the interface, takes a backup, sends the    *)
(* fixed command sequence, verifies the postcondition and, when it cannot, *)
(* rolls the property back.  Every call on the switch may fail, and        *)
(* somebody at another console may change the interface at any moment.     *)
(*                                                                         *)
(* The switch itself is external: running[d] is what the running           *)
(* configuration of device d says of the target interface.                 *)
(***************************************************************************)
EXTENDS Naturals

CONSTANTS
  Devices,           \* switches that can be configured
  Descriptions,      \* descriptions an interface may carry on the switch
  NoDescription,     \* no description line at all
  SafeDescriptions,  \* descriptions sanitize_description accepts
  PoeSettings,       \* "power inline" settings that occur on the switch
  Meddled,           \* properties somebody may change at another console
  None               \* no device, no plan, nothing read

ASSUME OperationAssumption ==
  /\ NoDescription \in Descriptions
  /\ SafeDescriptions \subseteq Descriptions \ {NoDescription}
  /\ {"auto", "never"} \subseteq PoeSettings
  /\ PoeSettings \subseteq {"auto", "auto_max", "never", "static"}
  /\ Meddled \subseteq {"admin", "poe", "description"}
  /\ None \notin Devices

VARIABLES
  running,  \* running[d]: the target interface in d's running configuration
  op,       \* the operation the worker is running
  history   \* what only an onlooker knows: the original, who interfered

opVars == <<running, op, history>>

-----------------------------------------------------------------------------
(* The operation catalogue *)

Properties == {"admin", "poe", "description"}

SettingsOf(p) == CASE p = "admin" -> {"up", "down"}
                   [] p = "poe"   -> PoeSettings
                   [] OTHER       -> Descriptions

Settings == {"up", "down"} \cup PoeSettings \cup Descriptions

Interface == {i \in [Properties -> Settings] :
                \A p \in Properties : i[p] \in SettingsOf(p)}

Kinds == {"admin_up", "admin_down", "poe_auto", "poe_never"}

Plans == [kind : Kinds, value : {None}]
           \cup [kind : {"set_description"}, value : SafeDescriptions]

Property(plan) ==
  CASE plan.kind \in {"admin_up", "admin_down"} -> "admin"
    [] plan.kind \in {"poe_auto", "poe_never"}  -> "poe"
    [] OTHER                                    -> "description"

\* Mutant of Wanted: the command is confused with the state it leads to.
WantedCommand(plan) == CASE plan.kind = "admin_up"   -> "no shutdown"
                         [] plan.kind = "admin_down" -> "shutdown"
                         [] plan.kind = "poe_auto"   -> "auto"
                         [] plan.kind = "poe_never"  -> "never"
                         [] OTHER                    -> plan.value

Wanted(plan) == CASE plan.kind = "admin_up"   -> "up"
                  [] plan.kind = "admin_down" -> "down"
                  [] plan.kind = "poe_auto"   -> "auto"
                  [] plan.kind = "poe_never"  -> "never"
                  [] OTHER                    -> plan.value

\* What the command sequence of the catalogue does once IOS takes it.
Applied(plan, i) == [i EXCEPT ![Property(plan)] = Wanted(plan)]

\* The reading of an interface block keeps only the first word of the PoE
\* policy, so "power inline auto max 15400" reads as auto.
PoeAdmin(setting) == IF setting = "auto_max" THEN "auto" ELSE setting

\* What the parsers report of the planned property of an interface.
Seen(plan, i) == IF Property(plan) = "poe" THEN PoeAdmin(i["poe"])
                                           ELSE i[Property(plan)]

\* A rollback exists only for values of the operation vocabulary.
RollbackExists(plan, before) ==
  CASE Property(plan) = "poe" -> before \in {"auto", "never"}
    [] Property(plan) = "description" ->
         before \in SafeDescriptions \cup {NoDescription}
    [] OTHER -> TRUE

RolledBack(plan, before, i) == [i EXCEPT ![Property(plan)] = before]

PostconditionMet(plan, seen) == seen = Wanted(plan)

\* Mutant of RollbackVerified: a rollback that IOS took is a rollback.
RollbackTrusted(before, seen) == TRUE

RollbackVerified(before, seen) == seen = before

-----------------------------------------------------------------------------
(* The pipeline *)

Stages == {"idle", "precheck", "config", "backup", "execute", "verify",
           "rollback", "restored", "audit", "done"}

Verdicts == {"none", "blocked", "success", "failed", "rolled_back"}

IdleOp == [pc |-> "idle", device |-> None, plan |-> None, shown |-> None,
           before |-> None, backup |-> FALSE, status |-> "none",
           requiresSave |-> FALSE]

NoHistory == [original |-> None, interfered |-> FALSE, sent |-> FALSE]

OpInit ==
  /\ running \in [Devices -> Interface]
  /\ op = IdleOp
  /\ history = NoHistory

Goto(stage) == op' = [op EXCEPT !.pc = stage]

\* Mutant of Finish: only a successful change is worth saving.
FinishSavesSuccess(status, save) ==
  op' = [op EXCEPT !.pc = "audit", !.status = status,
                   !.requiresSave = save /\ status = "success"]

Finish(status, save) ==
  op' = [op EXCEPT !.pc = "audit", !.status = status, !.requiresSave = save]

\* The closure result("blocked"): nothing has been sent yet.
Refuse == Finish("blocked", FALSE) /\ UNCHANGED <<running, history>>

\* The worker enters _run_operation_authorized on the connected device.
Begin(d, plan) ==
  /\ op.pc = "idle"
  /\ op' = [IdleOp EXCEPT !.pc = "precheck", !.device = d, !.plan = plan]
  /\ history' = [original |-> running[d], interfered |-> FALSE, sent |-> FALSE]
  /\ UNCHANGED running

\* Policy, value and the two status tables; any of them may stop the change.
ReadStatus ==
  /\ op.pc = "precheck"
  /\ \/ Refuse
     \/ /\ op' = [op EXCEPT !.pc = "config",
                            !.shown = Seen(op.plan, running[op.device])]
        /\ UNCHANGED <<running, history>>

\* The running configuration is read later than the tables: it decides the
\* rollback, and for a description it also decides whether there is work.
ReadConfig ==
  /\ op.pc = "config"
  /\ LET before == Seen(op.plan, running[op.device])
         seen   == IF Property(op.plan) = "description" THEN before
                                                        ELSE op.shown
     IN \/ Refuse
        \/ /\ RollbackExists(op.plan, before)
           /\ PostconditionMet(op.plan, seen)
           /\ op' = [op EXCEPT !.pc = "audit", !.before = before,
                               !.status = "success", !.requiresSave = FALSE]
           /\ UNCHANGED <<running, history>>
        \/ /\ RollbackExists(op.plan, before)
           /\ ~PostconditionMet(op.plan, seen)
           /\ op' = [op EXCEPT !.pc = "backup", !.before = before]
           /\ UNCHANGED <<running, history>>

\* Mutant of Backup: a backup that fails is only logged.
BackupOptional ==
  /\ op.pc = "backup"
  /\ \E saved \in BOOLEAN : op' = [op EXCEPT !.pc = "execute", !.backup = saved]
  /\ UNCHANGED <<running, history>>

\* No caller passes a backup as fresh, so one is always taken.
Backup ==
  /\ op.pc = "backup"
  /\ \/ Refuse
     \/ /\ op' = [op EXCEPT !.pc = "execute", !.backup = TRUE]
        /\ UNCHANGED <<running, history>>

\* The effect of a command sequence that was sent: taken, or without effect.
Sent(d, effect) ==
  \E took \in BOOLEAN :
    running' = IF took THEN [running EXCEPT ![d] = effect] ELSE running

\* run_raw_action: the session may fail before or after the switch took the
\* commands; IOS may refuse them; a clean answer proves nothing by itself.
Execute ==
  /\ op.pc = "execute"
  /\ history' = [history EXCEPT !.sent = TRUE]
  /\ \/ /\ Sent(op.device, Applied(op.plan, running[op.device]))
        /\ Finish("failed", TRUE)
     \/ /\ UNCHANGED running
        /\ Finish("failed", FALSE)
     \/ /\ Sent(op.device, Applied(op.plan, running[op.device]))
        /\ Goto("verify")

\* Mutant of Verify: without a reading the accepted command is believed.
VerifyAssumes ==
  /\ op.pc = "verify"
  /\ Finish("success", TRUE) \/ Goto("rollback")
  /\ UNCHANGED <<running, history>>

\* Mutant of Verify: an unverified change is sent again.
VerifyRetries ==
  /\ op.pc = "verify"
  /\ \/ /\ PostconditionMet(op.plan, Seen(op.plan, running[op.device]))
        /\ Finish("success", TRUE)
     \/ Goto("execute")
  /\ UNCHANGED <<running, history>>

\* A read that fails, or a status row that is gone, counts as not verified.
Verify ==
  /\ op.pc = "verify"
  /\ \/ /\ PostconditionMet(op.plan, Seen(op.plan, running[op.device]))
        /\ Finish("success", TRUE)
     \/ Goto("rollback")
  /\ UNCHANGED <<running, history>>

\* The first half of the rollback block: sending the restoring commands.
Rollback ==
  /\ op.pc = "rollback"
  /\ \/ /\ Sent(op.device, RolledBack(op.plan, op.before, running[op.device]))
        /\ Finish("failed", TRUE)
     \/ /\ UNCHANGED running
        /\ Finish("failed", TRUE)
     \/ /\ Sent(op.device, RolledBack(op.plan, op.before, running[op.device]))
        /\ Goto("restored")
  /\ UNCHANGED history

\* The second half: reading back what the rollback left.
ReadBack ==
  /\ op.pc = "restored"
  /\ \/ /\ RollbackVerified(op.before, Seen(op.plan, running[op.device]))
        /\ Finish("rolled_back", FALSE)
     \/ Finish("failed", TRUE)
  /\ UNCHANGED <<running, history>>

\* The audit record may fail to be written; that changes no verdict.
Audit ==
  /\ op.pc = "audit"
  /\ Goto("done")
  /\ UNCHANGED <<running, history>>

OpStep == \/ ReadStatus \/ ReadConfig \/ Backup \/ Execute
          \/ Verify \/ Rollback \/ ReadBack \/ Audit

\* run_operation has returned; the worker is free for the next operation.
Return ==
  /\ op.pc = "done"
  /\ op' = IdleOp
  /\ history' = NoHistory
  /\ UNCHANGED running

\* Somebody changes the interface on the switch, outside SwitchOps.
Interfere(d) ==
  /\ \E p \in Meddled : \E v \in SettingsOf(p) :
       running' = [running EXCEPT ![d] = [@ EXCEPT ![p] = v]]
  /\ history' = [history EXCEPT !.interfered = @ \/ d = op.device]
  /\ UNCHANGED op

OpNext == \/ \E d \in Devices, plan \in Plans : Begin(d, plan)
          \/ OpStep
          \/ Return
          \/ \E d \in Devices : Interfere(d)

\* Every call on the switch returns or raises within its read timeout, so the
\* worker thread always takes the next step of the operation it runs.
OpSpec == OpInit /\ [][OpNext]_opVars /\ WF_opVars(OpStep)

-----------------------------------------------------------------------------
(* Properties *)

Concluded == op.pc \in {"audit", "done"}

OpTypeOK ==
  /\ running \in [Devices -> Interface]
  /\ op \in [pc : Stages, device : Devices \cup {None},
             plan : Plans \cup {None}, shown : Settings \cup {None},
             before : Settings \cup {None}, backup : BOOLEAN,
             status : Verdicts, requiresSave : BOOLEAN]
  /\ history \in [original : Interface \cup {None}, interfered : BOOLEAN,
                  sent : BOOLEAN]

\* The reading tells everything of the planned property: it carries no power
\* limit.
Legible(plan, i) == Seen(plan, i) = i[Property(plan)]

\* When the result says that nothing is left to save, the interface is exactly
\* as it was when the operation began, unless somebody else changed it: no
\* outcome of a failed send, refused command, unverified change or rollback
\* leaves a silent change in the running configuration.  What a rollback may do
\* to a power limit is the matter of RollbackLosesOnlyLimits.
NothingLeftBehind ==
  /\ Concluded /\ ~history.interfered /\ ~op.requiresSave
  /\ op.status = "rolled_back" => Legible(op.plan, history.original)
  => running[op.device] = history.original

\* A successful result is a statement about the switch, not about the
\* commands: the requested value is in the running configuration.
SuccessIsReal ==
  Concluded /\ ~history.interfered /\ op.status = "success"
    => Seen(op.plan, running[op.device]) = Wanted(op.plan)

\* A rolled-back result means that the interface has its original configuration
\* again, unless somebody else changed it; if its PoE setting carried a power
\* limit, the limit may be gone, and nothing else is.
RollbackLosesOnlyLimits ==
  Concluded /\ ~history.interfered /\ op.status = "rolled_back"
    => running[op.device] \in
         {history.original,
          RolledBack(op.plan, Seen(op.plan, history.original), history.original)}

\* Nothing is sent to the switch without a backup on disk and a rollback that
\* the vocabulary can express, and a blocked result was never sent.
SentOnlyWithWayBack ==
  op.pc # "idle" /\ history.sent
    => /\ op.backup
       /\ RollbackExists(op.plan, op.before)
       /\ op.status # "blocked"

\* Whatever fails, an operation that began reaches a verdict.
OperationConcludes == op.pc = "precheck" ~> op.pc = "done"

=============================================================================
