--------------------------- MODULE ChangeSessions ---------------------------
(***************************************************************************)
(* Change Assurance: durable change sessions (change_store.py), the        *)
(* service that drives them (change_assurance.py) and the HTTP handlers of *)
(* main.py that plan, preflight and execute them.  Handlers run on request *)
(* threads; preflights and executions run as jobs on the one device worker,*)
(* which carries out a BoundedOperation on the switch it is connected to.  *)
(* A request thread may give up waiting, any client may ask for anything   *)
(* at any time, the control gates and the configured device may change,    *)
(* every access to the store may fail, and the process may die at any step.*)
(***************************************************************************)
EXTENDS BoundedOperation

CONSTANTS
  Sessions,    \* change sessions that may be planned
  Requests,    \* request threads
  PlanOf       \* PlanOf[s]: the bounded operation that session s plans

ASSUME SessionAssumption ==
  /\ PlanOf \in [Sessions -> Plans]
  /\ None \notin Sessions \cup Requests

VARIABLES
  store,       \* the persisted session documents
  requests,    \* what each request thread is doing
  worker,      \* the job the device worker runs
  unlocked,    \* WriteLock: this process may change the device
  controlled,  \* controlled writes are enabled for this installation
  operable,    \* devices whose policy makes the target interface OPERABLE
  configured,  \* the device of the stored credentials
  link,        \* the device the worker's session is connected to
  touched,     \* sessions whose last execution has sent configuration, and
  unrecorded   \* sessions whose last execution ended without a record of its
               \* end (an onlooker's view, both)

gateVars == <<unlocked, controlled, operable, configured>>
onlookerVars == <<touched, unrecorded>>
vars == <<store, requests, worker, gateVars, link, onlookerVars, opVars>>

-----------------------------------------------------------------------------
(* Session documents *)

InFlight == {"executing", "verifying", "rolling_back"}

Succeeded == {"succeeded", "succeeded_with_warnings"}

Terminal == Succeeded \cup {"rolled_back", "indeterminate"}

Open == {"planned", "preflight", "ready", "blocked"}

Statuses == {"absent"} \cup Open \cup InFlight \cup Terminal

\* Of a document only the status and the device it was planned for matter here.
Documents == [status : Statuses, device : Devices \cup {None}]

NoDocument == [status |-> "absent", device |-> None]

\* A document is stored with a new status; what was missing is on record again.
Save(s, status) == /\ store' = [store EXCEPT ![s].status = status]
                   /\ unrecorded' = unrecorded \ {s}

StoreUnchanged == UNCHANGED <<store, unrecorded>>

\* Mutant of Recovered: an interrupted session may be executed again.
RecoveredReady(doc) == IF doc.status \in InFlight
                       THEN [doc EXCEPT !.status = "ready"] ELSE doc

\* Mutant of Recovered: only the first status of an execution is looked for.
RecoveredExecuting(doc) == IF doc.status = "executing"
                           THEN [doc EXCEPT !.status = "indeterminate"] ELSE doc

\* An interrupted session must be inspected: _recover_incomplete.
Recovered(doc) == IF doc.status \in InFlight
                  THEN [doc EXCEPT !.status = "indeterminate"] ELSE doc

-----------------------------------------------------------------------------
(* The worker and the request threads *)

IdleWorker == [pc |-> "idle", request |-> None, session |-> None,
               host |-> None]

IdleRequest == [pc |-> "idle", kind |-> "none", session |-> None,
                waiting |-> FALSE]

RequestStates == [pc : {"idle", "queued", "running", "failed", "blocking"},
                  kind : {"none", "preflight", "execute"},
                  session : Sessions \cup {None}, waiting : BOOLEAN]

WorkerStates == [pc : {"idle", "preflight", "capture", "execute", "guard",
                       "before", "begin", "operation", "after"},
                 request : Requests \cup {None}, session : Sessions \cup {None},
                 host : Devices \cup {None}]

\* The worker is inside both operation guards, so every control request that
\* needs one of the two locks has to wait.
GuardsHeld == worker.pc \in {"before", "begin", "operation", "after"}

\* The job ended; its request, if it still waits, returns to the client.
Complete ==
  /\ requests' = [requests EXCEPT ![worker.request] = IdleRequest]
  /\ worker' = IdleWorker

\* An access to the store raised an error no handler expects: the job ends, the
\* guards are left, the request fails, and nothing has been stored.
StoreFails == Complete /\ StoreUnchanged

\* The same after the execution was stored as under way.
Strand == /\ Complete
          /\ unrecorded' = unrecorded \cup {worker.session}
          /\ UNCHANGED store

\* The job of r ended with a SwitchOpsError, which only a waiting request sees.
Raise(r) ==
  requests' = [requests EXCEPT
                 ![r] = IF @.waiting THEN [@ EXCEPT !.pc = "failed"]
                                     ELSE IdleRequest]

Init ==
  /\ OpInit
  /\ store = [s \in Sessions |-> NoDocument]
  /\ requests = [r \in Requests |-> IdleRequest]
  /\ worker = IdleWorker
  /\ unlocked = FALSE
  /\ controlled \in BOOLEAN
  /\ operable \in SUBSET Devices
  /\ configured \in Devices \cup {None}
  /\ link = None
  /\ touched = {}
  /\ unrecorded = {}

-----------------------------------------------------------------------------
(* Request handlers *)

\* post_change_session: the plan is bound to the configured device.
CreatePlan(s) ==
  /\ store[s].status = "absent"
  /\ configured # None
  /\ store' = [store EXCEPT ![s] = [status |-> "planned", device |-> configured]]
  /\ UNCHANGED <<requests, worker, gateVars, link, onlookerVars, opVars>>

\* A client may ask at any time, whatever else is under way for the session: a
\* second panel, or the same panel after its request has given up waiting.
Post(r, kind, s) ==
  /\ requests[r].pc = "idle"
  /\ store[s].status # "absent"
  /\ kind = "execute" => unlocked /\ controlled /\ ~GuardsHeld
  /\ requests' = [requests EXCEPT
                    ![r] = [pc |-> "queued", kind |-> kind, session |-> s,
                            waiting |-> TRUE]]
  /\ UNCHANGED <<store, worker, gateVars, link, onlookerVars, opVars>>

\* future.result(timeout) gives up; the job stays where it is.
GiveUp(r) ==
  /\ requests[r].pc \in {"queued", "running"}
  /\ requests[r].waiting
  /\ requests' = [requests EXCEPT ![r].waiting = FALSE]
  /\ UNCHANGED <<store, worker, gateVars, link, onlookerVars, opVars>>

\* block_before_execution leaves every other status alone.
Blockable(kind, status) ==
  kind = "execute" => status \in {"planned", "preflight", "ready"}

\* The handler's except branch reads the document, or cannot read it ...
HandleFailure(r) ==
  LET q == requests[r] IN
  /\ q.pc = "failed"
  /\ \/ /\ Blockable(q.kind, store[q.session].status)
        /\ requests' = [requests EXCEPT ![r].pc = "blocking"]
     \/ requests' = [requests EXCEPT ![r] = IdleRequest]
  /\ UNCHANGED <<store, worker, gateVars, link, onlookerVars, opVars>>

\* ... and writes it back as blocked, unless the store fails.
Block(r) ==
  /\ requests[r].pc = "blocking"
  /\ \/ Save(requests[r].session, "blocked")
     \/ StoreUnchanged
  /\ requests' = [requests EXCEPT ![r] = IdleRequest]
  /\ UNCHANGED <<worker, gateVars, link, touched, opVars>>

-----------------------------------------------------------------------------
(* The device worker *)

\* _ensure_client keeps a live session whatever device it is connected to.
Take(r) ==
  /\ worker.pc = "idle"
  /\ requests[r].pc = "queued"
  /\ link' = IF link # None THEN link ELSE configured
  /\ link' # None
  /\ requests' = [requests EXCEPT ![r].pc = "running"]
  /\ worker' = [IdleWorker EXCEPT !.pc = requests[r].kind, !.request = r,
                                  !.session = requests[r].session]
  /\ UNCHANGED <<store, gateVars, onlookerVars, opVars>>

\* There is no session and none can be opened.
Unavailable(r) ==
  /\ worker.pc = "idle"
  /\ requests[r].pc = "queued"
  /\ link = None
  /\ Raise(r)
  /\ UNCHANGED <<store, worker, gateVars, link, onlookerVars, opVars>>

JobRaises == Raise(worker.request) /\ worker' = IdleWorker /\ StoreUnchanged

\* Mutant of PreflightLoad: a finished session may be checked once more.
PreflightLoadAgain ==
  /\ worker.pc = "preflight"
  /\ LET s == worker.session
     IN \/ store[s].status \in InFlight /\ JobRaises
        \/ /\ store[s].status \notin InFlight
           /\ Save(s, "preflight")
           /\ worker' = [worker EXCEPT !.pc = "capture", !.host = configured]
           /\ UNCHANGED requests
        \/ StoreFails
  /\ UNCHANGED <<gateVars, link, touched, opVars>>

PreflightLoad ==
  /\ worker.pc = "preflight"
  /\ LET s == worker.session
     IN \/ store[s].status \in InFlight \cup Terminal /\ JobRaises
        \/ /\ store[s].status \notin InFlight \cup Terminal
           /\ Save(s, "preflight")
           /\ worker' = [worker EXCEPT !.pc = "capture", !.host = configured]
           /\ UNCHANGED requests
        \/ StoreFails
  /\ UNCHANGED <<gateVars, link, touched, opVars>>

\* The worker stores the document with its last status; the job ends.
Conclude(status) == Save(worker.session, status) /\ Complete

\* The checks of _preflight that this model can see; evidence of any other
\* kind, or a capture that fails, may block as well.
ChecksPass(device, host) ==
  host # None /\ device = host /\ host \in operable /\ controlled

PreflightEnd ==
  /\ worker.pc = "capture"
  /\ \/ ChecksPass(store[worker.session].device, worker.host) /\ Conclude("ready")
     \/ Conclude("blocked")
     \/ StoreFails
  /\ UNCHANGED <<gateVars, link, touched, opVars>>

ExecuteLoad ==
  /\ worker.pc = "execute"
  /\ \/ store[worker.session].status # "ready" /\ JobRaises
     \/ /\ store[worker.session].status = "ready"
        /\ worker' = [worker EXCEPT !.pc = "guard", !.host = configured]
        /\ StoreUnchanged /\ UNCHANGED requests
     \/ StoreFails
  /\ UNCHANGED <<gateVars, link, touched, opVars>>

\* The two operation guards: session unlock, controlled writes, policy.
GuardsOpen(host) == unlocked /\ controlled /\ host \in operable

Advance(next) == worker' = [worker EXCEPT !.pc = next] /\ UNCHANGED requests

\* The worker stores the document with a new status and goes on.
Record(status, next) == Save(worker.session, status) /\ Advance(next)

\* operation_progress: the pipeline swallows what the store raises.
Report(status, next) == \/ Record(status, next)
                        \/ StoreUnchanged /\ Advance(next)

\* From here on the session is on record as executing, with nothing sent yet.
ExecuteGuard ==
  /\ worker.pc = "guard"
  /\ \/ ~GuardsOpen(worker.host) /\ JobRaises /\ UNCHANGED touched
     \/ /\ GuardsOpen(worker.host)
        /\ Record("executing", "before")
        /\ touched' = touched \ {worker.session}
     \/ GuardsOpen(worker.host) /\ StoreFails /\ UNCHANGED touched
  /\ UNCHANGED <<gateVars, link, opVars>>

\* The before snapshot, and preflight once more under stable authorization.
ExecuteBefore ==
  /\ worker.pc = "before"
  /\ \/ Conclude("blocked")
     \/ /\ ChecksPass(store[worker.session].device, worker.host)
        /\ Record("executing", "begin")
     \/ Strand
  /\ UNCHANGED <<gateVars, link, touched, opVars>>

\* run_operation reads the configured device again and re-enters the guards.
ExecuteBegin ==
  /\ worker.pc = "begin"
  /\ \/ /\ ~GuardsOpen(configured)
        /\ Conclude("indeterminate") \/ Strand
        /\ UNCHANGED opVars
     \/ /\ GuardsOpen(configured)
        /\ Begin(link, PlanOf[worker.session])
        /\ Report("executing", "operation")
  /\ UNCHANGED <<gateVars, link, touched>>

\* operation_progress: the status follows the stage that began last.
StageStatus(stage) == CASE stage = "verify" -> "verifying"
                        [] stage \in {"rollback", "restored"} -> "rolling_back"
                        [] OTHER -> "executing"

ExecuteStep ==
  /\ worker.pc = "operation"
  /\ OpStep
  /\ ReadStatus => op'.pc = "audit" \/ configured \in operable
  /\ Report(StageStatus(op'.pc), "operation")
  /\ touched' = touched \cup (IF history'.sent THEN {worker.session} ELSE {})
  /\ UNCHANGED <<gateVars, link>>

ExecuteReturn ==
  /\ worker.pc = "operation"
  /\ op.pc = "done"
  /\ \/ Record("verifying", "after") /\ UNCHANGED opVars
     \/ Strand /\ Return
  /\ UNCHANGED <<gateVars, link, touched>>

\* Mutant of FinalStatuses: the verdict of the operation is the final status.
VerdictStatuses(verdict, met) == {verdict}

\* The statuses that the result and the after snapshot allow.
FinalStatuses(verdict, met) ==
  CASE verdict = "rolled_back" -> {"rolled_back"}
    [] verdict = "success" /\ met -> Succeeded
    [] OTHER -> {"indeterminate"}

\* The after snapshot may be impossible to take.
ExecuteAfter ==
  /\ worker.pc = "after"
  /\ LET met == PostconditionMet(op.plan, Seen(op.plan, running[link]))
     IN \/ \E status \in {"indeterminate"} \cup FinalStatuses(op.status, met) :
             Conclude(status)
        \/ Strand
  /\ Return
  /\ UNCHANGED <<gateVars, link, touched>>

WorkerStep ==
  \/ \E r \in Requests : Take(r) \/ Unavailable(r)
  \/ PreflightLoad \/ PreflightEnd
  \/ ExecuteLoad \/ ExecuteGuard \/ ExecuteBefore \/ ExecuteBegin
  \/ ExecuteStep \/ ExecuteReturn \/ ExecuteAfter

-----------------------------------------------------------------------------
(* Control requests and the world outside *)

\* The write lock and the policy lock are free, so the request can proceed.
Control == /\ ~GuardsHeld
           /\ UNCHANGED <<store, requests, worker, configured, link, onlookerVars, opVars>>

Unlock == controlled /\ unlocked' = TRUE /\ Control /\ UNCHANGED <<controlled, operable>>

\* Mutant of Lock: the flag is cleared without taking the write lock.
LockAtOnce ==
  /\ unlocked' = FALSE
  /\ UNCHANGED <<store, requests, worker, controlled, operable, configured, link,
                 onlookerVars, opVars>>

Lock == unlocked' = FALSE /\ Control /\ UNCHANGED <<controlled, operable>>

\* put_controlled_writes: disabling also locks.
SetControlled(enabled) ==
  /\ controlled' = enabled
  /\ unlocked' = (unlocked /\ enabled)
  /\ Control /\ UNCHANGED operable

\* put_interface_policy always edits the configured device.
SetPolicy ==
  /\ configured # None
  /\ operable' \in {operable \cup {configured}, operable \ {configured}}
  /\ Control /\ UNCHANGED <<unlocked, controlled>>

\* setup_credentials and clear_credentials take no gate and leave the device
\* session of the worker as it is.
Configure(d) ==
  /\ configured' = d
  /\ UNCHANGED <<store, requests, worker, unlocked, controlled, operable, link,
                 onlookerVars, opVars>>

\* The transport dies between two jobs; inside a job, reads and sends fail.
LinkLost ==
  /\ worker.pc = "idle"
  /\ link' = None
  /\ UNCHANGED <<store, requests, worker, gateVars, onlookerVars, opVars>>

Console(d) ==
  /\ Interfere(d)
  /\ UNCHANGED <<store, requests, worker, gateVars, link, onlookerVars>>

\* The process dies at any point and starts again: locked, no session, no
\* queue, and the store recovers what was in flight.
Restart ==
  /\ store' = [s \in Sessions |-> Recovered(store[s])]
  /\ requests' = [r \in Requests |-> IdleRequest]
  /\ worker' = IdleWorker
  /\ unlocked' = FALSE
  /\ link' = None
  /\ op' = IdleOp
  /\ history' = NoHistory
  /\ unrecorded' = {}
  /\ UNCHANGED <<controlled, operable, configured, touched, running>>

Next ==
  \/ \E s \in Sessions : CreatePlan(s)
  \/ \E r \in Requests, s \in Sessions, kind \in {"preflight", "execute"} :
       Post(r, kind, s)
  \/ \E r \in Requests : GiveUp(r) \/ HandleFailure(r) \/ Block(r)
  \/ WorkerStep
  \/ Unlock \/ Lock \/ SetPolicy
  \/ \E enabled \in BOOLEAN : SetControlled(enabled)
  \/ \E d \in Devices \cup {None} : Configure(d)
  \/ \E d \in Devices : Console(d)
  \/ LinkLost
  \/ Restart

\* The worker thread and the request threads keep running; operators, other
\* consoles and crashes owe nothing.
Spec == /\ Init /\ [][Next]_vars
        /\ WF_vars(WorkerStep)
        /\ \A r \in Requests : WF_vars(HandleFailure(r) \/ Block(r))

-----------------------------------------------------------------------------
(* Properties *)

TypeOK ==
  /\ OpTypeOK
  /\ store \in [Sessions -> Documents]
  /\ requests \in [Requests -> RequestStates]
  /\ worker \in WorkerStates
  /\ unlocked \in BOOLEAN
  /\ controlled \in BOOLEAN
  /\ operable \in SUBSET Devices
  /\ configured \in Devices \cup {None}
  /\ link \in Devices \cup {None}
  /\ touched \in SUBSET Sessions
  /\ unrecorded \in SUBSET Sessions

\* The worker is inside the guards of an execution of s.
Executing(s) == GuardsHeld /\ worker.session = s

\* A document that says a write is under way is telling the truth: the worker
\* is on that very session, inside the guards.  The one exception is an
\* execution whose end the store refused; after a restart none remains.
InFlightIsRunning ==
  \A s \in Sessions :
    store[s].status \in InFlight => Executing(s) \/ s \in unrecorded

\* From the first status of an execution to its last, the process is unlocked,
\* controlled writes are on and the policy of the device that authorised it is
\* OPERABLE: revoking any of them waits for the transaction.
GatesHeld == GuardsHeld => GuardsOpen(worker.host)

\* The phases of the promised life cycle.
PhaseOf(s) ==
  CASE Executing(s) /\ store[s].status \in InFlight  -> "running"
    [] Executing(s) /\ store[s].status \notin InFlight -> "usurped"
    [] ~Executing(s) /\ store[s].status \in InFlight -> "stranded"
    [] ~Executing(s) /\ store[s].status \in Terminal -> "closed"
    [] OTHER -> "open"

Lifecycle == INSTANCE ChangeLifecycle
               WITH phase <- [s \in Sessions |-> PhaseOf(s)],
                    attempted <- touched

\* Change sessions keep their promise, whatever requests, late answers, store
\* failures and restarts do: one execution at a time, which sends its
\* configuration at most once; a session is called open again only if nothing
\* was sent, or because a failed request wrote BLOCKED over what it said.
KeepsPromise == Lifecycle!Spec

\* A finished session is an audit record: no later request, late answer or
\* restart alters its status (README of the repository).
TerminalIsImmutable ==
  [][\A s \in Sessions :
       store[s].status \in Terminal => store'[s].status = store[s].status]_vars

\* What the code does keep of it: neither preflight nor execution nor restart
\* takes a finished session up again; only a request that failed while others
\* were under way may write BLOCKED over it.
FinishedUntilBlocked ==
  [][\A s \in Sessions :
       store[s].status \in Terminal /\ store'[s].status # store[s].status
         => /\ store'[s].status = "blocked"
            /\ \E r \in Requests : requests[r].pc = "blocking"
                                  /\ requests[r].session = s]_vars

\* Configuration is sent only to the device the session was planned for.
SentToPlannedDevice ==
  \A s \in Sessions :
    worker.session = s /\ worker.pc = "operation" /\ history.sent
      => op.device = store[s].device

\* Whoever enters the guards leaves them, so that a lock or a policy request
\* that waits is served, and what is then on record is not in flight unless the
\* store refused the record.
ExecutionConcludes ==
  \A s \in Sessions :
    Executing(s) ~> /\ ~Executing(s)
                    /\ store[s].status \in InFlight => s \in unrecorded

=============================================================================
