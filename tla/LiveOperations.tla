--------------------------- MODULE LiveOperations ---------------------------
(***************************************************************************)
(* What happens around a device job: the request handlers of main.py mark  *)
(* the operation, pause the live collector (live_state.py), wait for the   *)
(* device worker, and then record the outcome in the ConfigSaveTracker of  *)
(* operations.py, which tells the operator whether the running             *)
(* configuration has been saved.  The collector keeps the live view of the *)
(* switch current and drops a tick when one is already waiting.            *)
(*                                                                         *)
(* Outcomes are recorded by request threads after the worker has moved on, *)
(* so records may be applied in another order than the jobs that earned    *)
(* them.  The switch is external: a running and a startup configuration.   *)
(***************************************************************************)
EXTENDS Integers, FiniteSets

CONSTANTS
  Requests,    \* request threads
  Contents,    \* contents a configuration may have
  MaxPending,  \* bound: changes posted while this many are pending
  None         \* no request, nothing read

ASSUME LiveAssumption ==
  /\ IsFiniteSet(Requests)
  /\ Contents # {} /\ None \notin Contents \cup Requests
  /\ "fast" \notin Requests
  /\ MaxPending \in Nat

VARIABLES
  running,    \* running configuration of the switch
  startup,    \* startup configuration of the switch
  reachable,  \* the switch answers
  unseen,     \* an onlooker's view: changed since without a record, or the
              \* last record was out of date when it was made
  requests,   \* what each request thread does, and its job
  worker,     \* the request whose job runs, "fast", or None
  ticks,      \* fast readings that wait in the queue
  loop,       \* the collector thread
  paused,     \* LiveCollector._paused; LiveState.operation_in_progress goes with it
  view,       \* LiveState.interfaces
  pending,    \* ConfigSaveTracker._pending
  differs     \* ConfigSaveTracker._fingerprint_differs

switch == <<running, startup, reachable, unseen>>
collector == <<ticks, loop, paused>>
tracker == <<pending, differs>>
vars == <<switch, requests, worker, collector, view, tracker>>

Kinds == {"change", "save", "compare"}

IdleRequest == [pc |-> "idle", kind |-> "none", job |-> "none", read |-> None,
                outcome |-> FALSE, current |-> FALSE]

Init ==
  /\ running \in Contents /\ startup \in Contents
  /\ reachable = TRUE /\ unseen = FALSE
  /\ requests = [r \in Requests |-> IdleRequest]
  /\ worker = None
  /\ ticks = 0 /\ loop = "idle" /\ paused = FALSE
  /\ view = None
  /\ pending = 0 /\ differs = "unknown"

Busy(r) == requests[r].pc # "idle" \/ requests[r].job # "none"

-----------------------------------------------------------------------------
(* Request handlers *)

\* Only a change marks the operation and pauses the collector.
Post(r, kind) ==
  /\ ~Busy(r)
  /\ kind = "change" => pending < MaxPending
  /\ requests' = [requests EXCEPT ![r] = [IdleRequest EXCEPT
                    !.pc = "waiting", !.kind = kind, !.job = "queued"]]
  /\ paused' = (paused \/ kind = "change")
  /\ UNCHANGED <<switch, worker, ticks, loop, view, tracker>>

\* The end of a handler: a change goes through its finally block.
Ended(r) == IF requests[r].kind = "change" THEN "finally" ELSE "idle"

\* The job's answer is late: the handler raises, the job stays in the queue.
GiveUp(r) ==
  /\ requests[r].pc = "waiting"
  /\ requests' = [requests EXCEPT ![r].pc = Ended(r)]
  /\ UNCHANGED <<switch, worker, collector, view, tracker>>

RecordChange == pending' = pending + 1 /\ differs' = "yes"

RecordSave == pending' = 0 /\ differs' = "no"

RecordFingerprints(equal) ==
  /\ differs' = IF equal THEN "no" ELSE "yes"
  /\ pending' = IF equal THEN 0 ELSE pending

\* Mutant of Record: a save counts whatever IOS said about it.
RecordUnread(r) ==
  LET request == requests[r]
      basis == request.kind = "compare" \/ (request.kind = "save" /\ request.outcome)
  IN
  /\ request.pc = "returned"
  /\ CASE request.kind = "change" /\ request.outcome -> RecordChange
       [] request.kind = "save"                      -> RecordSave
       [] request.kind = "compare"                   -> RecordFingerprints(request.outcome)
       [] OTHER                                      -> UNCHANGED tracker
  /\ unseen' = IF basis THEN ~request.current ELSE unseen
  /\ requests' = [requests EXCEPT ![r] = [IdleRequest EXCEPT !.pc = Ended(r)]]
  /\ UNCHANGED <<running, startup, reachable, worker, collector, view>>

\* outcome: requiresSave of a change, success of a save, equal digests.
Record(r) ==
  LET request == requests[r]
      basis == request.kind = "compare" \/ (request.kind = "save" /\ request.outcome)
  IN
  /\ request.pc = "returned"
  /\ CASE request.kind = "change" /\ request.outcome -> RecordChange
       [] request.kind = "save" /\ request.outcome   -> RecordSave
       [] request.kind = "compare"                   -> RecordFingerprints(request.outcome)
       [] OTHER                                      -> UNCHANGED tracker
  /\ unseen' = IF basis THEN ~request.current ELSE unseen
  /\ requests' = [requests EXCEPT ![r] = [IdleRequest EXCEPT !.pc = Ended(r)]]
  /\ UNCHANGED <<running, startup, reachable, worker, collector, view>>

\* Mutant of Leave: the collector stays paused.
LeavePaused(r) ==
  /\ requests[r].pc = "finally"
  /\ requests' = [requests EXCEPT ![r].pc = IF ticks = 0 THEN "reading" ELSE "idle"]
  /\ UNCHANGED <<switch, worker, collector, view, tracker>>

\* The finally block; collect_fast first looks for a reading that waits ...
Leave(r) ==
  /\ requests[r].pc = "finally"
  /\ paused' = FALSE
  /\ requests' = [requests EXCEPT ![r].pc = IF ticks = 0 THEN "reading" ELSE "idle"]
  /\ UNCHANGED <<switch, worker, ticks, loop, view, tracker>>

\* ... and submits its own.
LeaveReading(r) ==
  /\ requests[r].pc = "reading"
  /\ ticks' = ticks + 1
  /\ requests' = [requests EXCEPT ![r].pc = "idle"]
  /\ UNCHANGED <<switch, worker, loop, paused, view, tracker>>

HandlerStep(r) == Record(r) \/ Leave(r) \/ LeaveReading(r)

-----------------------------------------------------------------------------
(* The collector thread *)

\* A tick is dropped when one of its kind waits already.
LoopTick ==
  /\ loop = "idle" /\ ~paused
  /\ ticks = 0
  /\ loop' = "submitting"
  /\ UNCHANGED <<switch, requests, worker, ticks, paused, view, tracker>>

LoopSubmit ==
  /\ loop = "submitting"
  /\ ticks' = ticks + 1
  /\ loop' = "idle"
  /\ UNCHANGED <<switch, requests, worker, paused, view, tracker>>

-----------------------------------------------------------------------------
(* The device worker: one job at a time, operator requests first *)

Take(r) ==
  /\ worker = None
  /\ requests[r].job = "queued"
  /\ worker' = r
  /\ requests' = [requests EXCEPT ![r].job = "running"]
  /\ UNCHANGED <<switch, collector, view, tracker>>

\* Mutant of TakeFast: a reading is taken although none waits.
TakeFastBlind ==
  /\ worker = None
  /\ \A r \in Requests : requests[r].job # "queued"
  /\ worker' = "fast"
  /\ ticks' = ticks - 1
  /\ UNCHANGED <<switch, requests, loop, paused, view, tracker>>

TakeFast ==
  /\ worker = None
  /\ ticks > 0
  /\ \A r \in Requests : requests[r].job # "queued"
  /\ worker' = "fast"
  /\ ticks' = ticks - 1
  /\ UNCHANGED <<switch, requests, loop, paused, view, tracker>>

\* The job of r returns outcome, if its request still waits.
Answered(r, outcome, current) ==
  LET request == requests[r]
  IN  [requests EXCEPT ![r] =
         IF request.pc = "waiting"
           THEN [request EXCEPT !.pc = "returned", !.job = "none", !.read = None,
                                !.outcome = outcome, !.current = current]
           ELSE [IdleRequest EXCEPT !.pc = request.pc]]

Answer(r, outcome, current) ==
  requests' = Answered(r, outcome, current) /\ worker' = None

\* Whatever has been read of the switch so far is no longer current.
Outdated(threads) == [r \in Requests |-> [threads[r] EXCEPT !.current = FALSE]]

\* The job of r raises, or ends without a result: no outcome is recorded.
Failed(r) ==
  LET pc == requests[r].pc
  IN  [requests EXCEPT ![r] = [IdleRequest EXCEPT
                                 !.pc = IF pc = "waiting" THEN Ended(r) ELSE pc]]

Fail(r) == worker = r /\ requests' = Failed(r) /\ worker' = None

\* The job leaves this content; if it is new, what others have read or saved is
\* no longer current.
Leaves(content, threads) ==
  /\ reachable \/ content = running
  /\ running' = content
  /\ requests' = IF content = running THEN threads ELSE Outdated(threads)
  /\ worker' = None

\* A bounded operation.  A result that needs no save changed nothing; but the
\* execution may also raise, or end without a result, after it has changed the
\* configuration, and then nothing is recorded.
Change(r) ==
  /\ worker = r /\ requests[r].kind = "change"
  /\ \E content \in Contents :
       \/ \E save \in BOOLEAN :
            /\ content # running => save
            /\ Leaves(content, Answered(r, save, FALSE))
            /\ unseen' = (unseen \/ (content # running /\ requests[r].pc # "waiting"))
       \/ /\ Leaves(content, Failed(r))
          /\ unseen' = (unseen \/ content # running)
  /\ UNCHANGED <<startup, reachable, collector, view, tracker>>

\* write memory; when it fails half-way nobody knows whether it was done.
Write(r) ==
  /\ worker = r /\ requests[r].kind = "save"
  /\ \/ /\ reachable
        /\ startup' = running
        /\ Answer(r, TRUE, TRUE) \/ Fail(r)
     \/ /\ UNCHANGED startup
        /\ Answer(r, FALSE, FALSE) \/ Fail(r)
  /\ UNCHANGED <<running, reachable, unseen, collector, view, tracker>>

\* The two configurations are read one after the other.
CompareRunning(r) ==
  /\ worker = r /\ requests[r].kind = "compare"
  /\ requests[r].read = None
  /\ \/ /\ reachable
        /\ requests' = [requests EXCEPT ![r].read = running, ![r].current = TRUE]
        /\ UNCHANGED worker
     \/ Fail(r)
  /\ UNCHANGED <<switch, collector, view, tracker>>

CompareStartup(r) ==
  /\ worker = r /\ requests[r].kind = "compare"
  /\ requests[r].read # None
  /\ \/ /\ reachable
        /\ Answer(r, requests[r].read = startup, requests[r].current)
     \/ Fail(r)
  /\ UNCHANGED <<switch, collector, view, tracker>>

Fast ==
  /\ worker = "fast"
  /\ view' = IF reachable THEN running ELSE view
  /\ worker' = None
  /\ UNCHANGED <<switch, requests, collector, tracker>>

WorkerStep ==
  \/ \E r \in Requests : \/ Take(r) \/ Change(r) \/ Write(r)
                         \/ CompareRunning(r) \/ CompareStartup(r)
  \/ TakeFast
  \/ Fast

-----------------------------------------------------------------------------
(* The world outside *)

\* Somebody changes or saves the configuration at another console.
Console ==
  /\ running' \in Contents /\ startup' \in Contents
  /\ unseen' = TRUE
  /\ requests' = Outdated(requests)
  /\ UNCHANGED <<reachable, worker, collector, view, tracker>>

Reach == /\ reachable' = ~reachable
         /\ UNCHANGED <<running, startup, unseen, requests, worker, collector,
                        view, tracker>>

\* The process restarts; nothing of this module is persistent.
Restart ==
  /\ requests' = [r \in Requests |-> IdleRequest]
  /\ worker' = None
  /\ ticks' = 0 /\ loop' = "idle" /\ paused' = FALSE
  /\ view' = None
  /\ pending' = 0 /\ differs' = "unknown"
  /\ UNCHANGED switch

Next ==
  \/ \E r \in Requests :
       (\E kind \in Kinds : Post(r, kind)) \/ GiveUp(r) \/ HandlerStep(r)
  \/ LoopTick \/ LoopSubmit
  \/ WorkerStep
  \/ Console \/ Reach \/ Restart

\* Every thread of the process keeps running.
Spec == /\ Init /\ [][Next]_vars
        /\ WF_vars(WorkerStep)
        /\ WF_vars(LoopTick \/ LoopSubmit)
        /\ \A r \in Requests : WF_vars(HandlerStep(r))

-----------------------------------------------------------------------------
(* Properties *)

TypeOK ==
  /\ running \in Contents /\ startup \in Contents
  /\ reachable \in BOOLEAN /\ unseen \in BOOLEAN
  /\ requests \in [Requests ->
       [pc : {"idle", "waiting", "returned", "finally", "reading"},
        kind : Kinds \cup {"none"}, job : {"none", "queued", "running"},
        read : Contents \cup {None}, outcome : BOOLEAN, current : BOOLEAN]]
  /\ worker \in Requests \cup {"fast", None}
  /\ ticks \in Nat /\ loop \in {"idle", "submitting"} /\ paused \in BOOLEAN
  /\ view \in Contents \cup {None}
  /\ pending \in Nat /\ differs \in {"unknown", "yes", "no"}

ReportsMatch == differs = "no" /\ pending = 0

\* A change was answered, and its handler is about to record it.
Unrecorded(r) == requests[r].pc = "returned" /\ requests[r].kind = "change"

\* "The running configuration matches the startup configuration": when the
\* tracker reports so, whatever requests overlap, a reboot of the switch loses
\* nothing.  Excepted are a change that is about to be recorded, and what the
\* code cannot see or does not record: a change at another console, a change
\* whose handler had given up or whose execution raised, and a save or
\* comparison that is recorded after a later change was made.
ReportedMatchIsTrue ==
  ReportsMatch /\ ~unseen /\ (\A r \in Requests : ~Unrecorded(r))
    => running = startup

\* Whatever the handlers did before, when the switch answers, the operator is
\* quiet and the process stays up, the live view is current again and again.
ViewCatchesUp ==
  <>[](reachable /\ \A r \in Requests : ~Busy(r)) /\ <>[][~Restart]_vars
    => []<>(view = running)

=============================================================================
