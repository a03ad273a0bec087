---------------------------- MODULE DeviceSession ----------------------------
(***************************************************************************)
(* The device session of backend/app/device_session.py: one worker thread  *)
(* owns the SSH session and runs the jobs that other threads submit, by    *)
(* priority.  It opens the session when a job needs one, drops it when it  *)
(* finds it dead, waits between failed attempts, and on shutdown refuses   *)
(* whatever is still queued.                                               *)
(*                                                                         *)
(* The session itself is external: it may break at any moment, and how the *)
(* worker learns of it depends on the transport (switch_client.py).        *)
(***************************************************************************)
EXTENDS Naturals, Sequences

CONSTANTS
  Jobs,        \* jobs that threads submit, each again when it is settled
  Ticks,       \* those of the collector, which never stops submitting them
  Priority,    \* Priority[j]: a lower number runs first
  Pill,        \* the job that stop() puts into the queue
  Transports,  \* transports the switch may be reached over
  None         \* no job, no session

ASSUME DeviceSessionAssumption ==
  /\ Ticks \subseteq Jobs
  /\ Priority \in [Jobs -> 0 .. 5]
  /\ Pill \notin Jobs /\ None \notin Jobs \cup {Pill}
  /\ Transports \subseteq {"netmiko", "legacy"}
  /\ None \notin [transport : Transports, condition : {"up", "broken", "down"}]

VARIABLES
  slot,       \* slot[j]: the future of job j
  queue,      \* the queued jobs in the order of their submission
  worker,     \* where the worker thread is, and its job
  client,     \* the session, or None
  state,      \* the connection state the interface shows
  reconnects, \* a session has been lost before
  cooling,    \* the next attempt to connect is not due yet
  stopping,   \* the event that stop() sets
  usable      \* reachable, credentials stored, host key unchanged

session == <<client, state, reconnects, cooling>>
vars == <<slot, queue, worker, session, stopping, usable>>

Settled == {"result", "error"}

Init ==
  /\ slot = [j \in Jobs |-> "idle"]
  /\ queue = <<>>
  /\ worker = [pc |-> "loop", job |-> None]
  /\ client = None /\ state = "offline"
  /\ reconnects = FALSE /\ cooling = FALSE
  /\ stopping = "no"
  /\ usable \in BOOLEAN

-----------------------------------------------------------------------------
(* Threads that submit jobs *)

\* submit looks at the event ...
Admit(j) ==
  /\ slot[j] = "idle"
  /\ slot' = [slot EXCEPT ![j] = IF stopping = "no" THEN "admitted" ELSE "error"]
  /\ UNCHANGED <<queue, worker, session, stopping, usable>>

\* ... and puts the job into the queue.
Put(j) ==
  /\ slot[j] = "admitted"
  /\ slot' = [slot EXCEPT ![j] = "queued"]
  /\ queue' = Append(queue, j)
  /\ UNCHANGED <<worker, session, stopping, usable>>

\* Whoever waited for the answer has it; a caller that gave up does not care.
Collect(j) ==
  /\ slot[j] \in Settled
  /\ slot' = [slot EXCEPT ![j] = "idle"]
  /\ UNCHANGED <<queue, worker, session, stopping, usable>>

Stop ==
  /\ stopping = "no"
  /\ stopping' = "set"
  /\ UNCHANGED <<slot, queue, worker, session, usable>>

StopPut ==
  /\ stopping = "set"
  /\ stopping' = "pill"
  /\ queue' = Append(queue, Pill)
  /\ UNCHANGED <<slot, worker, session, usable>>

-----------------------------------------------------------------------------
(* The worker thread *)

\* The pill has the priority of a transaction.
Rank(e) == IF e = Pill THEN 0 ELSE Priority[e]

\* Mutant of First: a plain queue, first come, first served.
FirstCome(i) == \A k \in DOMAIN queue : i <= k

\* The queue entry that the priority queue hands out next.
First(i) == \A k \in DOMAIN queue :
              \/ Rank(queue[i]) < Rank(queue[k])
              \/ Rank(queue[i]) = Rank(queue[k]) /\ i <= k

Without(i) == SubSeq(queue, 1, i - 1) \o SubSeq(queue, i + 1, Len(queue))

\* Mutant of Alive: a session that was opened is alive.
AliveOnceOpen(c) == c # None

\* is_alive: Netmiko asks its transport, which in the end notices that the
\* peer is gone; the legacy client only knows that it has been opened.
Alive(c) == c # None /\ (c.transport = "netmiko" => c.condition # "down")

Goto(pc, job) == worker' = [pc |-> pc, job |-> job]

\* The head of the loop; leaving it closes the session.
Loop ==
  /\ worker.pc = "loop"
  /\ \/ /\ stopping = "no"
        /\ Goto("waiting", None)
        /\ UNCHANGED client
     \/ /\ stopping # "no"
        /\ Goto("draining", None)
        /\ client' = None
  /\ UNCHANGED <<slot, queue, state, reconnects, cooling, stopping, usable>>

\* Mutant of Take: the job stays in the queue while it runs.
TakePeeks ==
  /\ worker.pc = "waiting"
  /\ \E i \in DOMAIN queue :
       /\ First(i) /\ queue[i] # Pill
       /\ Goto("ensure", queue[i])
       /\ slot' = [slot EXCEPT ![queue[i]] = "running"]
  /\ UNCHANGED <<queue, session, stopping, usable>>

\* Mutant of Take: the pill is taken for a job.
TakeEverything ==
  /\ worker.pc = "waiting"
  /\ \E i \in DOMAIN queue :
       /\ First(i)
       /\ queue' = Without(i)
       /\ Goto("ensure", queue[i])
       /\ slot' = [j \in Jobs |-> IF j = queue[i] THEN "running" ELSE slot[j]]
  /\ UNCHANGED <<session, stopping, usable>>

Take ==
  /\ worker.pc = "waiting"
  /\ \E i \in DOMAIN queue :
       /\ First(i)
       /\ queue' = Without(i)
       /\ \/ /\ queue[i] = Pill
             /\ Goto("draining", None)
             /\ client' = None
             /\ UNCHANGED slot
          \/ /\ queue[i] # Pill
             /\ Goto("ensure", queue[i])
             /\ slot' = [slot EXCEPT ![queue[i]] = "running"]
             /\ UNCHANGED client
  /\ UNCHANGED <<state, reconnects, cooling, stopping, usable>>

\* The wait timed out.  After a long idle time a dead session is replaced.
Idle ==
  /\ worker.pc = "waiting"
  /\ queue = <<>>
  /\ \/ Goto("loop", None)
     \/ client # None /\ ~Alive(client) /\ Goto("ensure", None)
  /\ UNCHANGED <<slot, queue, session, stopping, usable>>

\* The worker settles the future of its job and goes on.
Settle(outcome) ==
  /\ slot' = IF worker.job = None THEN slot ELSE [slot EXCEPT ![worker.job] = outcome]
  /\ Goto("loop", None)

\* _ensure_client: a live session is kept, a dead one is closed; a new one is
\* opened unless the last failure is too recent.
Ensure ==
  /\ worker.pc = "ensure"
  /\ \/ /\ Alive(client)
        /\ Goto("running", worker.job)
        /\ UNCHANGED <<slot, session>>
     \/ /\ ~Alive(client)
        /\ client' = None
        /\ reconnects' = (reconnects \/ client # None)
        /\ \/ /\ cooling
              /\ state' = IF client = None THEN state ELSE "reconnecting"
              /\ Settle("error")
           \/ /\ ~cooling
              /\ state' = IF reconnects' THEN "reconnecting" ELSE "connecting"
              /\ Goto("connecting", worker.job)
              /\ UNCHANGED slot
        /\ UNCHANGED cooling
  /\ UNCHANGED <<queue, stopping, usable>>

\* get_switch_client succeeds or raises; a job without a session is refused.
Connect ==
  /\ worker.pc = "connecting"
  /\ \/ /\ usable
        /\ \E t \in Transports : client' = [transport |-> t, condition |-> "up"]
        /\ state' = "live" /\ cooling' = FALSE
        /\ Goto(IF worker.job = None THEN "loop" ELSE "running", worker.job)
        /\ UNCHANGED slot
     \/ /\ ~usable
        /\ state' = "offline" /\ cooling' = TRUE
        /\ Settle("error")
        /\ UNCHANGED client
  /\ UNCHANGED <<queue, reconnects, stopping, usable>>

\* Mutant of Run: a session that died under a job is closed silently.
RunSilently ==
  /\ worker.pc = "running"
  /\ \/ Settle("result") /\ UNCHANGED client
     \/ Settle("error") /\ client' = IF Alive(client) THEN client ELSE None
  /\ UNCHANGED <<queue, state, reconnects, cooling, stopping, usable>>

\* The job returns or raises.  Over a broken session Netmiko raises; the legacy
\* client may also return what it has, which is nothing.
Run ==
  /\ worker.pc = "running"
  /\ \/ /\ client.condition = "up" \/ client.transport = "legacy"
        /\ Settle("result")
        /\ UNCHANGED <<client, state>>
     \/ /\ Alive(client)
        /\ Settle("error")
        /\ UNCHANGED <<client, state>>
     \/ /\ ~Alive(client)
        /\ Settle("error")
        /\ client' = None /\ state' = "stale"
  /\ UNCHANGED <<queue, reconnects, cooling, stopping, usable>>

\* Mutant of Drain: the thread ends with jobs in the queue.
DrainNothing ==
  /\ worker.pc = "draining"
  /\ Goto("dead", None)
  /\ UNCHANGED <<slot, queue, session, stopping, usable>>

\* Nobody waits forever: what is still queued is refused, one by one.
Drain ==
  /\ worker.pc = "draining"
  /\ \/ /\ queue = <<>>
        /\ Goto("dead", None)
        /\ UNCHANGED <<slot, queue>>
     \/ \E i \in DOMAIN queue :
          /\ First(i)
          /\ queue' = Without(i)
          /\ slot' = IF queue[i] = Pill THEN slot
                                        ELSE [slot EXCEPT ![queue[i]] = "error"]
          /\ UNCHANGED worker
  /\ UNCHANGED <<session, stopping, usable>>

WorkerStep == Loop \/ Take \/ Idle \/ Ensure \/ Connect \/ Run \/ Drain

-----------------------------------------------------------------------------
(* The world outside *)

Cooled == /\ cooling
          /\ cooling' = FALSE
          /\ UNCHANGED <<slot, queue, worker, client, state, reconnects, stopping,
                         usable>>

Becomes(from, to) ==
  /\ client # None
  /\ client.condition = from
  /\ client' = [client EXCEPT !.condition = to]
  /\ UNCHANGED <<slot, queue, worker, state, reconnects, cooling, stopping, usable>>

\* The session breaks; sooner or later the operating system gives it up.
Break  == Becomes("up", "broken")
Notice == Becomes("broken", "down")

Use == /\ usable' = ~usable
       /\ UNCHANGED <<slot, queue, worker, session, stopping>>

Next ==
  \/ \E j \in Jobs : Admit(j) \/ Put(j) \/ Collect(j)
  \/ Stop \/ StopPut
  \/ WorkerStep
  \/ Cooled \/ Break \/ Notice \/ Use

\* The threads keep running, time passes, the collector keeps ticking, and a
\* broken connection is noticed; every job ends within its read timeouts.
Spec == /\ Init /\ [][Next]_vars
        /\ WF_vars(WorkerStep)
        /\ WF_vars(StopPut)
        /\ WF_vars(Cooled)
        /\ WF_vars(Notice)
        /\ \A j \in Jobs : WF_vars(Put(j)) /\ WF_vars(Collect(j))
        /\ \A j \in Ticks : WF_vars(Admit(j))

-----------------------------------------------------------------------------
(* Properties *)

Sessions == [transport : Transports, condition : {"up", "broken", "down"}]

TypeOK ==
  /\ slot \in [Jobs -> {"idle", "admitted", "queued", "running"} \cup Settled]
  /\ queue \in Seq(Jobs \cup {Pill})
  /\ worker \in [pc : {"loop", "waiting", "ensure", "connecting", "running",
                       "draining", "dead"},
                 job : Jobs \cup {None}]
  /\ client \in Sessions \cup {None}
  /\ state \in {"offline", "connecting", "live", "stale", "reconnecting"}
  /\ reconnects \in BOOLEAN /\ cooling \in BOOLEAN
  /\ stopping \in {"no", "set", "pill"}
  /\ usable \in BOOLEAN

\* The interface says LIVE exactly as long as the worker has a session: no way
\* of losing one, and no failed attempt, leaves a wrong state behind.
HonestState ==
  worker.pc \in {"loop", "waiting", "running"} => (state = "live" <=> client # None)

\* A future is settled once: what a caller has been told is never changed, and
\* the worker never dies of settling twice.
SettledOnce ==
  [][\A j \in Jobs : slot[j] \in Settled => slot'[j] \in {slot[j], "idle"}]_vars

\* No caller waits forever: what is queued when the worker is told to stop is
\* answered, unless it came too late for the worker to see it.
WaitersReleased ==
  \A j \in Jobs :
    slot[j] = "queued" /\ stopping # "no" /\ worker.pc # "dead" ~> slot[j] # "queued"

\* "A user waiting on a change never queues behind routine polling": however many
\* ticks wait, none is begun while a transaction is queued, and every transaction
\* is taken in the end.
UrgentIsServed ==
  /\ [][\A j, k \in Jobs :
           slot[j] = "queued" /\ Priority[j] < Priority[k] =>
             slot[k] = "running" \/ slot'[k] # "running"]_vars
  /\ \A j \in Jobs :
       slot[j] = "queued" /\ Priority[j] = 0 /\ worker.pc # "dead" ~> slot[j] # "queued"

\* The worker reconnects: however often the session breaks, once the switch can
\* be used for good a working session comes back, again and again.
SessionRecovers ==
  <>[](usable /\ stopping = "no")
    => []<>(client # None /\ client.condition = "up")

=============================================================================
