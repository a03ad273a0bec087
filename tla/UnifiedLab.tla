------------------------------ MODULE UnifiedLab ------------------------------
(***************************************************************************)
(* The Meraki half of the unified lab: backend/app/unified_service.py over *)
(* the snapshot row of unified_store.py, the API key in the keyring and    *)
(* the selected network in its file.  Requests change key and selection,   *)
(* test the connection and refresh; a background thread refreshes every    *)
(* five minutes.  Each request runs on a thread of its own.                *)
(*                                                                         *)
(* A refresh holds the collection lock.  A test of the connection and the  *)
(* clearing of the key do not, although all three store health by reading  *)
(* the row and writing it back.                                            *)
(***************************************************************************)
EXTENDS Naturals

CONSTANTS
  Requests,     \* request threads
  Loops,        \* background threads that may ever be created
  Networks,     \* networks that can be selected
  Stored,       \* what the selection file may hold at first
  MaxRequests,  \* bound on the requests of a behaviour
  MaxMishaps,   \* bound on collections that bring no evidence, failures of
                \* the SQLite store and restarts of the process together
  ClearsAlone,  \* nobody changes the settings while the key is cleared
  None          \* no network, no thread, no evidence

ASSUME UnifiedLabAssumption ==
  /\ ClearsAlone \in BOOLEAN
  /\ {MaxRequests, MaxMishaps} \subseteq Nat
  /\ Stored \subseteq Networks \cup {None}
  /\ Requests \cap Loops = {} /\ Loops # {}
  /\ None \notin Requests \cup Loops \cup Networks
  /\ None \notin [network : Networks, copy : {0, 1}]

VARIABLES
  key,        \* an API key is stored
  selection,  \* the selected network
  stopping,   \* the stop event
  thread,     \* the thread that the service knows
  lock,       \* who holds the collection lock
  row,        \* the row of the provider in provider_snapshots
  pc,         \* where each thread is
  memo,       \* what each thread has read or collected
  latest,     \* an onlooker's note: the evidence that was collected last
  spent       \* how much of each bound is used

setup == <<key, selection>>
control == <<stopping, thread>>
vars == <<setup, control, lock, row, pc, memo, latest, spent>>

Workers == Requests \cup Loops

\* Two copies are enough to tell a collection from the one before it.
Evidence == [network : Networks, copy : {0, 1}] \cup {None}
Collected(n) ==
  [network |-> n, copy |-> IF latest = None THEN 0 ELSE 1 - latest.copy]

\* "answering" stands for healthy, partial and rate-limited with evidence,
\* "failing" for unavailable, partial and rate-limited without any.
Healths == {"none", "not-configured", "answering", "failing"}

Forgotten == [key |-> FALSE, network |-> None, evidence |-> None,
              health |-> "none", fresh |-> FALSE]

RequestSteps == {"idle", "start", "start_key", "start_selection", "start_event",
  "start_create", "start_launch", "join", "clear"}
RefreshSteps == {"lock", "load_selection", "collect", "read", "write"}
LoopSteps == {"none", "created", "top", "wait", "ended", "killed"}

Alive(l) == l # None /\ pc[l] \notin {"none", "created", "ended", "killed"}
Mishap ==
  /\ spent.mishaps < MaxMishaps
  /\ spent' = [spent EXCEPT !.mishaps = @ + 1]

\* A new process starts a background thread when it can.
FirstThread == IF key /\ selection # None THEN CHOOSE l \in Loops : TRUE ELSE None
FirstSteps == [w \in Workers |-> IF w \in Requests THEN "idle"
                                 ELSE IF w = FirstThread THEN "top" ELSE "none"]

Init ==
  /\ key \in BOOLEAN /\ selection \in Stored
  /\ stopping = FALSE /\ lock = None
  /\ thread = FirstThread /\ pc = FirstSteps
  /\ memo = [w \in Workers |-> Forgotten]
  /\ row = [evidence |-> None, health |-> "none"] /\ latest = None
  /\ spent = [requests |-> 0, mishaps |-> 0]

-----------------------------------------------------------------------------
(* Steps of one thread *)

Go(w, to) == pc' = [pc EXCEPT ![w] = to]
Note(w, m) == memo' = [memo EXCEPT ![w] = m]
At(w, step) == pc[w] = step

\* The method returns: a request is answered, a loop waits for its next round.
Return(w) ==
  /\ Go(w, IF w \in Requests THEN "idle" ELSE "wait")
  /\ Note(w, Forgotten)

\* Health alone is stored: the evidence comes from the row, see Read.
KeepEvidence(w, health) ==
  /\ Note(w, [Forgotten EXCEPT !.health = health])
  /\ Go(w, "read")

-----------------------------------------------------------------------------
(* A refresh, by a request or by a loop *)

\* The lock, and the key.
Acquire(w) ==
  /\ At(w, "lock") /\ lock = None
  /\ lock' = w
  /\ Note(w, [Forgotten EXCEPT !.key = key])
  /\ Go(w, "load_selection")
  /\ UNCHANGED <<setup, control, row, latest, spent>>

LoadSelection(w) ==
  /\ At(w, "load_selection")
  /\ IF memo[w].key /\ selection # None
     THEN Note(w, [memo[w] EXCEPT !.network = selection]) /\ Go(w, "collect")
     ELSE KeepEvidence(w, "not-configured")
  /\ UNCHANGED <<setup, control, lock, row, latest, spent>>

\* The collection brings evidence, or is healthy and brings none; either way
\* it takes the place of the evidence in the row.
Collect(w) ==
  /\ At(w, "collect")
  /\ Note(w, [memo[w] EXCEPT !.evidence = Collected(memo[w].network),
                             !.health = "answering", !.fresh = TRUE])
  /\ Go(w, "write")
  /\ UNCHANGED <<setup, control, lock, row, latest, spent>>

\* The inventory cannot be read, the collector raises, or a partial
\* collection brings no device: the evidence is kept.
CollectNothing(w) ==
  /\ At(w, "collect") /\ Mishap
  /\ KeepEvidence(w, "failing")
  /\ UNCHANGED <<setup, control, lock, row, latest>>

-----------------------------------------------------------------------------
(* Storing: save_source_health reads the row, save_provider_state writes it *)

Read(w) ==
  /\ At(w, "read")
  /\ Note(w, [memo[w] EXCEPT !.evidence = row.evidence])
  /\ Go(w, "write")
  /\ UNCHANGED <<setup, control, lock, row, latest, spent>>

\* Mutant of Release: the lock is not given back.
ReleaseKept(w) == lock' = lock

Release(w) == lock' = IF lock = w THEN None ELSE lock

Write(w) ==
  /\ At(w, "write")
  /\ row' = [evidence |-> memo[w].evidence, health |-> memo[w].health]
  /\ latest' = IF memo[w].fresh THEN memo[w].evidence ELSE latest
  /\ Release(w)
  /\ Return(w)
  /\ UNCHANGED <<setup, control, spent>>

\* Mutant of StoreFails: the lock outlives the exception.
StoreFailsLocked(w) ==
  /\ pc[w] \in {"read", "write"} /\ Mishap
  /\ Go(w, IF w \in Requests THEN "idle" ELSE "killed")
  /\ Note(w, Forgotten)
  /\ UNCHANGED <<setup, control, lock, row, latest>>

\* The database fails: a request is answered with an error; nothing catches
\* the exception in the background thread.
StoreFails(w) ==
  /\ pc[w] \in {"read", "write"} /\ Mishap
  /\ Release(w)
  /\ Go(w, IF w \in Requests THEN "idle" ELSE "killed")
  /\ Note(w, Forgotten)
  /\ UNCHANGED <<setup, control, row, latest>>

-----------------------------------------------------------------------------
(* The background thread *)

\* Mutant of LoopTop: one round only.
LoopTopOnce(l) ==
  /\ pc[l] \in {"top", "wait"}
  /\ Go(l, IF stopping \/ pc[l] = "wait" THEN "ended" ELSE "lock")
  /\ UNCHANGED <<setup, control, lock, row, memo, latest, spent>>

\* A new thread looks at the event; one that waits, when the time is up or
\* when the event is set.
LoopTop(l) ==
  /\ pc[l] \in {"top", "wait"}
  /\ Go(l, IF stopping THEN "ended" ELSE "lock")
  /\ UNCHANGED <<setup, control, lock, row, memo, latest, spent>>

-----------------------------------------------------------------------------
(* start *)

StartCheck(r) ==
  /\ At(r, "start")
  /\ Go(r, IF Alive(thread) THEN "idle" ELSE "start_key")
  /\ UNCHANGED <<setup, control, lock, row, memo, latest, spent>>

StartKey(r) ==
  /\ At(r, "start_key")
  /\ Go(r, IF key THEN "start_selection" ELSE "idle")
  /\ UNCHANGED <<setup, control, lock, row, memo, latest, spent>>

StartSelection(r) ==
  /\ At(r, "start_selection")
  /\ Go(r, IF selection # None THEN "start_event" ELSE "idle")
  /\ UNCHANGED <<setup, control, lock, row, memo, latest, spent>>

\* Mutant of StartEvent: the event of the last stop stays set.
StartEventKept(r) ==
  /\ At(r, "start_event")
  /\ Go(r, "start_create")
  /\ UNCHANGED <<setup, control, lock, row, memo, latest, spent>>

StartEvent(r) ==
  /\ At(r, "start_event")
  /\ stopping' = FALSE
  /\ Go(r, "start_create")
  /\ UNCHANGED <<setup, thread, lock, row, memo, latest, spent>>

\* Threads that do not run and that the service does not know.
Unused == {l \in Loops \ {thread} : ~Alive(l)}

StartCreate(r) ==
  /\ At(r, "start_create") /\ Unused # {}
  /\ LET l == CHOOSE l \in Unused : TRUE
     IN /\ thread' = l
        /\ pc' = [pc EXCEPT ![r] = "start_launch", ![l] = "created"]
  /\ UNCHANGED <<setup, stopping, lock, row, memo, latest, spent>>

\* Another request may have replaced the thread, or removed it, by now: then
\* start() raises, and the thread that was created here never runs.
StartLaunch(r) ==
  /\ At(r, "start_launch")
  /\ pc' = IF thread # None /\ pc[thread] = "created"
           THEN [pc EXCEPT ![r] = "idle", ![thread] = "top"]
           ELSE [pc EXCEPT ![r] = "idle"]
  /\ UNCHANGED <<setup, control, lock, row, memo, latest, spent>>

-----------------------------------------------------------------------------
(* stop *)

\* After the event: the thread has ended, or five seconds are over.
StopJoined(r) ==
  /\ At(r, "join")
  /\ thread' = None
  /\ Go(r, "clear")
  /\ UNCHANGED <<setup, stopping, lock, row, memo, latest, spent>>

-----------------------------------------------------------------------------
(* Requests *)

Arrive(r) ==
  /\ At(r, "idle") /\ spent.requests < MaxRequests
  /\ spent' = [spent EXCEPT !.requests = @ + 1]

\* One settings page disables its other buttons while it waits for an
\* answer; several pages may overlap.  The refresh is on another panel.
Clearing(r) == pc[r] \in {"join", "clear"}
Starting(r) == pc[r] \in RequestSteps \ {"idle", "join", "clear"}
Offered(r) ==
  /\ Arrive(r)
  /\ ClearsAlone => \A q \in Requests : ~Clearing(q)

RefreshRequest(r) ==
  /\ Arrive(r)
  /\ Go(r, "lock")
  /\ UNCHANGED <<setup, control, lock, row, memo, latest>>

SaveKey(r) ==
  /\ Offered(r)
  /\ key' = TRUE
  /\ Go(r, "start")
  /\ UNCHANGED <<selection, control, lock, row, memo, latest>>

SaveSelection(r, n) ==
  /\ Offered(r)
  /\ selection' = n
  /\ Go(r, "start")
  /\ UNCHANGED <<key, control, lock, row, memo, latest>>

\* Mutant of ClearRequest: the thread is forgotten but never told.
ClearRequestSilent(r) ==
  /\ Offered(r)
  /\ ClearsAlone => \A q \in Requests : ~Starting(q)
  /\ Go(r, "join")
  /\ UNCHANGED <<setup, control, lock, row, memo, latest>>

\* stop() comes first.
ClearRequest(r) ==
  /\ Offered(r)
  /\ ClearsAlone => \A q \in Requests : ~Starting(q)
  /\ stopping' = TRUE
  /\ Go(r, "join")
  /\ UNCHANGED <<setup, thread, lock, row, memo, latest>>

ClearKey(r) ==
  /\ At(r, "clear")
  /\ key' = FALSE
  /\ KeepEvidence(r, "not-configured")
  /\ UNCHANGED <<selection, control, lock, row, latest, spent>>

\* Without a key there is nothing to test and nothing to store.
TestConnection(r) ==
  /\ Offered(r) /\ key
  /\ \E health \in {"answering", "failing"} : KeepEvidence(r, health)
  /\ UNCHANGED <<setup, control, lock, row, latest>>

-----------------------------------------------------------------------------
\* The process ends in any state; key, selection and row survive it.
Restart ==
  /\ Mishap
  /\ stopping' = FALSE /\ lock' = None
  /\ thread' = FirstThread /\ pc' = FirstSteps
  /\ memo' = [w \in Workers |-> Forgotten]
  /\ UNCHANGED <<setup, row, latest>>

RefreshStep(w) ==
  \/ LoadSelection(w) \/ Collect(w) \/ CollectNothing(w)
  \/ Read(w) \/ Write(w)
RequestStep(r) ==
  \/ StartCheck(r) \/ StartKey(r) \/ StartSelection(r) \/ StartEvent(r)
  \/ StartCreate(r) \/ StartLaunch(r)
  \/ StopJoined(r) \/ ClearKey(r)

Next ==
  \/ \E w \in Workers : Acquire(w) \/ RefreshStep(w) \/ StoreFails(w)
  \/ \E l \in Loops : LoopTop(l)
  \/ \E r \in Requests :
       \/ RequestStep(r)
       \/ RefreshRequest(r) \/ SaveKey(r) \/ ClearRequest(r) \/ TestConnection(r)
       \/ \E n \in Networks : SaveSelection(r, n)
  \/ Restart

\* Calls return or time out.  The lock is not fair, but whoever is not in a
\* refresh waits at least a minute before the next one.
Fairness ==
  /\ \A w \in Workers : WF_vars(RefreshStep(w))
  /\ \A l \in Loops : WF_vars(LoopTop(l) \/ Acquire(l))
  /\ \A r \in Requests : WF_vars(RequestStep(r)) /\ SF_vars(Acquire(r))

Spec == Init /\ [][Next]_vars /\ Fairness

-----------------------------------------------------------------------------
(* Properties *)

Memo == [key : BOOLEAN, network : Networks \cup {None}, evidence : Evidence,
         health : Healths, fresh : BOOLEAN]

\* Every variable has its type, the lock is held by a thread that is in a
\* refresh, and whoever collects knows its network (refresh_meraki).
TypeOK ==
  /\ key \in BOOLEAN /\ selection \in Networks \cup {None}
  /\ stopping \in BOOLEAN /\ thread \in Loops \cup {None}
  /\ lock \in Workers \cup {None}
  /\ lock # None => pc[lock] \in RefreshSteps \ {"lock"}
  /\ row \in [evidence : Evidence, health : Healths] /\ latest \in Evidence
  /\ pc \in [Workers -> RequestSteps \cup RefreshSteps \cup LoopSteps]
  /\ memo \in [Workers -> Memo]
  /\ \A w \in Workers : pc[w] = "collect" => memo[w].network # None

Quiet == \A r \in Requests : pc[r] = "idle"
Configured == key /\ selection # None

\* Once both halves of the setup are stored, in whichever order and by
\* whichever requests, a background thread is polling: the two starts, each
\* of which looks at the half it did not store, cannot miss each other.  Only
\* a failure of the store silences the thread (start, save_api_key,
\* save_selection, clear_api_key).
ConfiguredIsPolled ==
  Quiet /\ Configured =>
    /\ thread # None
    /\ (Alive(thread) /\ ~stopping) \/ pc[thread] = "killed"

\* After the key is cleared no thread goes on polling: those that the five
\* seconds of stop() did not wait for will still see the event.
ClearedIsNotPolled ==
  Quiet /\ ~key => stopping \/ \A l \in Loops : ~Alive(l)

\* However requests and collections overlapped, once the setup rests, the row
\* comes to hold the last evidence, and that of the selected network (refresh
\* by the background loop).
SelectionIsShown ==
  <>[](Configured /\ \A l \in Loops : pc[l] # "killed")
    => <>[](row.evidence = latest /\ latest # None /\ latest.network = selection)

\* Every request is answered: whoever waits for the collection lock gets it,
\* also after a failure inside a refresh.
RequestsAreAnswered == []<>Quiet

=============================================================================
