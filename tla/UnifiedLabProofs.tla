--------------------------- MODULE UnifiedLabProofs ---------------------------
(***************************************************************************)
(* What is proved of UnifiedLab for any requests, threads, networks and    *)
(* bounds: the types, and the two promises about the background thread.    *)
(***************************************************************************)
EXTENDS UnifiedLab, TLAPS

-----------------------------------------------------------------------------
(* Types *)

LEMMA FirstIsLoop == FirstThread \in Loops \cup {None}
BY UnifiedLabAssumption DEF FirstThread

LEMMA NothingForgotten == Forgotten \in Memo
BY DEF Forgotten, Memo, Evidence, Healths

LEMMA CollectedIsEvidence ==
  ASSUME latest \in Evidence, NEW n \in Networks
  PROVE  Collected(n) \in Evidence
BY UnifiedLabAssumption DEF Collected, Evidence

\* What a finished collection leaves in the memo of its thread.
LEMMA CollectionFits ==
  ASSUME NEW m \in Memo, NEW e \in Evidence
  PROVE  [m EXCEPT !.evidence = e, !.health = "answering", !.fresh = TRUE] \in Memo
<1>1. "answering" \in Healths
  BY DEF Healths
<1> QED
  BY <1>1 DEF Memo

LEMMA InitTypeOK == Init => TypeOK
<1> SUFFICES ASSUME Init PROVE TypeOK
  OBVIOUS
<1>1. /\ pc \in [Workers -> RequestSteps \cup RefreshSteps \cup LoopSteps]
      /\ \A w \in Workers : pc[w] # "collect"
  BY DEF Init, FirstSteps, RequestSteps, LoopSteps
<1>2. selection \in Networks \cup {None}
  BY UnifiedLabAssumption DEF Init
<1>3. row \in [evidence : Evidence, health : Healths] /\ latest \in Evidence
  BY DEF Init, Evidence, Healths
<1> QED
  BY <1>1, <1>2, <1>3, FirstIsLoop, NothingForgotten DEF Init, TypeOK

LEMMA NextTypeOK == TypeOK /\ [Next]_vars => TypeOK'
<1> SUFFICES ASSUME TypeOK, [Next]_vars PROVE TypeOK'
  OBVIOUS
<1> USE UnifiedLabAssumption DEF TypeOK, setup, control, Go, Note, At
<1>1. ASSUME NEW w \in Workers, Acquire(w) PROVE TypeOK'
  BY <1>1, NothingForgotten DEF Acquire, Memo, RefreshSteps, Forgotten
<1>2. ASSUME NEW w \in Workers, LoadSelection(w) PROVE TypeOK'
  BY <1>2, NothingForgotten DEF LoadSelection, KeepEvidence, Memo, RefreshSteps, Healths
<1>3. ASSUME NEW w \in Workers, Collect(w) PROVE TypeOK'
  <2>1. memo[w].network \in Networks
    BY <1>3 DEF Collect, Memo
  <2>2. Collected(memo[w].network) \in Evidence
    BY <2>1, CollectedIsEvidence
  <2>3. [memo[w] EXCEPT !.evidence = Collected(memo[w].network),
                        !.health = "answering", !.fresh = TRUE] \in Memo
    BY <2>2, CollectionFits
  <2>4. memo' \in [Workers -> Memo]
    BY <1>3, <2>3 DEF Collect
  <2>5. pc' = [pc EXCEPT ![w] = "write"] /\ pc[w] = "collect"
    BY <1>3 DEF Collect
  <2>6. \A v \in Workers : pc'[v] = "collect" => memo'[v].network # None
    BY <1>3, <2>5 DEF Collect
  <2> QED
    BY <1>3, <2>4, <2>5, <2>6 DEF Collect, RefreshSteps
<1>4. ASSUME NEW w \in Workers, CollectNothing(w) PROVE TypeOK'
  BY <1>4, NothingForgotten DEF CollectNothing, KeepEvidence, Memo, RefreshSteps, Healths
<1>5. ASSUME NEW w \in Workers, Read(w) PROVE TypeOK'
  BY <1>5 DEF Read, Memo, RefreshSteps
<1>6. ASSUME NEW w \in Workers, Write(w) PROVE TypeOK'
  BY <1>6, NothingForgotten DEF Write, Release, Return, Memo, RequestSteps, LoopSteps
<1>7. ASSUME NEW w \in Workers, StoreFails(w) PROVE TypeOK'
  BY <1>7, NothingForgotten DEF StoreFails, Release, RequestSteps, LoopSteps
<1>8. ASSUME NEW l \in Loops, LoopTop(l) PROVE TypeOK'
  BY <1>8 DEF LoopTop, Workers, RefreshSteps, LoopSteps
<1>9. ASSUME NEW r \in Requests, RequestStep(r) PROVE TypeOK'
  <2>1. CASE StartCheck(r) \/ StartKey(r) \/ StartSelection(r) \/ StartEvent(r)
    <3>1. PICK to \in {"idle", "start_key", "start_selection", "start_event",
                        "start_create"} : pc' = [pc EXCEPT ![r] = to]
      BY <2>1 DEF StartCheck, StartKey, StartSelection, StartEvent
    <3>2. /\ UNCHANGED <<key, selection, thread, lock, row, memo, latest>>
          /\ stopping' \in BOOLEAN
          /\ pc[r] \in RequestSteps
      BY <2>1 DEF StartCheck, StartKey, StartSelection, StartEvent, RequestSteps
    <3>3. to \in RequestSteps /\ to # "collect"
      BY DEF RequestSteps
    <3>4. pc[r] \notin RefreshSteps
      BY <3>2 DEF RequestSteps, RefreshSteps
    <3>5. r \in Workers
      BY DEF Workers
    <3> QED
      BY <3>1, <3>2, <3>3, <3>4, <3>5
  <2>2. CASE StartCreate(r)
    <3>1. PICK l \in Unused : thread' = l /\ pc' = [pc EXCEPT ![r] = "start_launch", ![l] = "created"]
      BY <2>2 DEF StartCreate
    <3> QED
      BY <2>2, <3>1 DEF StartCreate, Unused, Alive, Workers, RequestSteps, RefreshSteps, LoopSteps
  <2>3. CASE StartLaunch(r)
    BY <2>3 DEF StartLaunch, Workers, RequestSteps, RefreshSteps, LoopSteps
  <2>4. CASE StopJoined(r)
    BY <2>4 DEF StopJoined, Workers, RequestSteps, RefreshSteps
  <2>5. CASE ClearKey(r)
    BY <2>5, NothingForgotten DEF ClearKey, KeepEvidence, Workers, Memo, RefreshSteps, Healths
  <2> QED
    BY <1>9, <2>1, <2>2, <2>3, <2>4, <2>5 DEF RequestStep
<1>10. ASSUME NEW r \in Requests,
              RefreshRequest(r) \/ SaveKey(r) \/ (\E n \in Networks : SaveSelection(r, n))
       PROVE  TypeOK'
  <2>1. CASE RefreshRequest(r)
    BY <2>1 DEF RefreshRequest, Arrive, Workers, RequestSteps, RefreshSteps
  <2>2. CASE SaveKey(r)
    BY <2>2 DEF SaveKey, Offered, Arrive, Workers, RequestSteps, RefreshSteps
  <2>3. CASE \E n \in Networks : SaveSelection(r, n)
    BY <2>3 DEF SaveSelection, Offered, Arrive, Workers, RequestSteps, RefreshSteps
  <2> QED
    BY <1>10, <2>1, <2>2, <2>3
<1>11. ASSUME NEW r \in Requests, ClearRequest(r) \/ TestConnection(r) PROVE TypeOK'
  <2>1. CASE ClearRequest(r)
    BY <2>1 DEF ClearRequest, Offered, Arrive, Workers, RequestSteps, RefreshSteps
  <2>2. CASE TestConnection(r)
    <3>1. PICK health \in {"answering", "failing"} : KeepEvidence(r, health)
      BY <2>2 DEF TestConnection
    <3> QED
      BY <2>2, <3>1, NothingForgotten
      DEF TestConnection, KeepEvidence, Offered, Arrive, Workers, Memo, RefreshSteps, Healths
  <2> QED
    BY <1>11, <2>1, <2>2
<1>12. CASE Restart
  <2>1. /\ pc' \in [Workers -> RequestSteps \cup RefreshSteps \cup LoopSteps]
        /\ \A w \in Workers : pc'[w] # "collect"
    BY <1>12 DEF Restart, FirstSteps, RequestSteps, LoopSteps
  <2> QED
    BY <1>12, <2>1, FirstIsLoop, NothingForgotten DEF Restart
<1>13. CASE UNCHANGED vars
  BY <1>13 DEF vars
<1> QED
  BY <1>1, <1>2, <1>3, <1>4, <1>5, <1>6, <1>7, <1>8, <1>9, <1>10, <1>11, <1>12, <1>13
  DEF Next, RefreshStep

\* Every variable of the service keeps its type, and only a thread that is in
\* a refresh holds the collection lock (refresh_meraki).
THEOREM LabTypeCorrect == Spec => []TypeOK
BY InitTypeOK, NextTypeOK, PTL DEF Spec

-----------------------------------------------------------------------------
(* The background thread.  Looking at the setup and starting a thread are   *)
(* several steps; what carries them is that nobody can clear the key, and   *)
(* so set the event, while a start is under way.                            *)

Aware(r) == pc[r] \in {"start_selection", "start_event", "start_create", "start_launch"}
Served == thread # None /\ ((Alive(thread) /\ ~stopping) \/ pc[thread] = "killed")

PollingInv ==
  /\ \A r \in Requests : Clearing(r) => stopping /\ \A q \in Requests : ~Starting(q)
  /\ \A r \in Requests : pc[r] = "clear" => thread = None
  /\ \A r \in Requests : Aware(r) => key
  /\ \A r \in Requests : pc[r] \in {"start_create", "start_launch"} => ~stopping
  /\ \A r \in Requests : pc[r] = "start_launch" => thread # None
  /\ thread # None /\ (\A r \in Requests : ~Clearing(r)) =>
       ~stopping /\ pc[thread] \notin {"none", "ended"}
  /\ thread # None /\ pc[thread] = "created" => \E r \in Requests : pc[r] = "start_launch"
  /\ ~key => stopping \/ \A l \in Loops : ~Alive(l)
  /\ Configured => Served \/ \E r \in Requests : Starting(r) \/ Clearing(r)

LEMMA InitPolling == Init => PollingInv
<1> SUFFICES ASSUME Init PROVE PollingInv
  OBVIOUS
<1> USE UnifiedLabAssumption DEF Init, FirstSteps
<1>1. \A r \in Requests : pc[r] = "idle"
  BY DEF Workers
<1>2. \A l \in Loops : pc[l] = IF l = thread THEN "top" ELSE "none"
  BY DEF Workers
<1>3. thread = IF Configured THEN CHOOSE l \in Loops : TRUE ELSE None
  BY DEF FirstThread, Configured
<1>4. Configured => thread \in Loops /\ thread # None
  BY <1>3
<1>5. ~Configured => thread = None
  BY <1>3
<1>6. thread # None => Configured
  BY <1>5
<1>7. ~key => \A l \in Loops : l # thread
  BY <1>5 DEF Configured
<1>8. ~key => \A l \in Loops : ~Alive(l)
  BY <1>2, <1>7 DEF Alive
<1>9. thread # None => pc[thread] = "top" /\ ~stopping
  BY <1>2, <1>4, <1>6
<1>10. Configured => Served
  BY <1>4, <1>9 DEF Served, Alive
<1>11. \A r \in Requests : ~Clearing(r) /\ ~Aware(r)
  BY <1>1 DEF Clearing, Aware
<1> QED
  BY <1>1, <1>8, <1>9, <1>10, <1>11 DEF PollingInv

\* What a step of a refresh, or of a thread that polls, may do.
LEMMA WorkerKeepsPolling ==
  ASSUME TypeOK, PollingInv, NEW w \in Workers, NEW to,
         UNCHANGED <<key, selection, stopping, thread>>,
         pc' = [pc EXCEPT ![w] = to],
         \/ /\ pc[w] \in RefreshSteps
            /\ to \in RefreshSteps \/ to = (IF w \in Requests THEN "idle" ELSE "wait")
               \/ to = (IF w \in Requests THEN "idle" ELSE "killed")
         \/ /\ w \in Loops /\ pc[w] \in {"top", "wait"}
            /\ to = IF stopping THEN "ended" ELSE "lock"
  PROVE  PollingInv'
<1> USE UnifiedLabAssumption DEF TypeOK, Workers, RefreshSteps, RequestSteps
<1>1. \A r \in Requests : /\ Clearing(r)' <=> Clearing(r)
                          /\ Starting(r)' <=> Starting(r)
                          /\ Aware(r)' <=> Aware(r)
                          /\ (pc[r] = "clear")' <=> pc[r] = "clear"
                          /\ (pc[r] = "start_create")' <=> pc[r] = "start_create"
                          /\ (pc[r] = "start_launch")' <=> pc[r] = "start_launch"
  BY DEF Clearing, Starting, Aware
<1>2. \A l \in Loops : Alive(l)' => Alive(l)
  BY DEF Alive
<1>3. \A l \in Loops : Alive(l) =>
        Alive(l)' \/ pc'[l] = "killed" \/ (stopping /\ pc'[l] = "ended")
  BY DEF Alive
<1>4. \A l \in Loops : (pc[l] = "killed" => pc'[l] = "killed") /\ (pc'[l] = "created" => pc[l] = "created")
  BY DEF Alive
<1>5. \A l \in Loops : pc'[l] = "none" => pc[l] = "none"
  OBVIOUS
<1>6. \A l \in Loops : pc'[l] = "ended" => pc[l] = "ended" \/ stopping
  OBVIOUS
<1>7. Served => Served'
  BY <1>3, <1>4 DEF Served
<1>8. Configured' <=> Configured
  BY DEF Configured
<1> QED
  BY <1>1, <1>2, <1>4, <1>5, <1>6, <1>7, <1>8 DEF PollingInv

\* A step that leaves the background thread alone and moves one request.
LEMMA RequestMoves ==
  ASSUME TypeOK, NEW r \in Requests, NEW to, pc' = [pc EXCEPT ![r] = to]
  PROVE  /\ pc'[r] = to
         /\ \A q \in Requests : q # r => pc'[q] = pc[q]
         /\ \A l \in Loops : pc'[l] = pc[l]
         /\ \A l \in Loops : Alive(l)' <=> Alive(l)
BY UnifiedLabAssumption DEF TypeOK, Workers, Alive

LEMMA NextPolling == ClearsAlone /\ TypeOK /\ PollingInv /\ [Next]_vars => PollingInv'
<1> SUFFICES ASSUME ClearsAlone, TypeOK, PollingInv, [Next]_vars PROVE PollingInv'
  OBVIOUS
<1> USE UnifiedLabAssumption DEF setup, control, Go, At
<1> DEFINE Rest == \A q \in Requests : ~Starting(q)
<1>1. ASSUME NEW w \in Workers, Acquire(w) \/ RefreshStep(w) \/ StoreFails(w)
      PROVE  PollingInv'
  <2>1. /\ UNCHANGED <<key, selection, stopping, thread>>
        /\ pc[w] \in RefreshSteps
    BY <1>1 DEF Acquire, RefreshStep, LoadSelection, Collect, CollectNothing, Read, Write,
                StoreFails, RefreshSteps
  <2>2. PICK to : /\ pc' = [pc EXCEPT ![w] = to]
                  /\ \/ to \in RefreshSteps
                     \/ to = IF w \in Requests THEN "idle" ELSE "wait"
                     \/ to = IF w \in Requests THEN "idle" ELSE "killed"
    BY <1>1 DEF Acquire, RefreshStep, LoadSelection, Collect, CollectNothing, Read, Write,
                StoreFails, RefreshSteps, KeepEvidence, Return
  <2> QED
    BY <2>1, <2>2, WorkerKeepsPolling
<1>2. ASSUME NEW l \in Loops, LoopTop(l) PROVE PollingInv'
  BY <1>2, WorkerKeepsPolling DEF LoopTop, Workers
<1>3. ASSUME NEW r \in Requests, StartCheck(r) \/ StartKey(r) \/ StartSelection(r)
      PROVE  PollingInv'
  <2>1. PICK to \in {"idle", "start_key", "start_selection", "start_event"} :
          pc' = [pc EXCEPT ![r] = to]
    BY <1>3 DEF StartCheck, StartKey, StartSelection
  <2>r. /\ pc'[r] = to
        /\ \A q \in Requests : q # r => pc'[q] = pc[q]
        /\ \A l \in Loops : pc'[l] = pc[l]
        /\ \A l \in Loops : Alive(l)' <=> Alive(l)
    BY <2>1, RequestMoves
  <2>2. UNCHANGED <<key, selection, stopping, thread>> /\ Starting(r)
    BY <1>3 DEF StartCheck, StartKey, StartSelection, Starting, RequestSteps
  <2>3. \A q \in Requests : ~Clearing(q)
    BY <2>2 DEF PollingInv
  <2>4. pc'[r] \in {"start_selection", "start_event"} => key
    BY <1>3, <2>r, <2>1 DEF StartCheck, StartKey, StartSelection, PollingInv, Aware
  <2>5. Configured /\ pc'[r] = "idle" => Served
    <3> SUFFICES ASSUME Configured, pc'[r] = "idle" PROVE Served
      OBVIOUS
    <3>0. key /\ selection # None /\ to = "idle"
      BY <2>r DEF Configured
    <3>1. Alive(thread)
      <4>1. CASE StartCheck(r)
        <5>1. pc' = [pc EXCEPT ![r] = IF Alive(thread) THEN "idle" ELSE "start_key"]
          BY <4>1 DEF StartCheck
        <5>2. pc'[r] = IF Alive(thread) THEN "idle" ELSE "start_key"
          BY <5>1 DEF TypeOK, Workers
        <5> QED
          BY <5>2
      <4>2. CASE StartKey(r)
        <5>1. pc' = [pc EXCEPT ![r] = "start_selection"]
          BY <3>0, <4>2 DEF StartKey
        <5>2. pc'[r] = "start_selection"
          BY <5>1 DEF TypeOK, Workers
        <5> QED
          BY <5>2
      <4>3. CASE StartSelection(r)
        <5>1. pc' = [pc EXCEPT ![r] = "start_event"]
          BY <3>0, <4>3 DEF StartSelection
        <5>2. pc'[r] = "start_event"
          BY <5>1 DEF TypeOK, Workers
        <5> QED
          BY <5>2
      <4> QED
        BY <1>3, <4>1, <4>2, <4>3
    <3> QED
      BY <2>3, <3>1 DEF PollingInv, Served, Alive
  <2>6. /\ \A q \in Requests : ~Clearing(q)'
        /\ pc'[r] # "idle" => Starting(r)'
        /\ \A q \in Requests \ {r} : Starting(q)' <=> Starting(q)
    BY <2>1, <2>3, <2>r DEF Clearing, Starting, RequestSteps
  <2>7. Served' <=> Served
    BY <2>1, <2>2, <2>r DEF Served, Alive, TypeOK
  <2>8. pc[r] # "start_launch" /\ pc'[r] \notin {"clear", "start_create", "start_launch"}
    BY <1>3, <2>1, <2>r DEF StartCheck, StartKey, StartSelection
  <2>9. \A q \in Requests : Aware(q)' => key
    BY <2>1, <2>4, <2>8, <2>r DEF Aware, PollingInv
  <2> QED
    BY <2>1, <2>2, <2>3, <2>4, <2>5, <2>6, <2>7, <2>8, <2>9, <2>r
    DEF PollingInv, Configured, TypeOK
<1>4. ASSUME NEW r \in Requests, StartEvent(r) PROVE PollingInv'
  <2>1. pc' = [pc EXCEPT ![r] = "start_create"] /\ stopping' = FALSE
        /\ UNCHANGED <<key, selection, thread>>
    BY <1>4 DEF StartEvent
  <2>2. Starting(r) /\ Aware(r) /\ pc[r] # "start_launch"
    BY <1>4 DEF StartEvent, Starting, Aware, RequestSteps
  <2>3. \A q \in Requests : ~Clearing(q)
    BY <2>2 DEF PollingInv
  <2>4. \A q \in Requests : /\ ~Clearing(q)'
                            /\ pc'[q] # "clear"
                            /\ Aware(q)' <=> Aware(q)
                            /\ (pc[q] = "start_launch")' <=> pc[q] = "start_launch"
    BY <2>1, <2>2, <2>3, RequestMoves DEF Clearing, Aware
  <2>5. Starting(r)'
    <3>1. pc'[r] = "start_create"
      BY <2>1, RequestMoves
    <3> QED
      BY <3>1 DEF Starting, RequestSteps
  <2> QED
    BY <2>1, <2>2, <2>3, <2>4, <2>5, RequestMoves DEF PollingInv, TypeOK
<1>5. ASSUME NEW r \in Requests, StartCreate(r) PROVE PollingInv'
  <2>1. PICK l \in Unused : thread' = l /\ pc' = [pc EXCEPT ![r] = "start_launch", ![l] = "created"]
    BY <1>5 DEF StartCreate
  <2>2. l \in Loops /\ ~Alive(l) /\ UNCHANGED <<key, selection, stopping>>
    BY <1>5 DEF StartCreate, Unused
  <2>3. /\ pc'[r] = "start_launch" /\ pc'[l] = "created"
        /\ \A q \in Requests \ {r} : pc'[q] = pc[q]
    BY <2>1, <2>2 DEF TypeOK, Workers
  <2>4. Starting(r) /\ Aware(r) /\ ~stopping
    BY <1>5 DEF StartCreate, Starting, Aware, RequestSteps, PollingInv
  <2>5. \A q \in Requests : ~Clearing(q)
    BY <2>4 DEF PollingInv
  <2>6. \A q \in Requests : ~Clearing(q)' /\ pc'[q] # "clear" /\ (Aware(q)' <=> Aware(q))
    BY <2>3, <2>4, <2>5 DEF Clearing, Aware
  <2>7. Starting(r)'
    BY <2>3 DEF Starting, RequestSteps
  <2>8. key
    BY <2>4 DEF PollingInv
  <2> QED
    BY <2>1, <2>2, <2>3, <2>4, <2>6, <2>7, <2>8 DEF PollingInv
<1>6. ASSUME NEW r \in Requests, StartLaunch(r) PROVE PollingInv'
  <2>1. UNCHANGED <<key, selection, stopping, thread>> /\ pc[r] = "start_launch"
    BY <1>6 DEF StartLaunch
  <2>2. Starting(r) /\ key /\ ~stopping /\ thread \in Loops
    BY <2>1 DEF Starting, RequestSteps, PollingInv, Aware, TypeOK
  <2>3. \A q \in Requests : ~Clearing(q)
    BY <2>2 DEF PollingInv
  <2>4. pc[thread] \notin {"none", "ended"}
    BY <2>2, <2>3 DEF PollingInv
  <2>5. /\ pc'[r] = "idle"
        /\ \A q \in Requests \ {r} : pc'[q] = pc[q]
        /\ pc'[thread] = IF pc[thread] = "created" THEN "top" ELSE pc[thread]
    BY <1>6, <2>1, <2>2 DEF StartLaunch, TypeOK, Workers
  <2>6. \A q \in Requests : ~Clearing(q)' /\ pc'[q] # "clear" /\ (Aware(q)' => Aware(q))
    BY <2>3, <2>5 DEF Clearing, Aware
  <2>7. pc'[thread] \notin {"none", "created", "ended"}
    BY <2>4, <2>5
  <2>8. Served'
    BY <2>1, <2>2, <2>7 DEF Served, Alive
  <2>9. /\ (\A q \in Requests : Clearing(q) => stopping /\ \A p \in Requests : ~Starting(p))'
        /\ (\A q \in Requests : pc[q] = "clear" => thread = None)'
        /\ (\A q \in Requests : Aware(q) => key)'
        /\ (\A q \in Requests : pc[q] \in {"start_create", "start_launch"} => ~stopping)'
        /\ (\A q \in Requests : pc[q] = "start_launch" => thread # None)'
    BY <2>1, <2>2, <2>6
  <2> QED
    BY <2>1, <2>2, <2>7, <2>8, <2>9 DEF PollingInv
<1>7. ASSUME NEW r \in Requests, StopJoined(r) PROVE PollingInv'
  <2>1. pc' = [pc EXCEPT ![r] = "clear"] /\ thread' = None
        /\ UNCHANGED <<key, selection, stopping>> /\ Clearing(r)
    BY <1>7 DEF StopJoined, Clearing
  <2>2. stopping /\ Rest
    BY <2>1 DEF PollingInv
  <2>3. \A q \in Requests : ~Starting(q)'
    BY <2>1, <2>2, RequestMoves DEF Starting
  <2>4. \A q \in Requests : ~Aware(q)'
    BY <2>3 DEF Starting, Aware, RequestSteps
  <2>5. \A q \in Requests : pc'[q] \notin {"start_create", "start_launch"}
    BY <2>4 DEF Aware
  <2>6. Clearing(r)'
    BY <2>1, RequestMoves DEF Clearing
  <2> QED
    BY <2>1, <2>2, <2>3, <2>4, <2>5, <2>6, RequestMoves DEF PollingInv
<1>8. ASSUME NEW r \in Requests, ClearKey(r) PROVE PollingInv'
  <2>1. pc' = [pc EXCEPT ![r] = "read"] /\ ~key' /\ pc[r] = "clear"
        /\ UNCHANGED <<selection, stopping, thread>> /\ Clearing(r)
    BY <1>8 DEF ClearKey, KeepEvidence, Clearing
  <2>2. stopping /\ Rest /\ thread = None
    BY <2>1 DEF PollingInv
  <2>3. \A q \in Requests : ~Starting(q)'
    BY <2>1, <2>2, RequestMoves DEF Starting, RequestSteps
  <2>4. \A q \in Requests : ~Aware(q)'
    BY <2>3 DEF Starting, Aware, RequestSteps
  <2>5. \A q \in Requests : pc'[q] \notin {"start_create", "start_launch"}
    BY <2>4 DEF Aware
  <2> QED
    BY <2>1, <2>2, <2>3, <2>4, <2>5 DEF PollingInv, Configured
<1>9. ASSUME NEW r \in Requests, SaveKey(r) \/ (\E n \in Networks : SaveSelection(r, n))
      PROVE  PollingInv'
  <2>1. pc' = [pc EXCEPT ![r] = "start"] /\ pc[r] = "idle"
        /\ UNCHANGED control /\ (key => key')
    BY <1>9 DEF SaveKey, SaveSelection, Offered, Arrive
  <2>2. \A q \in Requests : ~Clearing(q)
    BY <1>9 DEF SaveKey, SaveSelection, Offered
  <2>3. \A q \in Requests : /\ ~Clearing(q)' /\ pc'[q] # "clear"
                            /\ Aware(q)' <=> Aware(q)
                            /\ pc'[q] \in {"start_create", "start_launch"} =>
                                 pc'[q] = pc[q]
                            /\ (pc[q] = "start_launch")' <=> pc[q] = "start_launch"
    BY <2>1, <2>2, RequestMoves DEF Clearing, Aware
  <2>4. Starting(r)'
    <3>1. pc'[r] = "start"
      BY <2>1, RequestMoves
    <3> QED
      BY <3>1 DEF Starting, RequestSteps
  <2>5. thread' \in Loops \/ thread' = None
    BY <2>1 DEF TypeOK
  <2>6. (~key => stopping \/ \A l \in Loops : ~Alive(l))'
    BY <2>1, RequestMoves DEF PollingInv
  <2>7. (thread # None /\ (\A q \in Requests : ~Clearing(q)) =>
           ~stopping /\ pc[thread] \notin {"none", "ended"})'
    BY <2>1, <2>2, <2>5, RequestMoves DEF PollingInv
  <2>8. (thread # None /\ pc[thread] = "created" => \E q \in Requests : pc[q] = "start_launch")'
    BY <2>1, <2>3, <2>5, RequestMoves DEF PollingInv
  <2>9. /\ \A q \in Requests : Aware(q)' => key'
        /\ \A q \in Requests : pc'[q] \in {"start_create", "start_launch"} => ~stopping'
        /\ \A q \in Requests : pc'[q] = "start_launch" => thread' # None
    BY <2>1, <2>3 DEF PollingInv
  <2> QED
    BY <2>3, <2>4, <2>6, <2>7, <2>8, <2>9 DEF PollingInv
<1>10. ASSUME NEW r \in Requests, ClearRequest(r) PROVE PollingInv'
  <2>1. pc' = [pc EXCEPT ![r] = "join"] /\ pc[r] = "idle" /\ stopping'
        /\ UNCHANGED <<key, selection, thread>>
        /\ Rest /\ \A q \in Requests : ~Clearing(q)
    BY <1>10 DEF ClearRequest, Offered, Arrive
  <2>2. \A q \in Requests : ~Starting(q)' /\ ~(Starting(q))
    BY <2>1, RequestMoves DEF Starting
  <2>3. \A q \in Requests : ~Aware(q) /\ ~Aware(q)'
    BY <2>2 DEF Starting, Aware, RequestSteps
  <2>4. \A q \in Requests : /\ pc[q] # "start_launch"
                            /\ pc'[q] \notin {"start_create", "start_launch"}
    BY <2>3 DEF Aware
  <2>5. Clearing(r)'
    BY <2>1, RequestMoves DEF Clearing
  <2>6. \A q \in Requests : pc'[q] # "clear"
    BY <2>1, RequestMoves DEF Clearing
  <2>7. thread' # None => pc'[thread'] # "created"
    BY <2>1, <2>4, RequestMoves DEF PollingInv, TypeOK
  <2> QED
    BY <2>1, <2>2, <2>3, <2>4, <2>5, <2>6, <2>7 DEF PollingInv
<1>11. ASSUME NEW r \in Requests, RefreshRequest(r) \/ TestConnection(r) PROVE PollingInv'
  <2>1. PICK to \in {"lock", "read"} : pc' = [pc EXCEPT ![r] = to]
    BY <1>11 DEF RefreshRequest, TestConnection, KeepEvidence
  <2>2. pc[r] = "idle" /\ UNCHANGED <<key, selection, stopping, thread>>
    BY <1>11 DEF RefreshRequest, TestConnection, Offered, Arrive
  <2>3. \A q \in Requests : /\ Clearing(q)' <=> Clearing(q)
                            /\ Starting(q)' <=> Starting(q)
                            /\ Aware(q)' <=> Aware(q)
                            /\ (pc[q] = "clear")' <=> pc[q] = "clear"
                            /\ (pc[q] = "start_create")' <=> pc[q] = "start_create"
                            /\ (pc[q] = "start_launch")' <=> pc[q] = "start_launch"
    BY <2>1, <2>2, RequestMoves DEF Clearing, Starting, Aware, RequestSteps
  <2>4. \A l \in Loops : pc'[l] = pc[l] /\ (Alive(l)' <=> Alive(l))
    BY <2>1, RequestMoves
  <2>5. thread \in Loops \/ thread = None
    BY DEF TypeOK
  <2>6. (Served' <=> Served) /\ (Configured' <=> Configured)
    BY <2>2, <2>4, <2>5 DEF Served, Configured
  <2> QED
    BY <2>2, <2>3, <2>4, <2>5, <2>6 DEF PollingInv
<1>12. CASE Restart
  <2> DEFINE First == IF Configured THEN CHOOSE l \in Loops : TRUE ELSE None
  <2>1. thread' = First /\ ~stopping' /\ UNCHANGED <<key, selection>> /\ pc' = FirstSteps
    BY <1>12 DEF Restart, FirstThread, Configured
  <2>2. \A r \in Requests : pc'[r] = "idle"
    BY <2>1 DEF FirstSteps, Workers
  <2>3. \A l \in Loops : pc'[l] = IF l = First THEN "top" ELSE "none"
    BY <2>1 DEF FirstSteps, Workers, FirstThread, Configured
  <2>4. IF Configured THEN First \in Loops ELSE First = None
    OBVIOUS
  <2> HIDE DEF First
  <2>5. thread' # None => pc'[thread'] = "top" /\ ~stopping'
    BY <2>1, <2>3, <2>4
  <2>6. Configured' => Served'
    BY <2>1, <2>3, <2>4 DEF Served, Alive, Configured
  <2>7. ~key' => \A l \in Loops : ~Alive(l)'
    BY <2>1, <2>3, <2>4 DEF Alive, Configured
  <2>8. \A r \in Requests : ~Clearing(r)' /\ ~Aware(r)'
    BY <2>2 DEF Clearing, Aware
  <2> QED
    BY <2>2, <2>5, <2>6, <2>7, <2>8 DEF PollingInv
<1>13. CASE UNCHANGED vars
  BY <1>13 DEF vars, PollingInv, Clearing, Starting, Aware, Served, Alive, Configured
<1> QED
  BY <1>1, <1>2, <1>3, <1>4, <1>5, <1>6, <1>7, <1>8, <1>9, <1>10, <1>11, <1>12, <1>13
  DEF Next, RequestStep

LEMMA PollingAlways ==
  ASSUME ClearsAlone
  PROVE  Spec => []PollingInv
<1>1. Init => TypeOK /\ PollingInv
  BY InitTypeOK, InitPolling
<1>2. TypeOK /\ PollingInv /\ [Next]_vars => (TypeOK /\ PollingInv)'
  BY NextTypeOK, NextPolling
<1> QED
  BY <1>1, <1>2, PTL DEF Spec

\* When nobody changes the settings while the key is cleared: whatever the
\* order in which requests store the key and the selection and start the
\* thread, one polls as soon as both are there and the requests are answered
\* (start, save_api_key, save_selection).
THEOREM PollingWhenConfigured ==
  ASSUME ClearsAlone
  PROVE  Spec => []ConfiguredIsPolled
<1>1. PollingInv => ConfiguredIsPolled
  BY DEF PollingInv, ConfiguredIsPolled, Quiet, Served, Starting, Clearing
<1> QED
  BY <1>1, PollingAlways, PTL

\* Under the same condition no thread goes on polling once the key is
\* cleared, also none that stop() gave up waiting for (stop, clear_api_key).
THEOREM NoPollingAfterClear ==
  ASSUME ClearsAlone
  PROVE  Spec => []ClearedIsNotPolled
<1>1. PollingInv => ClearedIsNotPolled
  BY DEF PollingInv, ClearedIsNotPolled
<1> QED
  BY <1>1, PollingAlways, PTL

=============================================================================
