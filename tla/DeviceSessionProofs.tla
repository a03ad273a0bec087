-------------------------- MODULE DeviceSessionProofs --------------------------
(***************************************************************************)
(* What is proved of DeviceSession for any jobs, priorities and            *)
(* transports: its types, that the state shown is honest, and that no      *)
(* future is settled twice.                                                *)
(***************************************************************************)
EXTENDS DeviceSession, TLAPS

LEMMA JobsAreNot == Pill \notin Jobs /\ None \notin Jobs /\ Pill # None
BY DeviceSessionAssumption

LEMMA NoneIsNoSession == None \notin Sessions
BY DeviceSessionAssumption DEF Sessions

LEMMA Joined ==
  ASSUME NEW S, NEW a \in Seq(S), NEW b \in Seq(S)
  PROVE  /\ a \o b \in Seq(S) /\ Len(a \o b) = Len(a) + Len(b)
         /\ \A k \in 1..(Len(a) + Len(b)) :
              (a \o b)[k] = IF k <= Len(a) THEN a[k] ELSE b[k - Len(a)]
OBVIOUS

LEMMA Cut ==
  ASSUME NEW S, NEW q \in Seq(S), NEW i \in 1..Len(q)
  PROVE  /\ Len(q) \in Nat
         /\ SubSeq(q, 1, i - 1) \in Seq(S) /\ Len(SubSeq(q, 1, i - 1)) = i - 1
         /\ \A k \in 1..(i - 1) : SubSeq(q, 1, i - 1)[k] = q[k]
         /\ SubSeq(q, i + 1, Len(q)) \in Seq(S)
         /\ Len(SubSeq(q, i + 1, Len(q))) = Len(q) - i
         /\ \A k \in 1..(Len(q) - i) : SubSeq(q, i + 1, Len(q))[k] = q[i + k]
<1>1. Len(q) \in Nat /\ i \in Nat /\ 1 <= i /\ i <= Len(q)
  OBVIOUS
<1>2. /\ SubSeq(q, 1, i - 1) \in Seq(S) /\ Len(SubSeq(q, 1, i - 1)) = i - 1
      /\ \A k \in 1..(i - 1) : SubSeq(q, 1, i - 1)[k] = q[k]
  BY <1>1
<1>3. /\ SubSeq(q, i + 1, Len(q)) \in Seq(S)
      /\ Len(SubSeq(q, i + 1, Len(q))) = Len(q) - i
      /\ \A k \in 1..(Len(q) - i) : SubSeq(q, i + 1, Len(q))[k] = q[i + k]
  BY <1>1
<1> QED
  BY <1>1, <1>2, <1>3

\* What is left when one element is taken out.
LEMMA Removed ==
  ASSUME NEW S, NEW q \in Seq(S), NEW i \in 1..Len(q)
  PROVE  LET w == SubSeq(q, 1, i - 1) \o SubSeq(q, i + 1, Len(q))
         IN /\ w \in Seq(S) /\ Len(w) = Len(q) - 1 /\ Len(q) \in Nat
            /\ \A k \in 1..(Len(q) - 1) : w[k] = IF k < i THEN q[k] ELSE q[k + 1]
<1> DEFINE a == SubSeq(q, 1, i - 1)
           b == SubSeq(q, i + 1, Len(q))
           n == Len(q)
           w == a \o b
<1>1. /\ n \in Nat /\ a \in Seq(S) /\ b \in Seq(S)
      /\ Len(a) = i - 1 /\ Len(b) = n - i
      /\ \A k \in 1..(i - 1) : a[k] = q[k]
      /\ \A k \in 1..(n - i) : b[k] = q[i + k]
  BY Cut
<1>2. i \in Nat /\ i \in 1..n
  OBVIOUS
<1> HIDE DEF a, b, n
<1>3. /\ w \in Seq(S) /\ Len(w) = Len(a) + Len(b)
      /\ \A k \in 1..(Len(a) + Len(b)) :
           w[k] = IF k <= Len(a) THEN a[k] ELSE b[k - Len(a)]
  BY <1>1, Joined, Zenon
<1> HIDE DEF w
<1>4. Len(a) + Len(b) = n - 1
  <2>1. (i - 1) + (n - i) = n - 1
    BY <1>1, <1>2
  <2> QED
    BY <1>1, <2>1
<1>5. /\ w \in Seq(S) /\ Len(w) = n - 1
      /\ \A k \in 1..(n - 1) : w[k] = IF k <= i - 1 THEN a[k] ELSE b[k - (i - 1)]
  BY <1>1, <1>3, <1>4
<1>6. ASSUME NEW k \in 1..(n - 1) PROVE w[k] = IF k < i THEN q[k] ELSE q[k + 1]
  <2>1. CASE k < i
    <3>1. k \in 1..(i - 1) /\ k <= i - 1
      BY <1>1, <1>2, <2>1
    <3> QED
      BY <1>1, <1>5, <2>1, <3>1
  <2>2. CASE ~(k < i)
    <3>1. /\ ~(k <= i - 1) /\ k - (i - 1) \in 1..(n - i)
          /\ i + (k - (i - 1)) = k + 1
      BY <1>1, <1>2, <2>2
    <3>2. b[k - (i - 1)] = q[i + (k - (i - 1))]
      BY <1>1, <3>1
    <3> QED
      BY <1>5, <2>2, <3>1, <3>2
  <2> QED
    BY <2>1, <2>2
<1> QED
  BY <1>1, <1>5, <1>6 DEF a, b, n, w

LEMMA WithoutSays ==
  ASSUME queue \in Seq(Jobs \cup {Pill}), NEW i \in DOMAIN queue, NEW w, w = Without(i)
  PROVE  /\ w \in Seq(Jobs \cup {Pill}) /\ queue[i] \in Jobs \cup {Pill}
         /\ \A k \in 1..Len(w) : \E m \in 1..Len(queue) :
              /\ w[k] = queue[m] /\ m # i
              /\ m = IF k < i THEN k ELSE k + 1
<1>1. i \in 1..Len(queue) /\ queue[i] \in Jobs \cup {Pill} /\ Len(queue) \in Nat
  OBVIOUS
<1>2. /\ w \in Seq(Jobs \cup {Pill}) /\ Len(w) = Len(queue) - 1
      /\ \A k \in 1..(Len(queue) - 1) : w[k] = IF k < i THEN queue[k] ELSE queue[k + 1]
  BY <1>1, Removed DEF Without
<1>3. ASSUME NEW k \in 1..Len(w)
      PROVE  \E m \in 1..Len(queue) : /\ w[k] = queue[m] /\ m # i
                                      /\ m = IF k < i THEN k ELSE k + 1
  <2>1. k \in 1..(Len(queue) - 1) /\ w[k] = IF k < i THEN queue[k] ELSE queue[k + 1]
    BY <1>2
  <2>2. CASE k < i
    <3>1. k \in 1..Len(queue) /\ k # i
      BY <1>1, <2>1, <2>2
    <3> QED
      BY <2>1, <2>2, <3>1
  <2>3. CASE ~(k < i)
    <3>1. k + 1 \in 1..Len(queue) /\ k + 1 # i
      BY <1>1, <2>1, <2>3
    <3> QED
      BY <2>1, <2>3, <3>1
  <2> QED
    BY <2>2, <2>3
<1> QED
  BY <1>1, <1>2, <1>3

-----------------------------------------------------------------------------
(* Types and the state shown *)

\* The states of the worker between which the shown state is in order; while it
\* connects there is no session, and the state does not claim one.
Honest ==
  /\ worker.pc \in {"loop", "waiting", "ensure", "running"} =>
       (state = "live" <=> client # None)
  /\ worker.pc = "connecting" => client = None /\ state # "live"
  /\ worker.pc = "running" => client # None

LEMMA InitHonest == Init => TypeOK /\ Honest
<1> SUFFICES ASSUME Init PROVE TypeOK /\ Honest
  OBVIOUS
<1>1. queue \in Seq(Jobs \cup {Pill}) /\ usable \in BOOLEAN
  BY DEF Init
<1>2. slot \in [Jobs -> {"idle", "admitted", "queued", "running"} \cup Settled]
  BY DEF Init
<1> QED
  BY <1>1, <1>2 DEF Init, TypeOK, Honest

\* A job that is settled is one of the jobs.
LEMMA SettleTypes ==
  ASSUME TypeOK, NEW outcome \in Settled, Settle(outcome)
  PROVE  /\ slot' \in [Jobs -> {"idle", "admitted", "queued", "running"} \cup Settled]
         /\ worker' = [pc |-> "loop", job |-> None]
BY DEF TypeOK, Settle, Goto

LEMMA SubmitKeeps ==
  ASSUME TypeOK, Honest,
         \/ \E j \in Jobs : Admit(j) \/ Put(j) \/ Collect(j)
         \/ Stop \/ StopPut
  PROVE  TypeOK' /\ Honest'
<1>1. UNCHANGED <<worker, client, state, reconnects, cooling, usable>>
  BY DEF Admit, Put, Collect, Stop, StopPut, session
<1>2. slot' \in [Jobs -> {"idle", "admitted", "queued", "running"} \cup Settled]
  <2>1. CASE \E j \in Jobs : Admit(j)
    BY <2>1 DEF TypeOK, Admit, Settled
  <2>2. CASE \E j \in Jobs : Put(j) \/ Collect(j)
    BY <2>2 DEF TypeOK, Put, Collect
  <2>3. CASE Stop \/ StopPut
    BY <2>3 DEF TypeOK, Stop, StopPut
  <2> QED
    BY <2>1, <2>2, <2>3
<1>3. queue' \in Seq(Jobs \cup {Pill})
  <2>1. UNCHANGED queue \/ \E e \in Jobs \cup {Pill} : queue' = Append(queue, e)
    BY DEF Admit, Put, Collect, Stop, StopPut
  <2> QED
    BY <2>1 DEF TypeOK
<1>4. stopping' \in {"no", "set", "pill"}
  BY DEF TypeOK, Admit, Put, Collect, Stop, StopPut
<1>5. TypeOK'
  BY <1>1, <1>2, <1>3, <1>4 DEF TypeOK
<1>6. Honest'
  BY <1>1 DEF Honest
<1> QED
  BY <1>5, <1>6

LEMMA LoopKeeps == TypeOK /\ Honest /\ (Loop \/ Idle) => TypeOK' /\ Honest'
BY DEF TypeOK, Honest, Loop, Idle, Goto, session

LEMMA TakeKeeps == TypeOK /\ Honest /\ Take => TypeOK' /\ Honest'
<1> SUFFICES ASSUME TypeOK, Honest, Take PROVE TypeOK' /\ Honest'
  OBVIOUS
<1>1. PICK i \in DOMAIN queue :
        /\ queue' = Without(i)
        /\ \/ queue[i] = Pill /\ Goto("draining", None) /\ client' = None /\ UNCHANGED slot
           \/ /\ queue[i] # Pill /\ Goto("ensure", queue[i])
              /\ slot' = [slot EXCEPT ![queue[i]] = "running"] /\ UNCHANGED client
  BY DEF Take
<1>2. queue' \in Seq(Jobs \cup {Pill}) /\ queue[i] \in Jobs \cup {Pill}
  BY <1>1, WithoutSays DEF TypeOK
<1>3. /\ slot' \in [Jobs -> {"idle", "admitted", "queued", "running"} \cup Settled]
      /\ client' \in Sessions \cup {None}
      /\ \/ worker' = [pc |-> "draining", job |-> None]
         \/ /\ UNCHANGED client /\ queue[i] \in Jobs
            /\ worker' = [pc |-> "ensure", job |-> queue[i]]
  BY <1>1, <1>2 DEF TypeOK, Goto
<1>4. worker.pc = "waiting" /\ UNCHANGED <<state, reconnects, cooling, stopping, usable>>
  BY DEF Take
<1> QED
  BY <1>2, <1>3, <1>4 DEF TypeOK, Honest

LEMMA EnsureKeeps == TypeOK /\ Honest /\ Ensure => TypeOK' /\ Honest'
<1> SUFFICES ASSUME TypeOK, Honest, Ensure PROVE TypeOK' /\ Honest'
  OBVIOUS
<1>1. CASE Alive(client) /\ Goto("running", worker.job) /\ UNCHANGED <<slot, session>>
  BY <1>1 DEF TypeOK, Honest, Ensure, Goto, session, Alive
<1>2. CASE /\ client' = None /\ cooling /\ Settle("error")
           /\ state' = IF client = None THEN state ELSE "reconnecting"
  <2>1. worker' = [pc |-> "loop", job |-> None]
        /\ slot' \in [Jobs -> {"idle", "admitted", "queued", "running"} \cup Settled]
    BY <1>2, SettleTypes DEF Settled
  <2>2. reconnects' \in BOOLEAN /\ UNCHANGED <<queue, cooling, stopping, usable>>
    BY <1>2 DEF TypeOK, Ensure, session
  <2>3. worker.pc = "ensure"
    BY DEF Ensure
  <2>4. state' \in {"offline", "connecting", "live", "stale", "reconnecting"} /\ state' # "live"
    <3>1. CASE client = None
      BY <1>2, <2>3, <3>1 DEF TypeOK, Honest
    <3>2. CASE client # None
      BY <1>2, <3>2
    <3> QED
      BY <3>1, <3>2
  <2> QED
    BY <1>2, <2>1, <2>2, <2>3, <2>4 DEF TypeOK, Honest
<1>3. CASE /\ client' = None /\ ~cooling /\ Goto("connecting", worker.job) /\ UNCHANGED slot
           /\ state' = IF reconnects' THEN "reconnecting" ELSE "connecting"
  BY <1>3 DEF TypeOK, Honest, Ensure, Goto
<1> QED
  BY <1>1, <1>2, <1>3 DEF Ensure

LEMMA ConnectKeeps == TypeOK /\ Honest /\ Connect => TypeOK' /\ Honest'
<1> SUFFICES ASSUME TypeOK, Honest, Connect PROVE TypeOK' /\ Honest'
  OBVIOUS
<1>1. CASE usable
  <2>1. client' \in Sessions /\ state' = "live" /\ cooling' = FALSE /\ UNCHANGED slot
        /\ worker' = [pc |-> IF worker.job = None THEN "loop" ELSE "running",
                      job |-> worker.job]
    BY <1>1 DEF Connect, Goto, Sessions
  <2>2. client' # None
    BY <2>1, NoneIsNoSession
  <2> QED
    BY <2>1, <2>2 DEF TypeOK, Honest, Connect
<1>2. CASE ~usable
  <2>1. Settle("error") /\ state' = "offline" /\ UNCHANGED client /\ cooling' = TRUE
    BY <1>2 DEF Connect
  <2>2. worker' = [pc |-> "loop", job |-> None]
        /\ slot' \in [Jobs -> {"idle", "admitted", "queued", "running"} \cup Settled]
    BY <2>1, SettleTypes DEF Settled
  <2> QED
    BY <2>1, <2>2 DEF TypeOK, Honest, Connect
<1> QED
  BY <1>1, <1>2

LEMMA RunKeeps == TypeOK /\ Honest /\ Run => TypeOK' /\ Honest'
<1> SUFFICES ASSUME TypeOK, Honest, Run PROVE TypeOK' /\ Honest'
  OBVIOUS
<1>1. PICK outcome \in Settled : Settle(outcome)
  BY DEF Run, Settled
<1>2. worker' = [pc |-> "loop", job |-> None]
      /\ slot' \in [Jobs -> {"idle", "admitted", "queued", "running"} \cup Settled]
  BY <1>1, SettleTypes
<1>3. \/ UNCHANGED <<client, state>>
      \/ client' = None /\ state' = "stale"
  BY DEF Run
<1>4. worker.pc = "running" /\ UNCHANGED <<queue, reconnects, cooling, stopping, usable>>
  BY DEF Run
<1> QED
  BY <1>2, <1>3, <1>4 DEF TypeOK, Honest

LEMMA DrainKeeps == TypeOK /\ Honest /\ Drain => TypeOK' /\ Honest'
<1> SUFFICES ASSUME TypeOK, Honest, Drain PROVE TypeOK' /\ Honest'
  OBVIOUS
<1>1. worker.pc = "draining"
      /\ UNCHANGED <<client, state, reconnects, cooling, stopping, usable>>
  BY DEF Drain, session
<1>2. CASE Goto("dead", None) /\ UNCHANGED <<slot, queue>>
  BY <1>1, <1>2 DEF TypeOK, Honest, Goto
<1>3. CASE \E i \in DOMAIN queue :
             /\ queue' = Without(i) /\ UNCHANGED worker
             /\ slot' = IF queue[i] = Pill THEN slot
                                           ELSE [slot EXCEPT ![queue[i]] = "error"]
  <2>1. PICK i \in DOMAIN queue :
             /\ queue' = Without(i) /\ UNCHANGED worker
             /\ slot' = IF queue[i] = Pill THEN slot
                                           ELSE [slot EXCEPT ![queue[i]] = "error"]
    BY <1>3
  <2>2. queue' \in Seq(Jobs \cup {Pill}) /\ queue[i] \in Jobs \cup {Pill}
    BY <2>1, WithoutSays DEF TypeOK
  <2>3. slot' \in [Jobs -> {"idle", "admitted", "queued", "running"} \cup Settled]
    BY <2>1, <2>2 DEF TypeOK, Settled
  <2> QED
    BY <1>1, <2>1, <2>2, <2>3 DEF TypeOK, Honest
<1> QED
  BY <1>2, <1>3 DEF Drain

LEMMA WorldKeeps ==
  TypeOK /\ Honest /\ (Cooled \/ Break \/ Notice \/ Use \/ UNCHANGED vars)
  => TypeOK' /\ Honest'
<1> SUFFICES ASSUME TypeOK, Honest, Cooled \/ Break \/ Notice \/ Use \/ UNCHANGED vars
             PROVE  TypeOK' /\ Honest'
  OBVIOUS
<1>1. CASE Cooled \/ Use \/ UNCHANGED vars
  <2>1. UNCHANGED <<slot, queue, worker, client, state, reconnects, stopping>>
    BY <1>1 DEF Cooled, Use, vars, session
  <2>2. cooling' \in BOOLEAN /\ usable' \in BOOLEAN
    BY <1>1 DEF TypeOK, Cooled, Use, vars, session
  <2> QED
    BY <2>1, <2>2 DEF TypeOK, Honest
<1>2. CASE Break \/ Notice
  <2>1. PICK to \in {"broken", "down"} :
          /\ client # None /\ client' = [client EXCEPT !.condition = to]
          /\ UNCHANGED <<slot, queue, worker, state, reconnects, cooling, stopping, usable>>
    BY <1>2 DEF Break, Notice, Becomes
  <2>2. client' \in Sessions
    BY <2>1 DEF TypeOK, Sessions
  <2>3. client' # None
    BY <2>2, NoneIsNoSession
  <2> QED
    BY <2>1, <2>2, <2>3 DEF TypeOK, Honest
<1> QED
  BY <1>1, <1>2

LEMMA HonestKept == TypeOK /\ Honest /\ [Next]_vars => TypeOK' /\ Honest'
BY SubmitKeeps, LoopKeeps, TakeKeeps, EnsureKeeps, ConnectKeeps, RunKeeps, DrainKeeps,
   WorldKeeps DEF Next, WorkerStep

\* Jobs, queue, worker and session keep their types, whatever is submitted,
\* breaks or is stopped.
THEOREM SessionTypeCorrect == Spec => []TypeOK
<1>1. Init /\ [][Next]_vars => []TypeOK
  BY InitHonest, HonestKept, PTL
<1> QED
  BY <1>1, PTL DEF Spec

\* The interface says LIVE exactly as long as the worker has a session.
THEOREM ShownIsHonest == Spec => []HonestState
<1>1. Init /\ [][Next]_vars => [](TypeOK /\ Honest)
  BY InitHonest, HonestKept, PTL
<1>2. Honest => HonestState
  BY DEF Honest, HonestState
<1> QED
  BY <1>1, <1>2, PTL DEF Spec

-----------------------------------------------------------------------------
(* Futures *)

\* A job is in the queue at most once and only while its future says so, and the
\* future of the worker's job is its to settle.
Futures ==
  /\ \A i \in 1..Len(queue) : queue[i] \in Jobs => slot[queue[i]] = "queued"
  /\ \A i, k \in 1..Len(queue) : queue[i] \in Jobs /\ queue[i] = queue[k] => i = k
  /\ worker.job # None => slot[worker.job] = "running"

SettledStep == \A j \in Jobs : slot[j] \in Settled => slot'[j] \in {slot[j], "idle"}

LEMMA InitFutures == Init => Futures
<1> SUFFICES ASSUME Init PROVE Futures
  OBVIOUS
<1>1. Len(queue) = 0 /\ worker.job = None
  BY DEF Init
<1> QED
  BY <1>1 DEF Futures

\* A step that leaves the queue alone and changes only futures that are neither
\* queued nor the worker's.
LEMMA FuturesStay ==
  ASSUME Futures, UNCHANGED queue, worker'.job \in {worker.job, None},
         \A j \in Jobs : slot[j] \in {"queued", "running"} => slot'[j] = slot[j],
         worker.job \in Jobs \cup {None}
  PROVE  Futures'
<1>1. \A i \in 1..Len(queue) : queue[i] \in Jobs => slot'[queue[i]] = "queued"
  BY DEF Futures
<1>2. worker'.job # None => slot'[worker'.job] = "running"
  BY DEF Futures
<1> QED
  BY <1>1, <1>2 DEF Futures

LEMMA SubmitFutures ==
  ASSUME TypeOK, Futures,
         \/ \E j \in Jobs : Admit(j) \/ Put(j) \/ Collect(j)
         \/ Stop \/ StopPut
  PROVE  Futures' /\ SettledStep
<1>1. worker' = worker /\ worker.job \in Jobs \cup {None}
  BY DEF TypeOK, Admit, Put, Collect, Stop, StopPut
<1>2. CASE Stop
  BY <1>1, <1>2, FuturesStay DEF Stop, SettledStep
<1>3. ASSUME NEW j \in Jobs, Admit(j) \/ Collect(j) PROVE Futures' /\ SettledStep
  <2>1. slot[j] \notin {"queued", "running"} /\ UNCHANGED queue
    BY <1>3 DEF Admit, Collect, Settled
  <2>2. \A k \in Jobs : k # j => slot'[k] = slot[k]
    BY <1>3 DEF TypeOK, Admit, Collect
  <2>3. Futures'
    BY <1>1, <2>1, <2>2, FuturesStay
  <2>4. slot[j] \in Settled => slot'[j] = "idle"
    BY <1>3 DEF TypeOK, Admit, Collect, Settled
  <2> QED
    BY <2>2, <2>3, <2>4 DEF SettledStep
<1>4. ASSUME NEW e, queue' = Append(queue, e), e \in Jobs \cup {Pill},
             e \in Jobs => slot[e] = "admitted" /\ slot' = [slot EXCEPT ![e] = "queued"],
             e \notin Jobs => slot' = slot
      PROVE  Futures' /\ SettledStep
  <2>1. \A k \in Jobs : k # e => slot'[k] = slot[k]
    BY <1>4 DEF TypeOK
  <2>2. e \in Jobs => slot'[e] = "queued" /\ slot[e] = "admitted"
    BY <1>4 DEF TypeOK
  <2>3. /\ Len(queue) \in Nat /\ Len(queue') = Len(queue) + 1 /\ queue'[Len(queue) + 1] = e
        /\ \A i \in 1..Len(queue) : queue'[i] = queue[i]
    BY <1>4 DEF TypeOK
  <2>4. \A i \in 1..Len(queue) : queue[i] \in Jobs => slot[queue[i]] = "queued"
    BY DEF Futures
  <2>5. \A i \in 1..Len(queue) : queue[i] \in Jobs => queue[i] # e
    BY <2>2, <2>4
  <2>6. ASSUME NEW i \in 1..Len(queue')
        PROVE  \/ i \in 1..Len(queue) /\ queue'[i] = queue[i]
               \/ i = Len(queue) + 1 /\ queue'[i] = e
    BY <2>3
  <2>7. \A i \in 1..Len(queue') : queue'[i] \in Jobs => slot'[queue'[i]] = "queued"
    BY <2>1, <2>2, <2>4, <2>5, <2>6
  <2>8. \A i, k \in 1..Len(queue') : queue'[i] \in Jobs /\ queue'[i] = queue'[k] => i = k
    BY <2>5, <2>6 DEF Futures
  <2>9. worker'.job # None => slot'[worker'.job] = "running"
    <3> SUFFICES ASSUME worker.job # None PROVE slot'[worker.job] = "running"
      BY <1>1
    <3>1. slot[worker.job] = "running" /\ worker.job \in Jobs
      BY <1>1 DEF Futures
    <3> QED
      BY <2>1, <2>2, <3>1
  <2>10. Futures'
    BY <2>7, <2>8, <2>9 DEF Futures
  <2>11. SettledStep
    BY <2>1, <2>2 DEF SettledStep, Settled
  <2> QED
    BY <2>10, <2>11
<1>5. CASE StopPut
  BY <1>4, <1>5, JobsAreNot DEF StopPut
<1>6. ASSUME NEW j \in Jobs, Put(j) PROVE Futures' /\ SettledStep
  BY <1>4, <1>6 DEF Put
<1> QED
  BY <1>2, <1>3, <1>5, <1>6

\* One job leaves the queue, for the worker or refused.
LEMMA LeavesQueue ==
  ASSUME TypeOK, Futures, NEW i \in DOMAIN queue, queue' = Without(i),
         NEW future, queue[i] = Pill => slot' = slot,
         queue[i] # Pill => slot' = [slot EXCEPT ![queue[i]] = future],
         \/ worker' = worker
         \/ worker'.job # None =>
              queue[i] # Pill /\ worker'.job = queue[i] /\ future = "running"
  PROVE  Futures' /\ SettledStep
<1>1. i \in 1..Len(queue) /\ queue[i] \in Jobs \cup {Pill} /\ queue' \in Seq(Jobs \cup {Pill})
  BY WithoutSays DEF TypeOK
<1>2. \A k \in 1..Len(queue') : \E m \in 1..Len(queue) :
        queue'[k] = queue[m] /\ m # i /\ m = IF k < i THEN k ELSE k + 1
  BY WithoutSays DEF TypeOK
<1>3. \A j \in Jobs : j # queue[i] => slot'[j] = slot[j]
  BY <1>1, JobsAreNot DEF TypeOK
<1>4. ASSUME NEW k \in 1..Len(queue'), queue'[k] \in Jobs PROVE slot'[queue'[k]] = "queued"
  <2>1. PICK m \in 1..Len(queue) : queue'[k] = queue[m] /\ m # i
    BY <1>2
  <2>2. queue[m] # queue[i] /\ slot[queue[m]] = "queued"
    BY <1>1, <1>4, <2>1 DEF Futures
  <2> QED
    BY <1>3, <1>4, <2>1, <2>2
<1>5. ASSUME NEW k \in 1..Len(queue'), NEW l \in 1..Len(queue'),
             queue'[k] \in Jobs, queue'[k] = queue'[l]
      PROVE  k = l
  <2>1. PICK m \in 1..Len(queue) : queue'[k] = queue[m] /\ m # i
                                   /\ m = IF k < i THEN k ELSE k + 1
    BY <1>2
  <2>2. PICK n \in 1..Len(queue) : queue'[l] = queue[n] /\ n # i
                                   /\ n = IF l < i THEN l ELSE l + 1
    BY <1>2
  <2>3. m = n
    BY <1>5, <2>1, <2>2 DEF Futures
  <2>4. k \in Nat /\ l \in Nat /\ i \in Nat
    BY <1>1
  <2> QED
    BY <2>1, <2>2, <2>3, <2>4
<1>6. worker'.job # None => slot'[worker'.job] = "running"
  <2>1. CASE worker' = worker /\ worker.job # None
    <3>1. worker.job \in Jobs /\ slot[worker.job] = "running"
      BY <2>1 DEF TypeOK, Futures
    <3>2. queue[i] \in Jobs => slot[queue[i]] = "queued"
      BY <1>1 DEF Futures
    <3>3. worker.job # queue[i]
      BY <3>1, <3>2
    <3> QED
      BY <1>3, <2>1, <3>1, <3>3
  <2>2. CASE worker'.job # None /\ queue[i] # Pill /\ worker'.job = queue[i]
             /\ future = "running"
    BY <1>1, <2>2 DEF TypeOK
  <2> QED
    BY <2>1, <2>2
<1>7. Futures'
  BY <1>4, <1>5, <1>6 DEF Futures
<1>8. queue[i] \in Jobs => slot[queue[i]] = "queued"
  BY <1>1 DEF Futures
<1>9. SettledStep
  BY <1>3, <1>8 DEF SettledStep, Settled
<1> QED
  BY <1>7, <1>9

LEMMA TakeFutures == TypeOK /\ Futures /\ Take => Futures' /\ SettledStep
<1> SUFFICES ASSUME TypeOK, Futures, Take PROVE Futures' /\ SettledStep
  OBVIOUS
<1>1. PICK i \in DOMAIN queue :
        /\ queue' = Without(i)
        /\ \/ queue[i] = Pill /\ Goto("draining", None) /\ UNCHANGED slot
           \/ /\ queue[i] # Pill /\ Goto("ensure", queue[i])
              /\ slot' = [slot EXCEPT ![queue[i]] = "running"]
  BY DEF Take
<1>2. worker'.job = IF queue[i] = Pill THEN None ELSE queue[i]
  BY <1>1 DEF Goto
<1> QED
  BY <1>1, <1>2, LeavesQueue

LEMMA DrainFutures == TypeOK /\ Futures /\ Drain => Futures' /\ SettledStep
<1> SUFFICES ASSUME TypeOK, Futures, Drain PROVE Futures' /\ SettledStep
  OBVIOUS
<1>1. CASE Goto("dead", None) /\ UNCHANGED <<slot, queue>>
  <2>1. worker'.job = None /\ worker.job \in Jobs \cup {None}
    BY <1>1 DEF Goto, TypeOK
  <2> QED
    BY <1>1, <2>1, FuturesStay DEF SettledStep
<1>2. CASE \E i \in DOMAIN queue :
             /\ queue' = Without(i) /\ UNCHANGED worker
             /\ slot' = IF queue[i] = Pill THEN slot
                                           ELSE [slot EXCEPT ![queue[i]] = "error"]
  <2>1. PICK i \in DOMAIN queue :
          /\ queue' = Without(i) /\ worker' = worker
          /\ queue[i] = Pill => slot' = slot
          /\ queue[i] # Pill => slot' = [slot EXCEPT ![queue[i]] = "error"]
    BY <1>2
  <2> QED
    BY <2>1, LeavesQueue
<1> QED
  BY <1>1, <1>2 DEF Drain

LEMMA SettleFutures ==
  ASSUME TypeOK, Futures, NEW outcome, Settle(outcome), UNCHANGED queue
  PROVE  Futures' /\ SettledStep
<1>1. worker'.job = None /\ worker.job \in Jobs \cup {None}
  BY DEF TypeOK, Settle, Goto
<1>2. worker.job # None => slot[worker.job] = "running"
  BY DEF Futures
<1>3. \A j \in Jobs : j # worker.job => slot'[j] = slot[j]
  BY DEF TypeOK, Settle
<1>4. \A i \in 1..Len(queue) : queue[i] \in Jobs => slot'[queue[i]] = "queued"
  <2> SUFFICES ASSUME NEW i \in 1..Len(queue), queue[i] \in Jobs
               PROVE  slot'[queue[i]] = "queued"
    OBVIOUS
  <2>1. slot[queue[i]] = "queued"
    BY DEF Futures
  <2>2. queue[i] # worker.job
    BY <1>1, <1>2, <2>1, JobsAreNot
  <2> QED
    BY <1>3, <2>1, <2>2
<1>5. Futures'
  BY <1>1, <1>4 DEF Futures
<1>6. SettledStep
  <2> SUFFICES ASSUME NEW j \in Jobs, slot[j] \in Settled PROVE slot'[j] = slot[j]
    BY DEF SettledStep
  <2>1. j # worker.job
    BY <1>2, JobsAreNot DEF Settled
  <2> QED
    BY <1>3, <2>1
<1> QED
  BY <1>5, <1>6

LEMMA OthersFutures ==
  ASSUME TypeOK, Futures,
         UNCHANGED <<slot, queue>>, worker'.job \in {worker.job, None}
  PROVE  Futures' /\ SettledStep
<1>1. worker.job \in Jobs \cup {None}
  BY DEF TypeOK
<1> QED
  BY <1>1, FuturesStay DEF SettledStep

LEMMA WorkerFutures ==
  ASSUME TypeOK, Futures, WorkerStep PROVE Futures' /\ SettledStep
<1>1. CASE Take \/ Drain
  BY <1>1, TakeFutures, DrainFutures
<1>2. CASE Loop \/ Idle
  BY <1>2, OthersFutures DEF Loop, Idle, Goto
<1>3. CASE Ensure
  <2>1. CASE Settle("error") /\ UNCHANGED queue
    BY <2>1, SettleFutures
  <2>2. CASE ~(Settle("error") /\ UNCHANGED queue)
    <3>1. UNCHANGED <<slot, queue>> /\ worker'.job = worker.job
      BY <1>3, <2>2 DEF Ensure, Goto
    <3> QED
      BY <3>1, OthersFutures
  <2> QED
    BY <2>1, <2>2
<1>4. CASE Connect
  <2>1. CASE usable
    <3>1. UNCHANGED <<slot, queue>> /\ worker'.job = worker.job
      BY <1>4, <2>1 DEF Connect, Goto
    <3> QED
      BY <3>1, OthersFutures
  <2>2. CASE ~usable
    BY <1>4, <2>2, SettleFutures DEF Connect
  <2> QED
    BY <2>1, <2>2
<1>5. CASE Run
  <2>1. PICK outcome : Settle(outcome)
    BY <1>5 DEF Run
  <2>2. UNCHANGED queue
    BY <1>5 DEF Run
  <2> QED
    BY <2>1, <2>2, SettleFutures
<1> QED
  BY <1>1, <1>2, <1>3, <1>4, <1>5 DEF WorkerStep

LEMMA FuturesKept ==
  TypeOK /\ Futures /\ [Next]_vars => Futures' /\ (SettledStep \/ UNCHANGED vars)
<1> SUFFICES ASSUME TypeOK, Futures, [Next]_vars
             PROVE  Futures' /\ (SettledStep \/ UNCHANGED vars)
  OBVIOUS
<1>1. CASE \E j \in Jobs : Admit(j) \/ Put(j) \/ Collect(j)
  BY <1>1, SubmitFutures
<1>2. CASE Stop \/ StopPut
  BY <1>2, SubmitFutures
<1>3. CASE WorkerStep
  BY <1>3, WorkerFutures
<1>4. CASE Cooled \/ Break \/ Notice \/ Use \/ UNCHANGED vars
  <2>1. UNCHANGED <<slot, queue, worker>>
    BY <1>4 DEF Cooled, Break, Notice, Becomes, Use, vars
  <2> QED
    BY <2>1, OthersFutures
<1> QED
  BY <1>1, <1>2, <1>3, <1>4 DEF Next

\* What a caller has been told is never changed: neither the worker nor the
\* shutdown settles a future that is settled.
THEOREM FuturesAreSettledOnce == Spec => SettledOnce
<1>1. TypeOK /\ Futures /\ [Next]_vars => [SettledStep]_vars
  BY FuturesKept
<1>2. TypeOK /\ Futures /\ [Next]_vars => Futures'
  BY FuturesKept
<1>3. Init /\ [][Next]_vars => [][SettledStep]_vars
  BY <1>1, <1>2, InitHonest, InitFutures, HonestKept, PTL
<1> QED
  BY <1>3, PTL DEF Spec, SettledOnce, SettledStep

=============================================================================
