------------------------ MODULE LiveOperationsProofs ------------------------
(***************************************************************************)
(* Theorems about LiveOperations: its types, and the truth of "the running *)
(* configuration matches the startup configuration", whatever requests of  *)
(* the operator overlap.                                                   *)
(*                                                                         *)
(* Between a job and the record of its outcome, a change has been made but *)
(* not recorded yet, and a save or a comparison has been answered but not  *)
(* recorded yet: Warranted and Match say what is known then.               *)
(***************************************************************************)
EXTENDS LiveOperations, TLAPS

Places == {"idle", "waiting", "returned", "finally", "reading"}

Threads == [pc : Places,
            kind : Kinds \cup {"none"}, job : {"none", "queued", "running"},
            read : Contents \cup {None}, outcome : BOOLEAN, current : BOOLEAN]

\* The worker's job runs, an answered request has no job, and only a running job
\* has read something.
Shape ==
  /\ worker \in Requests => requests[worker].job = "running"
  /\ \A r \in Requests :
       /\ requests[r].pc = "returned" => requests[r].job = "none"
       /\ requests[r].read # None => requests[r].job = "running"

\* What a request is about to record, or has read, is so.
Warranted(r) ==
  /\ /\ requests[r].pc = "returned" /\ requests[r].kind \in {"save", "compare"}
     /\ requests[r].outcome /\ requests[r].current
     => running = startup
  /\ requests[r].read # None /\ requests[r].current => requests[r].read = running

\* A change that needs a save has been answered and is about to be recorded.
Changed(r) ==
  requests[r].pc = "returned" /\ requests[r].kind = "change" /\ requests[r].outcome

Match == ReportsMatch /\ ~unseen => running = startup \/ \E r \in Requests : Changed(r)

Truth == (\A r \in Requests : Warranted(r)) /\ Match

-----------------------------------------------------------------------------
(* What the operators on requests do *)

LEMMA ThreadsTyped == TypeOK => requests \in [Requests -> Threads]
BY DEF TypeOK, Threads, Places

LEMMA IdleTyped ==
  ASSUME NEW STATE pc, pc \in Places
  PROVE  [IdleRequest EXCEPT !.pc = pc] \in Threads
BY DEF IdleRequest, Threads, Places

\* Only the request r becomes another one.
LEMMA Becomes ==
  ASSUME TypeOK, NEW r \in Requests, NEW STATE new, new \in Threads
  PROVE  /\ [requests EXCEPT ![r] = new] \in [Requests -> Threads]
         /\ [requests EXCEPT ![r] = new][r] = new
         /\ \A q \in Requests \ {r} : [requests EXCEPT ![r] = new][q] = requests[q]
BY ThreadsTyped

\* A step of the handler of r that changes only where it is.
LEMMA MoveSays ==
  ASSUME TypeOK, NEW r \in Requests, NEW pc \in Places,
         requests' = [requests EXCEPT ![r].pc = pc]
  PROVE  /\ requests' \in [Requests -> Threads]
         /\ \A q \in Requests \ {r} : requests'[q] = requests[q]
         /\ requests'[r] = [requests[r] EXCEPT !.pc = pc]
         /\ requests'[r].pc = pc
         /\ requests'[r].job = requests[r].job /\ requests'[r].read = requests[r].read
         /\ requests'[r].current = requests[r].current
<1>1. requests \in [Requests -> Threads]
  BY ThreadsTyped
<1> QED
  BY <1>1 DEF Threads

LEMMA PostSays ==
  ASSUME TypeOK, NEW r \in Requests, NEW kind \in Kinds, Post(r, kind)
  PROVE  /\ requests' \in [Requests -> Threads]
         /\ \A q \in Requests \ {r} : requests'[q] = requests[q]
         /\ requests'[r].pc = "waiting" /\ requests'[r].job = "queued"
         /\ requests'[r].read = None
         /\ requests[r].pc = "idle" /\ requests[r].job = "none"
<1>1. requests \in [Requests -> Threads]
  BY ThreadsTyped
<1>2. requests' = [requests EXCEPT ![r] = [IdleRequest EXCEPT
                    !.pc = "waiting", !.kind = kind, !.job = "queued"]]
      /\ ~Busy(r)
  BY DEF Post
<1>3. [IdleRequest EXCEPT !.pc = "waiting", !.kind = kind, !.job = "queued"] \in Threads
  BY DEF IdleRequest, Threads, Places
<1>4. requests' \in [Requests -> Threads]
      /\ \A q \in Requests \ {r} : requests'[q] = requests[q]
  BY <1>1, <1>2, <1>3
<1> QED
  BY <1>1, <1>2, <1>4 DEF IdleRequest, Busy

LEMMA TakeSays ==
  ASSUME TypeOK, NEW r \in Requests, Take(r)
  PROVE  /\ requests' \in [Requests -> Threads]
         /\ \A q \in Requests \ {r} : requests'[q] = requests[q]
         /\ requests'[r].job = "running" /\ requests'[r].pc = requests[r].pc
         /\ requests'[r].read = requests[r].read /\ requests'[r].kind = requests[r].kind
         /\ requests'[r].outcome = requests[r].outcome
         /\ requests'[r].current = requests[r].current
<1>1. requests \in [Requests -> Threads]
  BY ThreadsTyped
<1> QED
  BY <1>1 DEF Take, Threads

\* What Record leaves of r.
LEMMA RecordSays ==
  ASSUME TypeOK, NEW r \in Requests, Record(r)
  PROVE  /\ requests' \in [Requests -> Threads]
         /\ \A q \in Requests \ {r} : requests'[q] = requests[q]
         /\ requests'[r].pc \in {"idle", "finally"}
         /\ requests'[r].job = "none" /\ requests'[r].read = None
<1>1. PICK pc \in {"idle", "finally"} :
        requests' = [requests EXCEPT ![r] = [IdleRequest EXCEPT !.pc = pc]]
  BY DEF Record, Ended
<1>2. [IdleRequest EXCEPT !.pc = pc] \in Threads
  BY <1>1, IdleTyped DEF Places
<1>3. /\ requests' \in [Requests -> Threads]
      /\ requests'[r] = [IdleRequest EXCEPT !.pc = pc]
      /\ \A q \in Requests \ {r} : requests'[q] = requests[q]
  BY <1>1, <1>2, ThreadsTyped
<1> QED
  BY <1>3 DEF IdleRequest

\* What the job of r leaves of its request when it answers ...
LEMMA AnsweredSays ==
  ASSUME TypeOK, NEW r \in Requests, NEW STATE outcome, outcome \in BOOLEAN,
         NEW STATE current, current \in BOOLEAN
  PROVE  /\ Answered(r, outcome, current) \in [Requests -> Threads]
         /\ \A q \in Requests \ {r} : Answered(r, outcome, current)[q] = requests[q]
         /\ Answered(r, outcome, current)[r].job = "none"
         /\ Answered(r, outcome, current)[r].read = None
         /\ Answered(r, outcome, current)[r].current => current
         /\ requests[r].pc = "waiting" =>
              /\ Answered(r, outcome, current)[r].pc = "returned"
              /\ Answered(r, outcome, current)[r].kind = requests[r].kind
              /\ Answered(r, outcome, current)[r].outcome = outcome
         /\ requests[r].pc # "waiting" =>
              Answered(r, outcome, current)[r].pc = requests[r].pc
<1>1. requests \in [Requests -> Threads] /\ requests[r] \in Threads
  BY ThreadsTyped
<1>2. CASE requests[r].pc = "waiting"
  <2> DEFINE new == [requests[r] EXCEPT !.pc = "returned", !.job = "none", !.read = None,
                                        !.outcome = outcome, !.current = current]
  <2>1. Answered(r, outcome, current) = [requests EXCEPT ![r] = new]
    BY <1>1, <1>2 DEF Answered
  <2>2. new \in Threads
    BY <1>1 DEF Threads, Places
  <2>3. /\ new.job = "none" /\ new.read = None /\ new.current = current
        /\ new.pc = "returned" /\ new.kind = requests[r].kind /\ new.outcome = outcome
    BY <1>1 DEF Threads
  <2> HIDE DEF new
  <2> QED
    BY <1>2, <2>1, <2>2, <2>3, Becomes
<1>3. CASE requests[r].pc # "waiting"
  <2> DEFINE new == [IdleRequest EXCEPT !.pc = requests[r].pc]
  <2>1. Answered(r, outcome, current) = [requests EXCEPT ![r] = new]
    BY <1>1, <1>3 DEF Answered
  <2>2. new \in Threads
    BY <1>1, IdleTyped DEF Threads
  <2>3. /\ new.job = "none" /\ new.read = None /\ new.current = FALSE
        /\ new.pc = requests[r].pc
    BY DEF IdleRequest
  <2> HIDE DEF new
  <2> QED
    BY <1>3, <2>1, <2>2, <2>3, Becomes
<1> QED
  BY <1>2, <1>3

\* ... and when it raises.
LEMMA FailedSays ==
  ASSUME TypeOK, NEW r \in Requests
  PROVE  /\ Failed(r) \in [Requests -> Threads]
         /\ \A q \in Requests \ {r} : Failed(r)[q] = requests[q]
         /\ Failed(r)[r].job = "none" /\ Failed(r)[r].read = None
         /\ Failed(r)[r].current = FALSE
         /\ Failed(r)[r].pc \in {requests[r].pc, "finally", "idle"}
<1> DEFINE pc == IF requests[r].pc = "waiting" THEN Ended(r) ELSE requests[r].pc
           new == [IdleRequest EXCEPT !.pc = pc]
<1>1. Failed(r) = [requests EXCEPT ![r] = new]
  BY DEF Failed
<1>2. pc \in Places /\ pc \in {requests[r].pc, "finally", "idle"}
  BY ThreadsTyped DEF Ended, Threads, Places
<1>3. new.job = "none" /\ new.read = None /\ new.current = FALSE /\ new.pc = pc
  BY DEF IdleRequest
<1>4. new \in Threads
  BY <1>2, IdleTyped
<1> HIDE DEF new, pc
<1> QED
  BY <1>1, <1>2, <1>3, <1>4, Becomes

\* Outdating a request leaves everything else of it.
LEMMA OutdatedSays ==
  ASSUME NEW STATE threads, threads \in [Requests -> Threads]
  PROVE  /\ Outdated(threads) \in [Requests -> Threads]
         /\ \A q \in Requests :
              /\ Outdated(threads)[q].pc = threads[q].pc
              /\ Outdated(threads)[q].kind = threads[q].kind
              /\ Outdated(threads)[q].job = threads[q].job
              /\ Outdated(threads)[q].read = threads[q].read
              /\ Outdated(threads)[q].outcome = threads[q].outcome
              /\ Outdated(threads)[q].current = FALSE
<1>1. \A q \in Requests : Outdated(threads)[q] = [threads[q] EXCEPT !.current = FALSE]
  BY DEF Outdated
<1>2. \A q \in Requests :
        /\ [threads[q] EXCEPT !.current = FALSE] \in Threads
        /\ [threads[q] EXCEPT !.current = FALSE].pc = threads[q].pc
        /\ [threads[q] EXCEPT !.current = FALSE].kind = threads[q].kind
        /\ [threads[q] EXCEPT !.current = FALSE].job = threads[q].job
        /\ [threads[q] EXCEPT !.current = FALSE].read = threads[q].read
        /\ [threads[q] EXCEPT !.current = FALSE].outcome = threads[q].outcome
        /\ [threads[q] EXCEPT !.current = FALSE].current = FALSE
  BY DEF Threads
<1>3. Outdated(threads) \in [Requests -> Threads]
  BY <1>2 DEF Outdated
<1> QED
  BY <1>1, <1>2, <1>3

-----------------------------------------------------------------------------
(* Types and shape *)

LEMMA InitShape == Init => TypeOK /\ Shape
<1> SUFFICES ASSUME Init PROVE TypeOK /\ Shape
  OBVIOUS
<1>1. requests \in [Requests -> Threads]
  BY DEF Init, IdleRequest, Threads, Places
<1>2. TypeOK
  BY <1>1 DEF Init, TypeOK, Threads, Places
<1> QED
  BY <1>2, LiveAssumption DEF Init, Shape, IdleRequest

\* Nothing of the request q changes, except that it may be outdated.
Kept(q) ==
  /\ requests'[q].pc = requests[q].pc /\ requests'[q].kind = requests[q].kind
  /\ requests'[q].job = requests[q].job /\ requests'[q].read = requests[q].read
  /\ requests'[q].outcome = requests[q].outcome
  /\ requests'[q].current => requests[q].current

LEMMA SameIsKept ==
  ASSUME NEW q \in Requests, requests'[q] = requests[q] PROVE Kept(q)
BY DEF Kept

\* The shape after a step that concerns the request r only.
LEMMA ShapeOfOne ==
  ASSUME TypeOK, Shape, NEW r \in Requests, \A q \in Requests \ {r} : Kept(q),
         worker' \in {worker, r, None, "fast"},
         worker' = r => requests'[r].job = "running",
         requests'[r].pc = "returned" => requests'[r].job = "none",
         requests'[r].read # None => requests'[r].job = "running"
  PROVE  Shape'
BY LiveAssumption DEF TypeOK, Shape, Kept

LEMMA PostShape ==
  ASSUME TypeOK, Shape, NEW r \in Requests, NEW kind \in Kinds, Post(r, kind)
  PROVE  TypeOK' /\ Shape'
<1>1. TypeOK'
  BY PostSays DEF TypeOK, Threads, Places, Post, switch, tracker
<1>2. worker' = worker /\ worker # r
  BY DEF Post, Busy, Shape
<1>3. Shape'
  BY <1>2, PostSays, SameIsKept, ShapeOfOne
<1> QED
  BY <1>1, <1>3

\* The step moves the handler of r, to "returned" never.
Moves(r) ==
  \E pc \in {"idle", "finally", "reading"} : requests' = [requests EXCEPT ![r].pc = pc]

LEMMA HandlersMove ==
  ASSUME NEW r \in Requests, GiveUp(r) \/ Leave(r) \/ LeaveReading(r)
  PROVE  /\ Moves(r) /\ requests[r].pc \in {"waiting", "finally", "reading"}
         /\ UNCHANGED <<running, startup, reachable, unseen, worker, pending, differs>>
<1>1. CASE GiveUp(r)
  BY <1>1 DEF GiveUp, Ended, Moves, switch, tracker
<1>2. CASE Leave(r) \/ LeaveReading(r)
  BY <1>2 DEF Leave, LeaveReading, Moves, switch, tracker
<1> QED
  BY <1>1, <1>2

LEMMA RecordShape ==
  ASSUME TypeOK, Shape, NEW r \in Requests, Record(r)
  PROVE  TypeOK' /\ Shape'
<1>1. unseen' \in BOOLEAN
  BY DEF Record, TypeOK
<1>2. \/ RecordChange \/ RecordSave \/ UNCHANGED tracker
      \/ RecordFingerprints(requests[r].outcome)
  BY DEF Record
<1>3. pending' \in Nat /\ differs' \in {"unknown", "yes", "no"}
  BY <1>2 DEF TypeOK, RecordChange, RecordSave, RecordFingerprints, tracker
<1>4. UNCHANGED <<running, startup, reachable, worker, ticks, loop, paused, view>>
  BY DEF Record, collector
<1>5. TypeOK'
  BY <1>1, <1>3, <1>4, RecordSays DEF TypeOK, Threads, Places
<1>6. worker # r
  BY DEF Record, Shape
<1>7. Shape'
  BY <1>4, <1>6, RecordSays, SameIsKept, ShapeOfOne
<1> QED
  BY <1>5, <1>7

LEMMA HandlerShape ==
  ASSUME TypeOK, Shape, NEW r \in Requests, GiveUp(r) \/ HandlerStep(r)
  PROVE  TypeOK' /\ Shape'
<1>1. CASE Record(r)
  BY <1>1, RecordShape
<1>2. CASE GiveUp(r) \/ Leave(r) \/ LeaveReading(r)
  <2>1. PICK pc \in {"idle", "finally", "reading"} :
          requests' = [requests EXCEPT ![r].pc = pc]
    BY <1>2, HandlersMove DEF Moves
  <2>2. UNCHANGED <<running, startup, reachable, unseen, worker, pending, differs>>
    BY <1>2, HandlersMove
  <2>3. ticks' \in Nat /\ loop' = loop /\ paused' \in BOOLEAN /\ view' = view
    <3>1. CASE GiveUp(r)
      BY <3>1 DEF TypeOK, GiveUp, collector
    <3>2. CASE Leave(r)
      BY <3>2 DEF TypeOK, Leave
    <3>3. CASE LeaveReading(r)
      BY <3>3 DEF TypeOK, LeaveReading
    <3> QED
      BY <1>2, <3>1, <3>2, <3>3
  <2>4. /\ requests' \in [Requests -> Threads]
        /\ \A q \in Requests \ {r} : Kept(q)
        /\ requests'[r].pc = pc
        /\ requests'[r].job = requests[r].job /\ requests'[r].read = requests[r].read
    BY <2>1, MoveSays, SameIsKept DEF Places
  <2>5. TypeOK'
    BY <2>2, <2>3, <2>4 DEF TypeOK, Threads, Places
  <2>6. Shape'
    BY <2>1, <2>2, <2>4, ShapeOfOne DEF Shape
  <2> QED
    BY <2>5, <2>6
<1> QED
  BY <1>1, <1>2 DEF HandlerStep

LEMMA CollectorShape ==
  ASSUME TypeOK, Shape, LoopTick \/ LoopSubmit \/ TakeFast \/ Fast \/ Reach
  PROVE  TypeOK' /\ Shape'
<1>1. requests' = requests /\ worker' \in {worker, None, "fast"}
  BY DEF LoopTick, LoopSubmit, TakeFast, Fast, Reach
<1>2. UNCHANGED <<running, startup, unseen, tracker>>
  BY DEF LoopTick, LoopSubmit, TakeFast, Fast, Reach, switch
<1>3. ticks' \in Nat /\ reachable' \in BOOLEAN /\ loop' \in {"idle", "submitting"}
      /\ paused' = paused /\ view' \in Contents \cup {None}
  <2>1. CASE LoopTick \/ LoopSubmit
    BY <2>1 DEF TypeOK, LoopTick, LoopSubmit, switch
  <2>2. CASE TakeFast
    BY <2>2 DEF TypeOK, TakeFast, switch
  <2>3. CASE Fast
    BY <2>3 DEF TypeOK, Fast, switch, collector
  <2>4. CASE Reach
    BY <2>4 DEF TypeOK, Reach, collector
  <2> QED
    BY <2>1, <2>2, <2>3, <2>4
<1>4. TypeOK'
  BY <1>1, <1>2, <1>3 DEF TypeOK, tracker
<1>5. Shape'
  BY <1>1, LiveAssumption DEF TypeOK, Shape
<1> QED
  BY <1>4, <1>5

\* The job of r ends, and with it what it had read.
Ends(r) ==
  /\ worker = r /\ worker' = None
  /\ requests' \in [Requests -> Threads]
  /\ \A q \in Requests \ {r} : Kept(q)
  /\ requests'[r].job = "none" /\ requests'[r].read = None

LEMMA FailEnds ==
  ASSUME TypeOK, NEW r \in Requests, Fail(r)
  PROVE  Ends(r) /\ requests'[r].current = FALSE
BY FailedSays, SameIsKept DEF Fail, Ends

LEMMA AnswerEnds ==
  ASSUME TypeOK, NEW r \in Requests, NEW STATE outcome, outcome \in BOOLEAN,
         NEW STATE current, current \in BOOLEAN,
         worker = r, Answer(r, outcome, current)
  PROVE  Ends(r) /\ (requests'[r].current => current)
BY AnsweredSays, SameIsKept DEF Answer, Ends

\* A job that ends and outdates everybody.
LEMMA OutdatedEnds ==
  ASSUME NEW r \in Requests, worker = r, worker' = None,
         NEW STATE threads, threads \in [Requests -> Threads],
         \A q \in Requests \ {r} : threads[q] = requests[q],
         threads[r].job = "none", threads[r].read = None,
         requests' = Outdated(threads)
  PROVE  Ends(r) /\ \A q \in Requests : requests'[q].current = FALSE
<1>1. /\ requests' \in [Requests -> Threads]
      /\ \A q \in Requests :
           /\ requests'[q].pc = threads[q].pc /\ requests'[q].kind = threads[q].kind
           /\ requests'[q].job = threads[q].job /\ requests'[q].read = threads[q].read
           /\ requests'[q].outcome = threads[q].outcome
           /\ requests'[q].current = FALSE
  BY OutdatedSays
<1>2. \A q \in Requests \ {r} : Kept(q)
  BY <1>1 DEF Kept
<1> QED
  BY <1>1, <1>2 DEF Ends

\* What a change leaves, whether it answers or raises.
LEMMA ChangeEnds ==
  ASSUME TypeOK, NEW r \in Requests, Change(r)
  PROVE  /\ Ends(r) /\ running' \in Contents /\ unseen' \in BOOLEAN
         /\ requests'[r].current = FALSE
         /\ running' # running => \A q \in Requests : requests'[q].current = FALSE
<1>1. worker = r
  BY DEF Change
<1>2. PICK content \in Contents :
        \/ \E save \in BOOLEAN :
             /\ Leaves(content, Answered(r, save, FALSE))
             /\ unseen' = (unseen \/ (content # running /\ requests[r].pc # "waiting"))
        \/ /\ Leaves(content, Failed(r))
           /\ unseen' = (unseen \/ content # running)
  BY DEF Change
<1>3. PICK save \in BOOLEAN :
        \/ Leaves(content, Answered(r, save, FALSE)) \/ Leaves(content, Failed(r))
  BY <1>2
<1>4. running' \in Contents /\ unseen' \in BOOLEAN /\ running' = content /\ worker' = None
  <2>1. unseen \in BOOLEAN
    BY DEF TypeOK
  <2>2. unseen' \in BOOLEAN
    BY <1>2, <2>1
  <2> QED
    BY <1>3, <2>2 DEF Leaves
<1>5. \E threads \in {Answered(r, save, FALSE), Failed(r)} :
        requests' = IF running' = running THEN threads ELSE Outdated(threads)
  BY <1>3 DEF Leaves
<1>6. ASSUME requests' = (IF running' = running THEN Answered(r, save, FALSE)
                                               ELSE Outdated(Answered(r, save, FALSE)))
      PROVE  /\ Ends(r) /\ requests'[r].current = FALSE
             /\ running' # running => \A q \in Requests : requests'[q].current = FALSE
  <2>1. Answered(r, save, FALSE) \in [Requests -> Threads]
    BY AnsweredSays
  <2>2. CASE running' = running
    <3>1. Answer(r, save, FALSE)
      BY <1>4, <1>6, <2>2 DEF Answer
    <3>2. requests'[r].current \in BOOLEAN
      BY <1>6, <2>1, <2>2 DEF Threads
    <3> QED
      BY <1>1, <2>2, <3>1, <3>2, AnswerEnds
  <2>3. CASE running' # running
    <3>1. requests' = Outdated(Answered(r, save, FALSE))
      BY <1>6, <2>3
    <3> QED
      <4> DEFINE threads == Answered(r, save, FALSE)
      <4>1. /\ threads \in [Requests -> Threads]
            /\ \A q \in Requests \ {r} : threads[q] = requests[q]
            /\ threads[r].job = "none" /\ threads[r].read = None
        <5>1. \A q \in Requests \ {r} : threads[q] = requests[q]
          BY DEF Answered
        <5>2. requests \in [Requests -> Threads]
          BY ThreadsTyped
        <5>3. threads[r].job = "none" /\ threads[r].read = None
          BY <5>2 DEF Answered, Threads, IdleRequest
        <5> QED
          BY <2>1, <5>1, <5>3
      <4>2. requests' = Outdated(threads)
        BY <3>1
      <4> HIDE DEF threads
      <4>3. Ends(r) /\ \A q \in Requests : requests'[q].current = FALSE
        BY <1>1, <1>4, <4>1, <4>2, OutdatedEnds
      <4> QED
        BY <4>3
  <2> QED
    BY <2>2, <2>3
<1>7. ASSUME requests' = (IF running' = running THEN Failed(r) ELSE Outdated(Failed(r)))
      PROVE  /\ Ends(r) /\ requests'[r].current = FALSE
             /\ running' # running => \A q \in Requests : requests'[q].current = FALSE
  <2>1. CASE running' = running
    <3>1. Fail(r)
      BY <1>1, <1>4, <1>7, <2>1 DEF Fail
    <3> QED
      BY <2>1, <3>1, FailEnds
  <2>2. CASE running' # running
    <3>1. requests' = Outdated(Failed(r))
      BY <1>7, <2>2
    <3> QED
      BY <1>1, <1>4, <3>1, FailedSays, OutdatedEnds
  <2> QED
    BY <2>1, <2>2
<1> QED
  BY <1>4, <1>5, <1>6, <1>7

LEMMA WriteEnds ==
  ASSUME TypeOK, NEW r \in Requests, Write(r)
  PROVE  /\ Ends(r) /\ startup' \in Contents /\ startup' \in {startup, running}
         /\ requests'[r].current => startup' = running
<1>1. startup' \in Contents /\ worker = r /\ startup' \in {startup, running}
  BY DEF Write, TypeOK
<1>2. \/ Fail(r)
      \/ startup' = running /\ Answer(r, TRUE, TRUE)
      \/ Answer(r, FALSE, FALSE)
  BY DEF Write
<1>3. Fail(r) => Ends(r) /\ requests'[r].current = FALSE
  BY FailEnds
<1>4. Answer(r, TRUE, TRUE) => Ends(r)
  BY <1>1, AnswerEnds
<1>5. Answer(r, FALSE, FALSE) => Ends(r) /\ ~requests'[r].current
  BY <1>1, AnswerEnds
<1> QED
  BY <1>1, <1>2, <1>3, <1>4, <1>5

LEMMA CompareEnds ==
  ASSUME TypeOK, NEW r \in Requests, CompareStartup(r) PROVE Ends(r)
<1>1. worker = r /\ requests[r].current \in BOOLEAN /\ (requests[r].read = startup) \in BOOLEAN
  BY DEF CompareStartup, TypeOK
<1>2. Fail(r) \/ Answer(r, requests[r].read = startup, requests[r].current)
  BY DEF CompareStartup
<1>3. Answer(r, requests[r].read = startup, requests[r].current) => Ends(r)
  BY <1>1, AnswerEnds
<1> QED
  BY <1>2, <1>3, FailEnds

LEMMA EndsShape ==
  ASSUME TypeOK, Shape, NEW r \in Requests, Ends(r) PROVE Shape'
BY ShapeOfOne, LiveAssumption DEF Ends

\* A comparison reads the running configuration.
LEMMA ReadSays ==
  ASSUME TypeOK, NEW r \in Requests,
         requests' = [requests EXCEPT ![r].read = running, ![r].current = TRUE]
  PROVE  /\ requests' \in [Requests -> Threads]
         /\ \A q \in Requests \ {r} : requests'[q] = requests[q]
         /\ requests'[r].read = running
         /\ requests'[r].pc = requests[r].pc /\ requests'[r].job = requests[r].job
<1>1. requests \in [Requests -> Threads] /\ running \in Contents
  BY ThreadsTyped DEF TypeOK
<1>2. requests' = [requests EXCEPT ![r] =
                     [requests[r] EXCEPT !.read = running, !.current = TRUE]]
  BY <1>1 DEF Threads
<1>3. [requests[r] EXCEPT !.read = running, !.current = TRUE] \in Threads
  BY <1>1 DEF Threads
<1>4. requests' \in [Requests -> Threads]
      /\ \A q \in Requests \ {r} : requests'[q] = requests[q]
  BY <1>1, <1>2, <1>3
<1> QED
  BY <1>1, <1>2, <1>4 DEF Threads

LEMMA WorkerShape ==
  ASSUME TypeOK, Shape, NEW r \in Requests,
         Take(r) \/ Change(r) \/ Write(r) \/ CompareRunning(r) \/ CompareStartup(r)
  PROVE  TypeOK' /\ Shape'
<1>1. CASE Take(r)
  <2>1. UNCHANGED <<switch, collector, view, tracker>> /\ worker' = r
    BY <1>1 DEF Take
  <2>2. requests' \in [Requests -> Threads] /\ worker' \in Requests
    BY <1>1, <2>1, TakeSays
  <2>3. TypeOK'
    BY <2>1, <2>2 DEF TypeOK, Threads, Places, switch, collector, tracker
  <2>4. /\ requests'[r].job = "running" /\ \A q \in Requests \ {r} : Kept(q)
        /\ requests'[r].pc = requests[r].pc /\ requests[r].job = "queued"
    BY <1>1, TakeSays, SameIsKept DEF Take
  <2>5. requests'[r].pc # "returned"
    BY <2>4 DEF Shape
  <2>6. Shape'
    BY <2>1, <2>4, <2>5, ShapeOfOne
  <2> QED
    BY <2>3, <2>6
<1>2. CASE CompareRunning(r) /\ ~Fail(r)
  <2>1. /\ UNCHANGED <<switch, collector, view, tracker, worker>> /\ worker = r
        /\ requests' = [requests EXCEPT ![r].read = running, ![r].current = TRUE]
    BY <1>2 DEF CompareRunning
  <2>2. TypeOK'
    BY <2>1, ReadSays DEF TypeOK, Threads, Places, switch, collector, tracker
  <2>3. Shape'
    BY <2>1, ReadSays, SameIsKept, ShapeOfOne DEF Shape
  <2> QED
    BY <2>2, <2>3
<1>3. CASE Change(r) \/ Write(r) \/ CompareStartup(r) \/ (CompareRunning(r) /\ Fail(r))
  <2>1. Ends(r) /\ running' \in Contents /\ startup' \in Contents /\ unseen' \in BOOLEAN
    <3>1. CASE Change(r)
      BY <3>1, ChangeEnds DEF Change, TypeOK
    <3>2. CASE Write(r)
      BY <3>2, WriteEnds DEF Write, TypeOK
    <3>3. CASE CompareStartup(r)
      BY <3>3, CompareEnds DEF CompareStartup, TypeOK, switch
    <3>4. CASE CompareRunning(r) /\ Fail(r)
      BY <3>4, FailEnds DEF CompareRunning, TypeOK, switch
    <3> QED
      BY <1>3, <3>1, <3>2, <3>3, <3>4
  <2>2. UNCHANGED <<reachable, collector, view, tracker>>
    BY <1>3 DEF Change, Write, CompareStartup, CompareRunning, switch
  <2>3. TypeOK'
    BY <2>1, <2>2 DEF TypeOK, Ends, Threads, Places, collector, tracker
  <2> QED
    BY <2>1, <2>3, EndsShape
<1> QED
  BY <1>1, <1>2, <1>3

LEMMA ConsoleShape == ASSUME TypeOK, Shape, Console PROVE TypeOK' /\ Shape'
<1>1. /\ requests' \in [Requests -> Threads]
      /\ \A q \in Requests : /\ requests'[q].pc = requests[q].pc
                             /\ requests'[q].job = requests[q].job
                             /\ requests'[q].read = requests[q].read
  BY ThreadsTyped, OutdatedSays DEF Console
<1>2. /\ UNCHANGED <<reachable, worker, ticks, loop, paused, view, pending, differs>>
      /\ running' \in Contents /\ startup' \in Contents /\ unseen' \in BOOLEAN
  BY DEF Console, collector, tracker
<1>3. TypeOK'
  BY <1>1, <1>2 DEF TypeOK, Threads, Places
<1>4. Shape'
  BY <1>1, <1>2 DEF Shape
<1> QED
  BY <1>3, <1>4

LEMMA RestartShape == ASSUME TypeOK, Restart PROVE TypeOK' /\ Shape'
<1>1. requests' \in [Requests -> Threads]
  BY DEF Restart, IdleRequest, Threads, Places
<1>2. TypeOK'
  <2>1. UNCHANGED <<running, startup, reachable, unseen>>
    BY DEF Restart, switch
  <2>2. /\ worker' = None /\ ticks' = 0 /\ loop' = "idle" /\ paused' = FALSE
        /\ view' = None /\ pending' = 0 /\ differs' = "unknown"
    BY DEF Restart
  <2> QED
    BY <1>1, <2>1, <2>2 DEF TypeOK, Threads, Places
<1>3. Shape'
  BY LiveAssumption DEF Restart, Shape, IdleRequest
<1> QED
  BY <1>2, <1>3

LEMMA NextShape == TypeOK /\ Shape /\ [Next]_vars => TypeOK' /\ Shape'
<1> SUFFICES ASSUME TypeOK, Shape, [Next]_vars PROVE TypeOK' /\ Shape'
  OBVIOUS
<1>1. CASE UNCHANGED vars
  BY <1>1 DEF vars, TypeOK, Shape, switch, collector, tracker
<1>2. CASE Next
  BY <1>2, PostShape, HandlerShape, CollectorShape, WorkerShape, ConsoleShape, RestartShape
     DEF Next, WorkerStep
<1> QED
  BY <1>1, <1>2

\* Everything around a device job keeps its type: in particular no reading is taken
\* off an empty queue.
THEOREM LiveTypeCorrect == Spec => []TypeOK
<1>1. Init /\ [][Next]_vars => []TypeOK
  BY InitShape, NextShape, PTL
<1> QED
  BY <1>1, PTL DEF Spec

-----------------------------------------------------------------------------
(* The reported match *)

\* The requests that a step leaves alone, or outdates.
LEMMA KeptWarranted ==
  ASSUME Truth, NEW q \in Requests, Kept(q),
         requests'[q].current => running' = running,
         running = startup => running' = startup' \/ ~requests'[q].current
  PROVE  Warranted(q)'
BY DEF Truth, Warranted, Kept

\* A step that records nothing and takes no recorded match away.
LEMMA StillMatches ==
  ASSUME Truth, \A q \in Requests : Changed(q) => Changed(q)',
         UNCHANGED <<pending, differs>>, unseen => unseen',
         ReportsMatch /\ ~unseen' /\ running = startup =>
           running' = startup' \/ \E q \in Requests : Changed(q)'
  PROVE  Match'
BY DEF Truth, Match, ReportsMatch

\* A step of the request r only, which records nothing and touches no configuration.
LEMMA QuietTruth ==
  ASSUME Truth, NEW r \in Requests, \A q \in Requests \ {r} : Kept(q),
         ~Changed(r), Warranted(r)',
         UNCHANGED <<running, startup, unseen, pending, differs>>
  PROVE  Truth'
<1>1. \A q \in Requests \ {r} : Warranted(q)'
  BY KeptWarranted
<1>2. \A q \in Requests : Changed(q) => Changed(q)'
  BY DEF Changed, Kept
<1>3. Match'
  BY <1>2, StillMatches
<1> QED
  BY <1>1, <1>3 DEF Truth

\* What is warranted when a job ends, and what is not disturbed by it.
LEMMA EndsTruth ==
  ASSUME TypeOK, Shape, Truth, NEW r \in Requests, Ends(r),
         UNCHANGED <<pending, differs>>, unseen => unseen',
         requests'[r].current /\ requests'[r].outcome => running' = startup',
         \A q \in Requests \ {r} : requests'[q].current => running' = running,
         running = startup => running' = startup' \/ running' # running,
         ~unseen' => running' = running \/ Changed(r)'
  PROVE  Truth'
<1>1. requests[r].pc # "returned" /\ requests'[r].read = None
  BY DEF Shape, Ends
<1>2. \A q \in Requests \ {r} : Warranted(q)'
  BY KeptWarranted DEF Ends
<1>3. Warranted(r)'
  BY <1>1 DEF Warranted
<1>4. \A q \in Requests : Changed(q) => Changed(q)'
  BY <1>1 DEF Changed, Ends, Kept
<1>5. Match'
  BY <1>4, StillMatches
<1> QED
  BY <1>2, <1>3, <1>5 DEF Truth

LEMMA ChangeTruth ==
  ASSUME TypeOK, Shape, Truth, NEW r \in Requests, Change(r) PROVE Truth'
<1>1. UNCHANGED <<startup, pending, differs>> /\ worker = r /\ requests[r].kind = "change"
  BY DEF Change, tracker
<1>2. /\ Ends(r) /\ requests'[r].current = FALSE
      /\ running' # running => \A q \in Requests : requests'[q].current = FALSE
  BY ChangeEnds
<1>3. PICK content \in Contents :
        \/ \E save \in BOOLEAN :
             /\ content # running => save
             /\ Leaves(content, Answered(r, save, FALSE))
             /\ unseen' = (unseen \/ (content # running /\ requests[r].pc # "waiting"))
        \/ /\ Leaves(content, Failed(r))
           /\ unseen' = (unseen \/ content # running)
  BY DEF Change
<1>4. running' = content /\ (unseen => unseen')
  BY <1>3 DEF Leaves
<1>5. ASSUME ~unseen', running' # running PROVE Changed(r)'
  <2>1. PICK save \in BOOLEAN :
          /\ save /\ requests[r].pc = "waiting"
          /\ requests' = Outdated(Answered(r, save, FALSE))
    BY <1>3, <1>4, <1>5 DEF Leaves
  <2> DEFINE threads == Answered(r, save, FALSE)
  <2>2. /\ threads \in [Requests -> Threads]
        /\ threads[r].pc = "returned" /\ threads[r].kind = "change" /\ threads[r].outcome
    BY <1>1, <2>1, AnsweredSays
  <2> HIDE DEF threads
  <2>3. /\ requests'[r].pc = threads[r].pc /\ requests'[r].kind = threads[r].kind
        /\ requests'[r].outcome = threads[r].outcome
    BY <2>1, <2>2, OutdatedSays DEF threads
  <2> QED
    BY <2>2, <2>3 DEF Changed
<1> QED
  BY <1>1, <1>2, <1>4, <1>5, EndsTruth

LEMMA WriteTruth ==
  ASSUME TypeOK, Shape, Truth, NEW r \in Requests, Write(r) PROVE Truth'
<1>1. UNCHANGED <<running, unseen, pending, differs>>
  BY DEF Write, tracker
<1> QED
  BY <1>1, WriteEnds, EndsTruth

LEMMA CompareTruth ==
  ASSUME TypeOK, Shape, Truth, NEW r \in Requests, CompareStartup(r) PROVE Truth'
<1>1. UNCHANGED <<running, startup, unseen, pending, differs>> /\ worker = r
      /\ requests[r].read # None /\ requests[r].current \in BOOLEAN
  BY DEF CompareStartup, switch, tracker, TypeOK
<1>2. requests'[r].current /\ requests'[r].outcome => running = startup
  <2>1. CASE Fail(r)
    BY <2>1, FailEnds
  <2>2. CASE Answer(r, requests[r].read = startup, requests[r].current)
    <3>1. requests[r].current => requests[r].read = running
      BY <1>1 DEF Truth, Warranted
    <3>2. PICK equal \in BOOLEAN : equal = (requests[r].read = startup)
      OBVIOUS
    <3>3. requests' = Answered(r, equal, requests[r].current)
      BY <2>2, <3>2 DEF Answer
    <3>4. /\ requests'[r].current => requests[r].current
          /\ requests[r].pc = "waiting" => requests'[r].outcome = equal
      BY <1>1, <3>3, AnsweredSays
    <3>5. requests[r].pc # "waiting" => requests'[r].current = FALSE
      BY <1>1, <3>3, ThreadsTyped DEF Answered, IdleRequest
    <3> QED
      BY <3>1, <3>2, <3>4, <3>5
  <2> QED
    BY <2>1, <2>2 DEF CompareStartup
<1> QED
  BY <1>1, <1>2, CompareEnds, EndsTruth

LEMMA TakeTruth ==
  ASSUME TypeOK, Shape, Truth, NEW r \in Requests, Take(r) PROVE Truth'
<1>1. UNCHANGED <<running, startup, unseen, pending, differs>> /\ requests[r].job = "queued"
  BY DEF Take, switch, tracker
<1>2. requests[r].pc # "returned" /\ \A q \in Requests \ {r} : Kept(q)
  BY <1>1, TakeSays, SameIsKept DEF Shape
<1>3. Warranted(r)'
  BY <1>1, TakeSays DEF Truth, Warranted
<1> QED
  BY <1>1, <1>2, <1>3, QuietTruth DEF Changed

LEMMA ReadTruth ==
  ASSUME TypeOK, Shape, Truth, NEW r \in Requests, CompareRunning(r) PROVE Truth'
<1>1. UNCHANGED <<running, startup, unseen, pending, differs>> /\ worker = r
  BY DEF CompareRunning, switch, tracker
<1>2. requests[r].pc # "returned"
  BY <1>1 DEF Shape
<1>3. CASE Fail(r)
  BY <1>1, <1>3, FailEnds, EndsTruth
<1>4. CASE ~Fail(r)
  <2>1. requests' = [requests EXCEPT ![r].read = running, ![r].current = TRUE]
    BY <1>4 DEF CompareRunning
  <2>2. /\ \A q \in Requests \ {r} : Kept(q)
        /\ requests'[r].read = running /\ requests'[r].pc = requests[r].pc
    BY <2>1, ReadSays, SameIsKept
  <2>3. Warranted(r)'
    BY <1>1, <1>2, <2>2 DEF Warranted
  <2> QED
    BY <1>1, <1>2, <2>2, <2>3, QuietTruth DEF Changed
<1> QED
  BY <1>3, <1>4

LEMMA PostTruth ==
  ASSUME TypeOK, Shape, Truth, NEW r \in Requests, NEW kind \in Kinds, Post(r, kind)
  PROVE  Truth'
<1>1. UNCHANGED <<running, startup, unseen, pending, differs>>
  BY DEF Post, switch, tracker
<1>2. /\ \A q \in Requests \ {r} : Kept(q)
      /\ requests[r].pc = "idle" /\ requests'[r].pc = "waiting" /\ requests'[r].read = None
  BY PostSays, SameIsKept
<1> QED
  BY <1>1, <1>2, QuietTruth DEF Changed, Warranted

LEMMA MoveTruth ==
  ASSUME TypeOK, Shape, Truth, NEW r \in Requests, GiveUp(r) \/ Leave(r) \/ LeaveReading(r)
  PROVE  Truth'
<1>1. PICK pc \in {"idle", "finally", "reading"} : requests' = [requests EXCEPT ![r].pc = pc]
  BY HandlersMove DEF Moves
<1>2. /\ UNCHANGED <<running, startup, unseen, pending, differs>>
      /\ requests[r].pc # "returned"
  BY HandlersMove
<1>3. /\ \A q \in Requests \ {r} : Kept(q)
      /\ requests'[r].pc # "returned" /\ requests'[r].read = requests[r].read
      /\ requests'[r].current = requests[r].current
  BY <1>1, MoveSays, SameIsKept DEF Places
<1> QED
  BY <1>2, <1>3, QuietTruth DEF Truth, Warranted, Changed

\* What an answer says is recorded only as long as it is current, or unseen says so.
LEMMA RecordTruth ==
  ASSUME TypeOK, Shape, Truth, NEW r \in Requests, Record(r) PROVE Truth'
<1>1. UNCHANGED <<running, startup>> /\ requests[r].pc = "returned"
  BY DEF Record
<1>2. /\ \A q \in Requests \ {r} : Kept(q)
      /\ requests'[r].pc # "returned" /\ requests'[r].read = None
  BY RecordSays, SameIsKept
<1>3. \A q \in Requests \ {r} : Warranted(q)' /\ (Changed(q) => Changed(q)')
  BY <1>1, <1>2, KeptWarranted DEF Changed, Kept
<1>4. Warranted(r)'
  BY <1>2 DEF Warranted
<1>5. Match'
  <2>1. CASE Changed(r)
    <3>1. pending' = pending + 1 /\ pending \in Nat
      BY <2>1 DEF Changed, Record, RecordChange, TypeOK
    <3> QED
      BY <3>1 DEF Match, ReportsMatch
  <2>2. CASE requests[r].kind = "save" /\ requests[r].outcome
    <3>1. unseen' = ~requests[r].current
      BY <2>2 DEF Record
    <3> QED
      BY <1>1, <2>2, <3>1 DEF Truth, Warranted, Match
  <2>3. CASE requests[r].kind = "compare"
    <3>1. unseen' = ~requests[r].current
          /\ differs' = IF requests[r].outcome THEN "no" ELSE "yes"
      BY <2>3 DEF Record, RecordFingerprints
    <3> QED
      BY <1>1, <2>3, <3>1 DEF Truth, Warranted, Match, ReportsMatch
  <2>4. CASE ~Changed(r) /\ requests[r].kind # "compare"
             /\ ~(requests[r].kind = "save" /\ requests[r].outcome)
    <3>1. UNCHANGED <<unseen, pending, differs>>
      BY <1>1, <2>4 DEF Record, Changed, tracker
    <3> QED
      BY <1>1, <1>3, <2>4, <3>1, StillMatches
  <2> QED
    BY <2>1, <2>2, <2>3, <2>4
<1> QED
  BY <1>3, <1>4, <1>5 DEF Truth

\* Steps that leave the requests, the configurations and the tracker alone.
LEMMA OthersTruth ==
  ASSUME Truth, UNCHANGED <<requests, running, startup, unseen, pending, differs>>
  PROVE  Truth'
BY DEF Truth, Warranted, Match, ReportsMatch, Changed

LEMMA ConsoleTruth == ASSUME TypeOK, Truth, Console PROVE Truth'
<1>1. \A q \in Requests : requests'[q].current = FALSE
  BY ThreadsTyped, OutdatedSays DEF Console
<1>2. unseen' = TRUE
  BY DEF Console
<1> QED
  BY <1>1, <1>2 DEF Truth, Warranted, Match

LEMMA RestartTruth == Restart => Truth'
BY DEF Restart, IdleRequest, Truth, Warranted, Match, ReportsMatch

LEMMA InitTruth == Init => Truth
BY DEF Init, IdleRequest, Truth, Warranted, Match, ReportsMatch

LEMMA NextTruth == TypeOK /\ Shape /\ Truth /\ [Next]_vars => Truth'
<1> SUFFICES ASSUME TypeOK, Shape, Truth, [Next]_vars PROVE Truth'
  OBVIOUS
<1>1. CASE LoopTick \/ LoopSubmit \/ TakeFast \/ Fast \/ Reach \/ UNCHANGED vars
  <2>1. UNCHANGED <<requests, running, startup, unseen, pending, differs>>
    BY <1>1 DEF LoopTick, LoopSubmit, TakeFast, Fast, Reach, vars, switch, tracker
  <2> QED
    BY <2>1, OthersTruth
<1>2. CASE WorkerStep /\ ~TakeFast /\ ~Fast
  BY <1>2, TakeTruth, ChangeTruth, WriteTruth, ReadTruth, CompareTruth DEF WorkerStep
<1>3. CASE \E r \in Requests :
             (\E kind \in Kinds : Post(r, kind)) \/ GiveUp(r) \/ HandlerStep(r)
  BY <1>3, PostTruth, MoveTruth, RecordTruth DEF HandlerStep
<1> QED
  BY <1>1, <1>2, <1>3, ConsoleTruth, RestartTruth DEF Next, WorkerStep

\* When the interface says that running and startup configuration match, and nobody
\* has changed the switch without a record, it is so: whatever requests overlap and
\* in whatever order they record, however handlers give up, jobs fail, the switch
\* vanishes and the process restarts.
THEOREM MatchIsTrue == Spec => []ReportedMatchIsTrue
<1>1. Init => TypeOK /\ Shape /\ Truth
  BY InitShape, InitTruth
<1>2. TypeOK /\ Shape /\ Truth /\ [Next]_vars => (TypeOK /\ Shape /\ Truth)'
  BY NextShape, NextTruth
<1>3. Truth => ReportedMatchIsTrue
  BY DEF Truth, Match, Changed, Unrecorded, ReportedMatchIsTrue
<1>4. Init /\ [][Next]_vars => []ReportedMatchIsTrue
  BY <1>1, <1>2, <1>3, PTL
<1> QED
  BY <1>4, PTL DEF Spec

=============================================================================
