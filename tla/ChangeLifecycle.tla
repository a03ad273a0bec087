--------------------------- MODULE ChangeLifecycle ---------------------------
(***************************************************************************)
(* What Change Assurance keeps of its change sessions, apart from how it   *)
(* keeps it.  A session is open until an execution takes it up; one        *)
(* execution runs at a time, and sends its configuration at most once.     *)
(* One that ends before anything was sent may leave its session open; any  *)
(* other end closes it, unless the end could not be recorded.  A request   *)
(* that failed may disown what the record says of a session.               *)
(***************************************************************************)
CONSTANT Sessions  \* change sessions that may be planned

VARIABLES
  phase,     \* phase[s]: see Phases
  attempted  \* sessions whose last execution has sent its configuration

vars == <<phase, attempted>>

\* "running": an execution is under way, and on record; "usurped": it is under
\* way and disowned; "stranded": it is on record and not under way.
Phases == {"open", "running", "usurped", "stranded", "closed"}

Active(s) == phase[s] \in {"running", "usurped"}

Init == phase = [s \in Sessions |-> "open"] /\ attempted = {}

\* An execution takes up an open session, alone.
Begin(s) ==
  /\ phase[s] = "open"
  /\ \A t \in Sessions : ~Active(t)
  /\ phase' = [phase EXCEPT ![s] = "running"]
  /\ attempted' = attempted \ {s}

\* The configuration goes out, once in an execution.
Attempt(s) ==
  /\ Active(s)
  /\ s \notin attempted
  /\ attempted' = attempted \cup {s}
  /\ phase' \in {phase, [phase EXCEPT ![s] = "running"]}

\* The execution puts itself on record again.
Reclaim(s) ==
  /\ phase[s] = "usurped"
  /\ phase' = [phase EXCEPT ![s] = "running"]
  /\ UNCHANGED attempted

\* Called off: nothing has been sent.
Abandon(s) ==
  /\ Active(s)
  /\ s \notin attempted
  /\ phase' = [phase EXCEPT ![s] = "open"]
  /\ UNCHANGED attempted

Close(s) ==
  /\ Active(s)
  /\ phase' = [phase EXCEPT ![s] = "closed"]
  /\ UNCHANGED attempted

\* The execution ends, and the record of its end is lost.
Strand(s) ==
  /\ Active(s)
  /\ phase' = [phase EXCEPT ![s] = IF @ = "running" THEN "stranded" ELSE "open"]
  /\ UNCHANGED attempted

\* A request that failed writes over the record.
Disown(s) ==
  /\ phase[s] \in {"running", "stranded", "closed"}
  /\ phase' = [phase EXCEPT ![s] = IF @ = "running" THEN "usurped" ELSE "open"]
  /\ UNCHANGED attempted

\* Everything stops; whatever was on record as under way is closed.
Crash ==
  /\ phase' = [s \in Sessions |->
                 CASE phase[s] \in {"running", "stranded"} -> "closed"
                   [] phase[s] = "usurped" -> "open"
                   [] OTHER -> phase[s]]
  /\ UNCHANGED attempted

Next == \/ \E s \in Sessions : \/ Begin(s) \/ Attempt(s) \/ Reclaim(s)
                               \/ Abandon(s) \/ Close(s) \/ Strand(s) \/ Disown(s)
        \/ Crash

Spec == Init /\ [][Next]_vars
=============================================================================
