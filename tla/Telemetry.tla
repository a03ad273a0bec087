------------------------------ MODULE Telemetry ------------------------------
(***************************************************************************)
(* What a poll of the switch leaves behind (telemetry_store.py) and what   *)
(* it says of the health of the switch (health_logic.py), as               *)
(* main.py::_collect_dashboard runs them.                                  *)
(*                                                                         *)
(* The environment moves links, counts errors and clears counters.  A poll *)
(* reads a column per IOS command; a command that fails leaves its column  *)
(* empty.  The store compares the reading with the last snapshot, and      *)
(* commits the new snapshot with the events of the comparison; the health  *)
(* of the poll is worked out from the same comparison in another module.   *)
(*                                                                         *)
(* An interface has nine counters, each CounterMax + 1 values wide, 2^32   *)
(* in the code; what is compared is their sum.  The switch always gives    *)
(* its name (Discovery.tla has the poll that cannot tell it).              *)
(***************************************************************************)
EXTENDS Integers

CONSTANTS
  Ports,          \* the interfaces of the switch
  Uplinks,        \* those whose description says uplink, router or gateway
  Speeds,         \* negotiated speeds, in Mbps
  Vlans,          \* access VLANs
  Macs,           \* addresses the switch may learn
  CounterMax,     \* the largest value of an error counter
  Active,         \* the counters that ever count
  AttentionDelta, \* errors between two polls that deserve attention
  CriticalDelta,  \* errors between two polls that are critical
  Vitals,         \* what the temperature, CPU and memory of a poll may amount to
  Bursts,         \* numbers of errors that may occur at once
  Outages,        \* the sets of sections that may be missing from a reading
  Starts,         \* the states in which a port may be found at first
  MaxMoves,       \* bound: changes of the switch
  MaxFailures,    \* bound: polls that read or store less than everything
  None            \* no row, nothing told

\* The commands of a poll; "other" is every one the comparison does not use.
Sections == {"interfaces", "errors", "poe", "macTable", "other"}

Severities == {"HEALTHY", "NOTICE", "ATTENTION", "CRITICAL"}

Rank(severity) ==
  CASE severity = "HEALTHY"   -> 0
    [] severity = "NOTICE"    -> 1
    [] severity = "ATTENTION" -> 2
    [] OTHER                  -> 3

Links == {"connected", "notconnect", "disabled"}
Duplexes == {"a-full", "a-half", "half"}

Powers == {"on", "off", "faulty"}

\* The columns of show interfaces counters errors.
Counters == {"align_err", "fcs_err", "xmit_err", "rcv_err", "under_size",
             "single_col", "multi_col", "late_col", "excess_col"}

Total(errors) ==
  errors["align_err"] + errors["fcs_err"] + errors["xmit_err"] + errors["rcv_err"]
  + errors["under_size"] + errors["single_col"] + errors["multi_col"]
  + errors["late_col"] + errors["excess_col"]

Totals == 0..(9 * CounterMax)

PortStates ==
  [status : Links, speed : Speeds, duplex : Duplexes, vlan : Vlans,
   poe : Powers, learned : SUBSET Macs, errors : [Counters -> 0..CounterMax]]

ASSUME TelemetryAssumption ==
  /\ CounterMax \in Nat /\ MaxMoves \in Nat /\ MaxFailures \in Nat
  /\ Active \subseteq Counters
  /\ Uplinks \subseteq Ports /\ Speeds \subseteq Nat /\ Bursts \subseteq 0..CounterMax
  /\ AttentionDelta \in Nat /\ CriticalDelta \in Nat /\ AttentionDelta <= CriticalDelta
  /\ Vitals \subseteq Severities
  /\ None \notin {"link", "no link"}
  /\ {} \in Outages /\ Outages \subseteq SUBSET Sections
  /\ Starts \subseteq PortStates

VARIABLES
  switch,   \* the state of each port
  rows,     \* the last snapshot: a row for each port it lists
  counted,  \* whether the errors command answered for that snapshot
  since,    \* per port, what happened to its counters since that snapshot
  told,     \* per port, what the last event about its link said
  gap,      \* ports of which a later snapshot than their first has no row
  report,   \* what the poll that has just ended said; None otherwise
  moves, failures

vars == <<switch, rows, counted, since, told, gap, report, moves, failures>>

Rows ==
  [status : Links, speed : Speeds, duplex : Duplexes, vlan : Vlans,
   poe : Powers \cup {"not-supported"}, learned : SUBSET Macs, total : Totals]

Admin(status) == IF status = "disabled" THEN "down" ELSE "up"
PoeActive(state) == state \notin {"off", "not-supported"}
Normalized(duplex) == IF duplex = "a-half" THEN "half" ELSE duplex

-----------------------------------------------------------------------------
(* Comparing two readings *)

\* A mutant: a wrap that forgets the step from CounterMax to zero.
CounterDeltaShort(previous, current) ==
  CASE current = previous -> [state |-> "unchanged", amount |-> 0]
    [] current > previous -> [state |-> "increased", amount |-> current - previous]
    [] current < previous /\ previous >= (9 * CounterMax) \div 10
                          /\ current <= CounterMax \div 10
         -> [state |-> "wrapped", amount |-> (CounterMax - previous) + current]
    [] OTHER -> [state |-> "reset", amount |-> 0]

\* calculate_counter_delta: a drop from the last tenth of the range into the
\* first is a wrap, any other drop a reset.
CounterDelta(previous, current) ==
  CASE current = previous -> [state |-> "unchanged", amount |-> 0]
    [] current > previous -> [state |-> "increased", amount |-> current - previous]
    [] current < previous /\ previous >= (9 * CounterMax) \div 10
                          /\ current <= CounterMax \div 10
         -> [state |-> "wrapped", amount |-> (CounterMax - previous) + 1 + current]
    [] OTHER -> [state |-> "reset", amount |-> 0]

Rose(delta) == delta.state \in {"increased", "wrapped"} /\ delta.amount > 0

\* What a reading says of a port: a column whose command failed is empty.
Row(p, failed) ==
  [status  |-> switch[p].status,
   speed   |-> switch[p].speed,
   duplex  |-> switch[p].duplex,
   vlan    |-> switch[p].vlan,
   poe     |-> IF "poe" \in failed THEN "not-supported" ELSE switch[p].poe,
   learned |-> IF "macTable" \in failed THEN {} ELSE switch[p].learned,
   total   |-> IF "errors" \in failed THEN 0 ELSE Total(switch[p].errors)]

Reading(failed) ==
  [p \in Ports |-> IF "interfaces" \in failed THEN None ELSE Row(p, failed)]

\* The ports a comparison is made for: listed now and by the last snapshot.
Compared(before, now) == {p \in Ports : before[p] # None /\ now[p] # None}

StayedUp(old, new) == old.status = "connected" /\ new.status = "connected"

Event(p, type, severity, amount) ==
  [port |-> p, type |-> type, severity |-> severity, amount |-> amount]

EventSeverity(amount) ==
  CASE amount >= CriticalDelta -> "CRITICAL"
    [] amount >= AttentionDelta /\ amount < CriticalDelta -> "ATTENTION"
    [] OTHER -> "NOTICE"

\* An administrative change hides the change of the link that comes with it.
LinkEvents(p, old, new) ==
  CASE Admin(old.status) # Admin(new.status) ->
         {Event(p, IF Admin(new.status) = "down" THEN "disabled" ELSE "enabled", "NOTICE", 0)}
    [] Admin(old.status) = Admin(new.status) /\ old.status # new.status
         /\ new.status = "connected" ->
         {Event(p, "link_up", "HEALTHY", 0)}
    [] Admin(old.status) = Admin(new.status) /\ old.status = "connected"
         /\ new.status # "connected" ->
         {Event(p, "link_down", IF p \in Uplinks THEN "CRITICAL" ELSE "NOTICE", 0)}
    [] OTHER -> {}

NegotiationEvents(p, old, new) ==
  {e \in {Event(p, "speed", "NOTICE", 0)} :
     StayedUp(old, new) /\ old.speed # new.speed}
  \cup {e \in {Event(p, "duplex", IF Normalized(new.duplex) = "half" THEN "ATTENTION"
                                  ELSE "NOTICE", 0)} :
          StayedUp(old, new) /\ Normalized(old.duplex) # Normalized(new.duplex)}
  \cup {e \in {Event(p, "vlan", "NOTICE", 0)} : old.vlan # new.vlan}

CounterEvents(p, old, new) ==
  LET delta == CounterDelta(old.total, new.total)
  IN {e \in {Event(p, "errors", EventSeverity(delta.amount), delta.amount)} : Rose(delta)}
     \cup {e \in {Event(p, "reset", "NOTICE", 0)} : delta.state = "reset"}

PowerEvents(p, old, new) ==
  {e \in {Event(p, "poe", IF PoeActive(new.poe) THEN "HEALTHY" ELSE "NOTICE", 0)} :
     PoeActive(old.poe) # PoeActive(new.poe)}

\* All the addresses of a port are told in one event.
AddressEvents(p, old, new) ==
  {e \in {Event(p, "addresses", IF old.learned \subseteq new.learned THEN "HEALTHY"
                                ELSE "NOTICE", 0)} : old.learned # new.learned}

DeriveEvents(before, now) ==
  UNION {LinkEvents(p, before[p], now[p]) \cup NegotiationEvents(p, before[p], now[p])
           \cup CounterEvents(p, before[p], now[p]) \cup PowerEvents(p, before[p], now[p])
           \cup AddressEvents(p, before[p], now[p]) : p \in Compared(before, now)}

-----------------------------------------------------------------------------
(* Health *)

\* A mutant: the thresholds are exclusive.
HealthAboveThreshold(amount) ==
  CASE amount > CriticalDelta -> "CRITICAL"
    [] amount > AttentionDelta /\ amount <= CriticalDelta -> "ATTENTION"
    [] OTHER -> "NOTICE"

HealthOfErrors(amount) ==
  CASE amount >= CriticalDelta -> "CRITICAL"
    [] amount >= AttentionDelta /\ amount < CriticalDelta -> "ATTENTION"
    [] OTHER -> "NOTICE"

\* The severities of the reasons that one comparison gives.
ReasonsOf(p, old, new) ==
  LET delta == CounterDelta(old.total, new.total)
  IN {s \in {HealthOfErrors(delta.amount)} : Rose(delta)}
     \cup {s \in {IF p \in Uplinks THEN "CRITICAL" ELSE "NOTICE"} :
             old.status = "connected" /\ new.status # "connected"}
     \cup {s \in {"ATTENTION"} : /\ StayedUp(old, new) /\ old.duplex # new.duplex
                                 /\ new.duplex \in {"a-half", "half"}}
     \cup {s \in {"NOTICE"} : \/ delta.state = "reset"
                              \/ StayedUp(old, new) /\ new.speed < old.speed
                              \/ PoeActive(old.poe) /\ ~PoeActive(new.poe)}

\* evaluate_health: the worst of the vitals, of the comparisons and of the
\* notice that something was not collected.
Health(before, now, vitals, complete) ==
  LET reasons == {vitals} \cup {s \in {"NOTICE"} : ~complete}
                 \cup UNION {ReasonsOf(p, before[p], now[p]) : p \in Compared(before, now)}
  IN CHOOSE s \in reasons : \A other \in reasons : Rank(s) >= Rank(other)

\* build_summary: the ports whose errors have just increased.
ErrorPorts(before, now) ==
  {p \in Compared(before, now) : Rose(CounterDelta(before[p].total, now[p].total))}

-----------------------------------------------------------------------------
(* The switch *)

Moved(p, state) ==
  /\ moves < MaxMoves /\ moves' = moves + 1
  /\ state # switch[p]
  /\ switch' = [switch EXCEPT ![p] = state]
  /\ report' = None
  /\ UNCHANGED <<rows, counted, told, gap, failures>>

\* A cable or an administrator, a negotiation, a powered device, a device
\* that is learned or ages out.
Change ==
  \E p \in Ports :
    /\ \/ \E x \in Links : Moved(p, [switch[p] EXCEPT !.status = x])
       \/ \E x \in Speeds : Moved(p, [switch[p] EXCEPT !.speed = x])
       \/ \E x \in Duplexes : Moved(p, [switch[p] EXCEPT !.duplex = x])
       \/ \E x \in Vlans : Moved(p, [switch[p] EXCEPT !.vlan = x])
       \/ \E x \in Powers : Moved(p, [switch[p] EXCEPT !.poe = x])
       \/ \E x \in SUBSET Macs : Moved(p, [switch[p] EXCEPT !.learned = x])
    /\ UNCHANGED since

Quiet == [errors |-> 0, wraps |-> 0, cleared |-> FALSE]

\* A counter starts again at zero after CounterMax, whatever the others hold.
CountErrors ==
  \E p \in Ports, c \in Active, n \in Bursts :
    LET count == switch[p].errors[c] + n
        wraps == count > CounterMax
    IN /\ Moved(p, [switch[p] EXCEPT !.errors[c] =
                      IF wraps THEN count - (CounterMax + 1) ELSE count])
       /\ since' = [since EXCEPT ![p].errors = @ + n,
                                 ![p].wraps = IF wraps THEN @ + 1 ELSE @]

\* "clear counters" at the console, or a restart of the switch.
ClearCounter ==
  \E p \in Ports :
    /\ Moved(p, [switch[p] EXCEPT !.errors = [c \in Counters |-> 0]])
    /\ since' = [since EXCEPT ![p].cleared = TRUE]

-----------------------------------------------------------------------------
(* The poll *)

\* What the events say of the link of a port: a comparison tells one thing.
LinkSaid(events, p) ==
  LET types == {e.type : e \in {f \in events : f.port = p}}
      said  == types \cap {"disabled", "enabled", "link_up", "link_down"}
  IN CASE said \in {{"disabled"}, {"link_down"}} -> "no link"
       [] said = {"link_up"} -> "link"
       [] said = {"enabled"} -> None
       [] OTHER -> told[p]

\* record_snapshot: the snapshot and its events, in one transaction.
Record(now, failed, events) ==
  /\ rows' = now
  /\ counted' = ("errors" \notin failed)
  /\ since' = [p \in Ports |-> Quiet]
  /\ told' = [p \in Ports |-> LinkSaid(events, p)]
  /\ gap' = (gap \cup {p \in Ports : rows[p] # None /\ now[p] = None})
             \ {p \in Ports : told'[p] # told[p]}

\* A mutant: the snapshot is committed before its events are written.
PollInTwo(failed, stored, vitals) ==
  LET now      == Reading(failed)
      complete == failed = {} /\ stored
      before   == IF stored THEN rows ELSE [p \in Ports |-> None]
      events   == DeriveEvents(before, now)
  IN /\ complete \/ failures < MaxFailures
     /\ failures' = failures + (IF complete THEN 0 ELSE 1)
     /\ Record(now, failed, events)
     /\ report' = [events     |-> events,
                   health     |-> Health(before, now, vitals, complete),
                   compared   |-> Compared(before, now),
                   errorPorts |-> ErrorPorts(before, now)]
     /\ UNCHANGED <<switch, moves>>

\* A store that fails is rolled back, and the poll goes on without a
\* comparison.
Poll(failed, stored, vitals) ==
  LET now      == Reading(failed)
      complete == failed = {} /\ stored
      before   == IF stored THEN rows ELSE [p \in Ports |-> None]
      events   == DeriveEvents(before, now)
  IN /\ complete \/ failures < MaxFailures
     /\ failures' = failures + (IF complete THEN 0 ELSE 1)
     /\ IF stored THEN Record(now, failed, events)
        ELSE UNCHANGED <<rows, counted, since, told, gap>>
     /\ report' = [events     |-> events,
                   health     |-> Health(before, now, vitals, complete),
                   compared   |-> Compared(before, now),
                   errorPorts |-> ErrorPorts(before, now)]
     /\ UNCHANGED <<switch, moves>>

DeepPoll ==
  \E failed \in Outages, stored \in BOOLEAN, vitals \in Vitals :
    Poll(failed, stored, vitals)

Init ==
  /\ switch \in [Ports -> Starts]
  /\ rows = [p \in Ports |-> None] /\ counted = FALSE
  /\ since = [p \in Ports |-> Quiet]
  /\ told = [p \in Ports |-> None] /\ gap = {}
  /\ report = None
  /\ moves = 0 /\ failures = 0

Next == Change \/ CountErrors \/ ClearCounter \/ DeepPoll

Spec == Init /\ [][Next]_vars

-----------------------------------------------------------------------------
(* Properties *)

Events ==
  [port : Ports, type : {"disabled", "enabled", "link_up", "link_down", "speed",
                         "duplex", "vlan", "errors", "reset", "poe", "addresses"},
   severity : Severities, amount : Totals]

\* Every variable keeps its type: rows and events are what the tables hold.
TypeOK ==
  /\ switch \in [Ports -> PortStates] /\ rows \in [Ports -> Rows \cup {None}]
  /\ counted \in BOOLEAN /\ gap \in SUBSET Ports
  /\ since \in [Ports -> [errors : Nat, wraps : Nat, cleared : BOOLEAN]]
  /\ told \in [Ports -> {"link", "no link", None}]
  /\ moves \in 0..MaxMoves /\ failures \in 0..MaxFailures
  /\ report # None =>
       /\ report.events \subseteq Events /\ report.health \in Severities
       /\ report.errorPorts \subseteq report.compared /\ report.compared \subseteq Ports

\* The events of a port never contradict its last row: after "link lost" the
\* row has no link, after "link established" it has one, however many polls,
\* failed commands and failed stores lie between.  A snapshot without the row
\* of the port breaks the story until the next event about its link, because
\* the comparison starts anew (telemetry_store.py, record_snapshot).
StoryIsTrue ==
  \A p \in Ports \ gap : rows[p] # None =>
    /\ told[p] = "link" => rows[p].status = "connected"
    /\ told[p] = "no link" => rows[p].status # "connected"

\* The errors that the poll under way announces for port p.
Announced(p) == {e.amount : e \in {f \in report'.events : f.port = p /\ f.type = "errors"}}

\* The sum of the counters of p is seen to go from the last tenth of the range
\* of one counter into the first.
LooksWrapped(p) ==
  /\ rows'[p].total < rows[p].total
  /\ rows[p].total >= (9 * CounterMax) \div 10 /\ rows'[p].total <= CounterMax \div 10

\* Between two readings of the error counters a poll never announces more
\* errors than the port has counted, however its nine counters wrap, unless they
\* were cleared and the sum looks wrapped.  What it announces is exact when no
\* counter wrapped, and when one wrapped and the sum shows it; a counter that
\* wraps beside others that stand high is announced as a reset instead, or
\* hides errors (telemetry_store.py, calculate_counter_delta).
CountedErrorsAreReal ==
  [][report' # None /\ counted /\ counted' =>
       \A p \in report'.compared :
         /\ ~(since[p].cleared /\ LooksWrapped(p))
              => \A n \in Announced(p) : n <= since[p].errors
         /\ ~since[p].cleared /\ since[p].errors > 0
            /\ (since[p].wraps = 0 \/ (since[p].wraps = 1 /\ LooksWrapped(p)))
              => Announced(p) = {since[p].errors}]_vars

\* The two modules that judge a comparison agree: a poll that records an event
\* which deserves attention or is critical never reports a better health, and
\* the summary lists exactly the ports whose errors it announces
\* (telemetry_store.py, _derive_events; health_logic.py, evaluate_health).
AlarmIsAFault ==
  report # None =>
    /\ \A e \in report.events :
         e.severity \in {"ATTENTION", "CRITICAL"} => Rank(report.health) >= Rank(e.severity)
    /\ report.errorPorts = {e.port : e \in {f \in report.events : f.type = "errors"}}

\* What docs/V0.2-FOUNDATION.md and the text of the event say: an announced
\* increase has happened since the previous observation, an old count is no
\* fault by itself.
OnlyNewErrors ==
  [][report' # None =>
       \A p \in report'.compared :
         ~since[p].cleared => \A n \in Announced(p) : n <= since[p].errors]_vars

=============================================================================
