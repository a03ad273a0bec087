---------------------------- MODULE TelemetryProofs ----------------------------
(***************************************************************************)
(* What is proved of Telemetry for any ports, any counter width and any    *)
(* thresholds: its types, that announced errors were counted, that the     *)
(* events of a port never contradict its row, and that events and health   *)
(* agree.                                                                  *)
(***************************************************************************)
EXTENDS Telemetry, TLAPS

\* The assumptions apart, for the provers.
LEMMA WidthIsNat == CounterMax \in Nat
BY TelemetryAssumption

Sinces == [errors : Nat, wraps : Nat, cleared : BOOLEAN]

LEMMA QuietFits == Quiet \in Sinces
BY DEF Quiet, Sinces

LEMMA VitalsAreSeverities == Vitals \subseteq Severities
BY TelemetryAssumption

-----------------------------------------------------------------------------
(* The events of a comparison *)

\* What each kind of event may look like.
LEMMA LinkShape ==
  ASSUME NEW p, NEW old, NEW new, NEW e \in LinkEvents(p, old, new)
  PROVE  /\ e.port = p /\ e.amount = 0
         /\ e.type \in {"disabled", "enabled", "link_up", "link_down"}
         /\ e.severity \in Severities
BY DEF LinkEvents, Event, Severities

LEMMA NegotiationShape ==
  ASSUME NEW p, NEW old, NEW new, NEW e \in NegotiationEvents(p, old, new)
  PROVE  /\ e.port = p /\ e.amount = 0
         /\ e.type \in {"speed", "duplex", "vlan"}
         /\ e.severity \in Severities
BY DEF NegotiationEvents, Event, Severities

LEMMA CounterShape ==
  ASSUME NEW p, NEW old, NEW new, NEW e \in CounterEvents(p, old, new)
  PROVE  /\ e.port = p /\ e.severity \in Severities
         /\ \/ e.type = "errors" /\ e.amount = CounterDelta(old.total, new.total).amount
               /\ Rose(CounterDelta(old.total, new.total))
               /\ e.severity = EventSeverity(e.amount)
            \/ e.type = "reset" /\ e.amount = 0 /\ e.severity = "NOTICE"
BY DEF CounterEvents, Event, EventSeverity, Severities

LEMMA PowerShape ==
  ASSUME NEW p, NEW old, NEW new, NEW e \in PowerEvents(p, old, new)
  PROVE  /\ e.port = p /\ e.amount = 0 /\ e.type = "poe"
         /\ e.severity \in {"HEALTHY", "NOTICE"}
BY DEF PowerEvents, Event

LEMMA AddressShape ==
  ASSUME NEW p, NEW old, NEW new, NEW e \in AddressEvents(p, old, new)
  PROVE  /\ e.port = p /\ e.amount = 0 /\ e.type = "addresses"
         /\ e.severity \in {"HEALTHY", "NOTICE"}
BY DEF AddressEvents, Event

\* The comparisons that the events of a poll come from.
LEMMA EventsOfPort ==
  ASSUME NEW before, NEW now, NEW e \in DeriveEvents(before, now)
  PROVE  /\ e.port \in Compared(before, now)
         /\ \/ e \in LinkEvents(e.port, before[e.port], now[e.port])
            \/ e \in NegotiationEvents(e.port, before[e.port], now[e.port])
            \/ e \in CounterEvents(e.port, before[e.port], now[e.port])
            \/ e \in PowerEvents(e.port, before[e.port], now[e.port])
            \/ e \in AddressEvents(e.port, before[e.port], now[e.port])
<1>1. PICK p \in Compared(before, now) :
        e \in LinkEvents(p, before[p], now[p]) \cup NegotiationEvents(p, before[p], now[p])
              \cup CounterEvents(p, before[p], now[p]) \cup PowerEvents(p, before[p], now[p])
              \cup AddressEvents(p, before[p], now[p])
  BY DEF DeriveEvents
<1>2. e.port = p
  BY <1>1, LinkShape, NegotiationShape, CounterShape, PowerShape, AddressShape
<1> QED
  BY <1>1, <1>2

LEMMA PortOfEvents ==
  ASSUME NEW before, NEW now, NEW p \in Compared(before, now)
  PROVE  /\ LinkEvents(p, before[p], now[p]) \subseteq DeriveEvents(before, now)
         /\ CounterEvents(p, before[p], now[p]) \subseteq DeriveEvents(before, now)
BY DEF DeriveEvents

\* A poll announces one increase for a port whose counter rose, and none else.
LEMMA Announcement ==
  ASSUME NEW before, NEW now, NEW p \in Compared(before, now)
  PROVE  LET delta == CounterDelta(before[p].total, now[p].total)
             announced == {e.amount : e \in {f \in DeriveEvents(before, now) :
                                               f.port = p /\ f.type = "errors"}}
         IN announced = IF Rose(delta) THEN {delta.amount} ELSE {}
<1> DEFINE delta == CounterDelta(before[p].total, now[p].total)
           announcing == {f \in DeriveEvents(before, now) : f.port = p /\ f.type = "errors"}
<1>1. ASSUME NEW e \in announcing
      PROVE  Rose(delta) /\ e.amount = delta.amount
  <2>1. \/ e \in LinkEvents(p, before[p], now[p])
        \/ e \in NegotiationEvents(p, before[p], now[p])
        \/ e \in CounterEvents(p, before[p], now[p])
        \/ e \in PowerEvents(p, before[p], now[p])
        \/ e \in AddressEvents(p, before[p], now[p])
    BY EventsOfPort
  <2>2. e \in CounterEvents(p, before[p], now[p])
    BY <2>1, LinkShape, NegotiationShape, PowerShape, AddressShape
  <2> QED
    BY <2>2, CounterShape
<1>2. ASSUME Rose(delta) PROVE \E e \in announcing : e.amount = delta.amount
  <2> DEFINE e == Event(p, "errors", EventSeverity(delta.amount), delta.amount)
  <2>1. e \in CounterEvents(p, before[p], now[p])
    BY <1>2 DEF CounterEvents
  <2>2. e \in announcing /\ e.amount = delta.amount
    BY <2>1, PortOfEvents DEF Event
  <2> QED
    BY <2>2
<1> HIDE DEF announcing, delta
<1>3. CASE Rose(delta)
  <2>1. {e.amount : e \in announcing} = {delta.amount}
    BY <1>1, <1>2, <1>3
  <2> QED
    BY <1>3, <2>1 DEF announcing, delta
<1>4. CASE ~Rose(delta)
  <2>1. {e.amount : e \in announcing} = {}
    BY <1>1, <1>4
  <2> QED
    BY <1>4, <2>1 DEF announcing, delta
<1> QED
  BY <1>3, <1>4

-----------------------------------------------------------------------------
(* Types *)

\* The sum of nine counters.
LEMMA TotalFits ==
  ASSUME NEW errors \in [Counters -> 0..CounterMax]
  PROVE  Total(errors) \in Totals
<1>1. \A c \in Counters : errors[c] \in 0..CounterMax
  OBVIOUS
<1> QED
  BY <1>1, WidthIsNat DEF Total, Totals, Counters

LEMMA TotalOfNone == Total([c \in Counters |-> 0]) = 0
BY DEF Total, Counters

\* When one counter changes, the sum changes by as much.
LEMMA TotalOfOne ==
  ASSUME NEW errors \in [Counters -> 0..CounterMax], NEW c \in Counters,
         NEW v \in 0..CounterMax
  PROVE  Total([errors EXCEPT ![c] = v]) = Total(errors) - errors[c] + v
<1> DEFINE new == [errors EXCEPT ![c] = v]
<1>1. /\ \A d \in Counters : errors[d] \in Int
      /\ v \in Int /\ new[c] = v
      /\ \A d \in Counters \ {c} : new[d] = errors[d]
  BY WidthIsNat
<1> HIDE DEF new
<1>2. Total(new) = Total(errors) - errors[c] + v
  <2>1. CASE c = "align_err"
    BY <1>1, <2>1 DEF Total, Counters
  <2>2. CASE c = "fcs_err"
    BY <1>1, <2>2 DEF Total, Counters
  <2>3. CASE c = "xmit_err"
    BY <1>1, <2>3 DEF Total, Counters
  <2>4. CASE c = "rcv_err"
    BY <1>1, <2>4 DEF Total, Counters
  <2>5. CASE c = "under_size"
    BY <1>1, <2>5 DEF Total, Counters
  <2>6. CASE c = "single_col"
    BY <1>1, <2>6 DEF Total, Counters
  <2>7. CASE c = "multi_col"
    BY <1>1, <2>7 DEF Total, Counters
  <2>8. CASE c = "late_col"
    BY <1>1, <2>8 DEF Total, Counters
  <2>9. CASE c = "excess_col"
    BY <1>1, <2>9 DEF Total, Counters
  <2> QED
    BY <2>1, <2>2, <2>3, <2>4, <2>5, <2>6, <2>7, <2>8, <2>9 DEF Counters
<1> QED
  BY <1>2 DEF new

LEMMA DeltaInRange ==
  ASSUME NEW a \in Totals, NEW b \in Totals, Rose(CounterDelta(a, b))
  PROVE  CounterDelta(a, b).amount \in Totals
<1> DEFINE wraps == /\ b < a /\ a >= (9 * CounterMax) \div 10 /\ b <= CounterMax \div 10
<1>1. CASE b > a
  BY <1>1, WidthIsNat DEF CounterDelta, Totals
<1>2. CASE wraps
  <2>1. CounterDelta(a, b) = [state |-> "wrapped", amount |-> (CounterMax - a) + 1 + b]
    BY <1>2, WidthIsNat DEF CounterDelta, Totals
  <2>2. CounterDelta(a, b).amount = (CounterMax - a) + 1 + b /\ CounterDelta(a, b).amount > 0
    BY <2>1 DEF Rose
  <2> QED
    BY <1>2, <2>2, WidthIsNat DEF Totals
<1>3. CASE ~(b > a) /\ ~wraps
  BY <1>3, WidthIsNat DEF CounterDelta, Rose, Totals
<1> QED
  BY <1>1, <1>2, <1>3

LEMMA RowFits ==
  ASSUME TypeOK, NEW p \in Ports, NEW failed
  PROVE  /\ Row(p, failed) \in Rows
         /\ Reading(failed)[p] = None \/ Reading(failed)[p] = Row(p, failed)
<1>1. switch[p] \in PortStates /\ switch[p].errors \in [Counters -> 0..CounterMax]
  BY DEF TypeOK, PortStates
<1>2. Total(switch[p].errors) \in Totals /\ 0 \in Totals
  BY <1>1, TotalFits, WidthIsNat DEF Totals
<1>3. Row(p, failed) \in Rows
  BY <1>1, <1>2 DEF Row, Rows, PortStates, Powers
<1> QED
  BY <1>3 DEF Reading

LEMMA ReadingFits ==
  ASSUME TypeOK, NEW failed
  PROVE  Reading(failed) \in [Ports -> Rows \cup {None}]
BY RowFits DEF Reading

LEMMA EventsFit ==
  ASSUME NEW before \in [Ports -> Rows \cup {None}],
         NEW now \in [Ports -> Rows \cup {None}]
  PROVE  DeriveEvents(before, now) \subseteq Events
<1> SUFFICES ASSUME NEW e \in DeriveEvents(before, now) PROVE e \in Events
  OBVIOUS
<1> DEFINE p == e.port
<1>1. p \in Ports /\ before[p] \in Rows /\ now[p] \in Rows
  BY EventsOfPort DEF Compared
<1>2. before[p].total \in Totals /\ now[p].total \in Totals /\ 0 \in Totals
  BY <1>1, WidthIsNat DEF Rows, Totals
<1>3. e.amount \in Totals /\ e.severity \in Severities
      /\ e.type \in {"disabled", "enabled", "link_up", "link_down", "speed",
                     "duplex", "vlan", "errors", "reset", "poe", "addresses"}
  <2>1. CASE e \in LinkEvents(p, before[p], now[p])
    BY <1>2, <2>1, LinkShape
  <2>2. CASE e \in NegotiationEvents(p, before[p], now[p])
    BY <1>2, <2>2, NegotiationShape
  <2>3. CASE e \in CounterEvents(p, before[p], now[p])
    <3>1. e.severity \in Severities
      BY <2>3, CounterShape
    <3>2. CASE e.type = "errors"
      BY <1>2, <2>3, <3>1, <3>2, CounterShape, DeltaInRange
    <3>3. CASE e.type = "reset"
      BY <1>2, <2>3, <3>1, <3>3, CounterShape
    <3> QED
      BY <2>3, <3>2, <3>3, CounterShape
  <2>4. CASE e \in PowerEvents(p, before[p], now[p])
    BY <1>2, <2>4, PowerShape DEF Severities
  <2>5. CASE e \in AddressEvents(p, before[p], now[p])
    BY <1>2, <2>5, AddressShape DEF Severities
  <2> QED
    BY <2>1, <2>2, <2>3, <2>4, <2>5, EventsOfPort
<1>4. e = [port |-> e.port, type |-> e.type, severity |-> e.severity, amount |-> e.amount]
  BY EventsOfPort DEF LinkEvents, NegotiationEvents, CounterEvents, PowerEvents,
     AddressEvents, Event
<1> QED
  BY <1>1, <1>3, <1>4 DEF Events

\* The worst of the severities of a poll.
LEMMA WorstExists ==
  ASSUME NEW reasons \in SUBSET Severities, reasons # {}
  PROVE  LET worst == CHOOSE s \in reasons : \A other \in reasons : Rank(s) >= Rank(other)
         IN /\ worst \in reasons
            /\ \A other \in reasons : Rank(worst) >= Rank(other)
<1>1. \E s \in reasons : \A other \in reasons : Rank(s) >= Rank(other)
  <2>1. CASE "CRITICAL" \in reasons
    BY <2>1 DEF Severities, Rank
  <2>2. CASE "CRITICAL" \notin reasons /\ "ATTENTION" \in reasons
    BY <2>2 DEF Severities, Rank
  <2>3. CASE reasons \subseteq {"NOTICE", "HEALTHY"} /\ "NOTICE" \in reasons
    BY <2>3 DEF Severities, Rank
  <2>4. CASE reasons = {"HEALTHY"}
    BY <2>4 DEF Severities, Rank
  <2> QED
    BY <2>1, <2>2, <2>3, <2>4 DEF Severities
<1> QED
  BY <1>1

LEMMA ReasonsAreSeverities ==
  ASSUME NEW p, NEW old, NEW new
  PROVE  ReasonsOf(p, old, new) \subseteq Severities
BY DEF ReasonsOf, HealthOfErrors, Severities

\* The health of a poll is a severity no better than any of its reasons.
LEMMA HealthIsWorst ==
  ASSUME NEW before, NEW now, NEW vitals \in Vitals, NEW complete \in BOOLEAN
  PROVE  /\ Health(before, now, vitals, complete) \in Severities
         /\ \A p \in Compared(before, now) : \A s \in ReasonsOf(p, before[p], now[p]) :
              Rank(Health(before, now, vitals, complete)) >= Rank(s)
<1> DEFINE reasons == {vitals} \cup {s \in {"NOTICE"} : ~complete}
             \cup UNION {ReasonsOf(p, before[p], now[p]) : p \in Compared(before, now)}
<1>1. reasons \in SUBSET Severities /\ reasons # {}
  BY ReasonsAreSeverities, VitalsAreSeverities DEF Severities
<1>2. Health(before, now, vitals, complete)
        = CHOOSE s \in reasons : \A other \in reasons : Rank(s) >= Rank(other)
  BY DEF Health
<1>3. \A p \in Compared(before, now) : ReasonsOf(p, before[p], now[p]) \subseteq reasons
  OBVIOUS
<1> HIDE DEF reasons
<1>4. /\ Health(before, now, vitals, complete) \in reasons
      /\ \A s \in reasons : Rank(Health(before, now, vitals, complete)) >= Rank(s)
  BY <1>1, <1>2, WorstExists
<1> QED
  BY <1>1, <1>3, <1>4

LEMMA LinkSaidFits ==
  ASSUME TypeOK, NEW p \in Ports, NEW events
  PROVE  LinkSaid(events, p) \in {"link", "no link", None}
BY DEF LinkSaid, TypeOK

\* What a poll says, whatever the store did.
LEMMA ReportFits ==
  ASSUME TypeOK, NEW failed, NEW stored \in BOOLEAN, NEW vitals \in Vitals,
         Poll(failed, stored, vitals)
  PROVE  /\ report'.events \subseteq Events /\ report'.health \in Severities
         /\ report'.errorPorts \subseteq report'.compared
         /\ report'.compared \subseteq Ports
<1> DEFINE now    == Reading(failed)
           before == IF stored THEN rows ELSE [p \in Ports |-> None]
<1>1. now \in [Ports -> Rows \cup {None}] /\ before \in [Ports -> Rows \cup {None}]
  BY ReadingFits DEF TypeOK
<1>2. report' = [events     |-> DeriveEvents(before, now),
                 health     |-> Health(before, now, vitals, failed = {} /\ stored),
                 compared   |-> Compared(before, now),
                 errorPorts |-> ErrorPorts(before, now)]
  BY DEF Poll
<1>3. (failed = {} /\ stored) \in BOOLEAN
  OBVIOUS
<1> HIDE DEF before, now
<1>4. Health(before, now, vitals, failed = {} /\ stored) \in Severities
  BY <1>3, HealthIsWorst
<1>5. ErrorPorts(before, now) \subseteq Compared(before, now)
      /\ Compared(before, now) \subseteq Ports
  BY DEF ErrorPorts, Compared
<1> QED
  BY <1>1, <1>2, <1>4, <1>5, EventsFit

LEMMA InitTypeOK == Init => TypeOK
<1> SUFFICES ASSUME Init PROVE TypeOK
  OBVIOUS
<1>1. Starts \subseteq PortStates
  BY TelemetryAssumption
<1>2. MaxMoves \in Nat /\ MaxFailures \in Nat
  BY TelemetryAssumption
<1>3. switch \in [Ports -> PortStates]
  BY <1>1 DEF Init
<1>4. moves \in 0..MaxMoves /\ failures \in 0..MaxFailures
  BY <1>2 DEF Init
<1>5. since \in [Ports -> Sinces]
  BY QuietFits DEF Init
<1>6. rows \in [Ports -> Rows \cup {None}] /\ told \in [Ports -> {"link", "no link", None}]
  BY DEF Init
<1> QED
  BY <1>3, <1>4, <1>5, <1>6 DEF Init, TypeOK, Sinces

LEMMA MovedTypeOK ==
  ASSUME TypeOK, NEW p \in Ports, NEW s \in PortStates, Moved(p, s),
         since' \in [Ports -> Sinces]
  PROVE  TypeOK'
<1>1. MaxMoves \in Nat
  BY TelemetryAssumption
<1>2. moves \in 0..MaxMoves /\ moves < MaxMoves /\ moves' = moves + 1
  BY DEF Moved, TypeOK
<1>3. moves' \in 0..MaxMoves
  BY <1>1, <1>2
<1>4. switch' \in [Ports -> PortStates]
  BY DEF Moved, TypeOK
<1> QED
  BY <1>3, <1>4 DEF Moved, TypeOK, Sinces

LEMMA ChangeTypeOK == TypeOK /\ Change => TypeOK'
<1> SUFFICES ASSUME TypeOK, NEW p \in Ports,
                    NEW s, Moved(p, s), UNCHANGED since,
                    \/ \E x \in Links : s = [switch[p] EXCEPT !.status = x]
                    \/ \E x \in Speeds : s = [switch[p] EXCEPT !.speed = x]
                    \/ \E x \in Duplexes : s = [switch[p] EXCEPT !.duplex = x]
                    \/ \E x \in Vlans : s = [switch[p] EXCEPT !.vlan = x]
                    \/ \E x \in Powers : s = [switch[p] EXCEPT !.poe = x]
                    \/ \E x \in SUBSET Macs : s = [switch[p] EXCEPT !.learned = x]
             PROVE  TypeOK'
  BY DEF Change
<1>1. switch[p] \in PortStates
  BY DEF TypeOK
<1>2. s \in PortStates
  BY <1>1 DEF PortStates
<1>3. since' \in [Ports -> Sinces]
  BY DEF TypeOK, Sinces
<1> QED
  BY <1>2, <1>3, MovedTypeOK

\* A counter that has counted: its value, and whether it went around.
Counted(p, c, n) ==
  LET count == switch[p].errors[c] + n
  IN IF count > CounterMax THEN count - (CounterMax + 1) ELSE count
Wraps(p, c, n) == switch[p].errors[c] + n > CounterMax

NewErrors(p, c, n) == [switch[p] EXCEPT !.errors[c] = Counted(p, c, n)]

\* What has happened to counters that counted.
Since(r, errors, wraps) == [r EXCEPT !.errors = errors, !.wraps = wraps]
NewSince(p, c, n) ==
  Since(since[p], since[p].errors + n,
        IF Wraps(p, c, n) THEN since[p].wraps + 1 ELSE since[p].wraps)

LEMMA BurstsInRange == Bursts \subseteq 0..CounterMax
BY TelemetryAssumption

LEMMA ActiveCounters == Active \subseteq Counters
BY TelemetryAssumption

LEMMA SinceFits ==
  ASSUME NEW r \in Sinces, NEW e \in Nat, NEW w \in Nat
  PROVE  /\ Since(r, e, w) \in Sinces
         /\ Since(r, e, w).errors = e
         /\ Since(r, e, w).wraps = w
         /\ Since(r, e, w).cleared = r.cleared
<1>1. Since(r, e, w) \in Sinces
  BY DEF Since, Sinces
<1>2. Since(r, e, w).errors = e
  BY DEF Since, Sinces
<1>3. Since(r, e, w).wraps = w
  BY DEF Since, Sinces
<1>4. Since(r, e, w).cleared = r.cleared
  BY DEF Since, Sinces
<1> QED
  BY <1>1, <1>2, <1>3, <1>4

\* What CountErrors does to a port.
LEMMA CountSays ==
  ASSUME TypeOK, NEW p \in Ports, NEW c \in Counters, NEW n \in Bursts
  PROVE  /\ NewErrors(p, c, n) \in PortStates
         /\ Total(NewErrors(p, c, n).errors) =
              Total(switch[p].errors) + n - (IF Wraps(p, c, n) THEN CounterMax + 1 ELSE 0)
         /\ NewSince(p, c, n) \in Sinces
         /\ NewSince(p, c, n).errors = since[p].errors + n
         /\ NewSince(p, c, n).wraps = since[p].wraps + (IF Wraps(p, c, n) THEN 1 ELSE 0)
         /\ NewSince(p, c, n).cleared = since[p].cleared
<1>1. switch[p] \in PortStates /\ switch[p].errors \in [Counters -> 0..CounterMax]
  BY DEF TypeOK, PortStates
<1>2. n \in 0..CounterMax /\ n \in Nat
  BY BurstsInRange, WidthIsNat
<1>3. switch[p].errors[c] \in 0..CounterMax
  BY <1>1
<1>4. /\ Counted(p, c, n) \in 0..CounterMax
      /\ Counted(p, c, n) = switch[p].errors[c] + n
                            - (IF Wraps(p, c, n) THEN CounterMax + 1 ELSE 0)
  BY <1>2, <1>3, WidthIsNat DEF Counted, Wraps
<1> DEFINE errors == [switch[p].errors EXCEPT ![c] = Counted(p, c, n)]
<1>5. NewErrors(p, c, n) = [switch[p] EXCEPT !.errors = errors]
  BY <1>1 DEF NewErrors
<1>6. errors \in [Counters -> 0..CounterMax]
  BY <1>1, <1>4
<1>7. Total(errors) = Total(switch[p].errors) - switch[p].errors[c] + Counted(p, c, n)
  BY <1>1, <1>4, TotalOfOne
<1>8. Total(errors) =
        Total(switch[p].errors) + n - (IF Wraps(p, c, n) THEN CounterMax + 1 ELSE 0)
  <2>1. Total(switch[p].errors) \in Int
    BY <1>1, TotalFits, WidthIsNat DEF Totals
  <2> QED
    BY <1>2, <1>3, <1>4, <1>7, <2>1, WidthIsNat
<1> HIDE DEF errors
<1>9. NewErrors(p, c, n) \in PortStates /\ NewErrors(p, c, n).errors = errors
  BY <1>1, <1>5, <1>6 DEF PortStates
<1>10. since[p] \in Sinces /\ since[p].errors \in Nat /\ since[p].wraps \in Nat
  BY DEF TypeOK, Sinces
<1>11. /\ NewSince(p, c, n) \in Sinces
       /\ NewSince(p, c, n).errors = since[p].errors + n
       /\ NewSince(p, c, n).wraps = since[p].wraps + (IF Wraps(p, c, n) THEN 1 ELSE 0)
       /\ NewSince(p, c, n).cleared = since[p].cleared
  <2>1. PICK e \in Nat : e = since[p].errors + n
    BY <1>2, <1>10
  <2>2. PICK w \in Nat : w = IF Wraps(p, c, n) THEN since[p].wraps + 1 ELSE since[p].wraps
    BY <1>10
  <2>3. w = since[p].wraps + (IF Wraps(p, c, n) THEN 1 ELSE 0)
    BY <1>10, <2>2
  <2>4. NewSince(p, c, n) = Since(since[p], e, w)
    BY <2>1, <2>2 DEF NewSince
  <2>5. since[p] \in Sinces
    BY <1>10
  <2>6. /\ Since(since[p], e, w) \in Sinces
        /\ Since(since[p], e, w).errors = e
        /\ Since(since[p], e, w).wraps = w
        /\ Since(since[p], e, w).cleared = since[p].cleared
    BY <2>5, SinceFits
  <2> QED
    BY <2>1, <2>3, <2>4, <2>6
<1> QED
  BY <1>8, <1>9, <1>11

LEMMA CountIsOfOne ==
  ASSUME TypeOK, CountErrors
  PROVE  \E p \in Ports, c \in Counters, n \in Bursts :
           /\ Moved(p, NewErrors(p, c, n))
           /\ since' = [since EXCEPT ![p] = NewSince(p, c, n)]
<1>1. PICK p \in Ports, c \in Active, n \in Bursts :
        LET count == switch[p].errors[c] + n
            wraps == count > CounterMax
        IN /\ Moved(p, [switch[p] EXCEPT !.errors[c] =
                          IF wraps THEN count - (CounterMax + 1) ELSE count])
           /\ since' = [since EXCEPT ![p].errors = @ + n,
                                     ![p].wraps = IF wraps THEN @ + 1 ELSE @]
  BY DEF CountErrors
<1>2. Moved(p, NewErrors(p, c, n))
  BY <1>1 DEF NewErrors, Counted
<1>3. since' = [since EXCEPT ![p] = NewSince(p, c, n)]
  <2>1. since \in [Ports -> Sinces]
    BY DEF TypeOK, Sinces
  <2> QED
    BY <1>1, <2>1 DEF NewSince, Since, Wraps, Sinces
<1>4. c \in Counters
  BY ActiveCounters
<1> QED
  BY <1>2, <1>3, <1>4

LEMMA CountTypeOK == TypeOK /\ CountErrors => TypeOK'
<1> SUFFICES ASSUME TypeOK, CountErrors PROVE TypeOK'
  OBVIOUS
<1>1. PICK p \in Ports, c \in Counters, n \in Bursts :
        /\ Moved(p, NewErrors(p, c, n))
        /\ since' = [since EXCEPT ![p] = NewSince(p, c, n)]
  BY CountIsOfOne
<1>2. NewErrors(p, c, n) \in PortStates /\ NewSince(p, c, n) \in Sinces
  BY CountSays
<1>3. since' \in [Ports -> Sinces]
  <2>1. since \in [Ports -> Sinces]
    BY DEF TypeOK, Sinces
  <2> QED
    BY <1>1, <1>2, <2>1
<1> QED
  BY <1>1, <1>2, <1>3, MovedTypeOK

LEMMA ClearTypeOK == TypeOK /\ ClearCounter => TypeOK'
<1> SUFFICES ASSUME TypeOK, NEW p \in Ports,
                    Moved(p, [switch[p] EXCEPT !.errors = [c \in Counters |-> 0]]),
                    since' = [since EXCEPT ![p].cleared = TRUE]
             PROVE  TypeOK'
  BY DEF ClearCounter
<1>1. [switch[p] EXCEPT !.errors = [c \in Counters |-> 0]] \in PortStates
  <2>1. switch[p] \in PortStates
    BY DEF TypeOK
  <2>2. [c \in Counters |-> 0] \in [Counters -> 0..CounterMax]
    BY WidthIsNat
  <2> QED
    BY <2>1, <2>2 DEF PortStates
<1>2. since' \in [Ports -> Sinces]
  BY DEF TypeOK, Sinces
<1> QED
  BY <1>1, <1>2, MovedTypeOK

LEMMA RecordTypeOK ==
  ASSUME TypeOK, NEW failed, NEW events, Record(Reading(failed), failed, events)
  PROVE  /\ rows' \in [Ports -> Rows \cup {None}]
         /\ counted' \in BOOLEAN /\ gap' \in SUBSET Ports
         /\ since' \in [Ports -> Sinces]
         /\ told' \in [Ports -> {"link", "no link", None}]
<1>1. rows' \in [Ports -> Rows \cup {None}]
  BY ReadingFits DEF Record
<1>2. counted' \in BOOLEAN /\ gap' \in SUBSET Ports
  BY DEF Record, TypeOK
<1>3. since' \in [Ports -> Sinces]
  BY QuietFits DEF Record
<1>4. told' \in [Ports -> {"link", "no link", None}]
  BY LinkSaidFits DEF Record
<1> QED
  BY <1>1, <1>2, <1>3, <1>4

LEMMA PollTypeOK ==
  ASSUME TypeOK, NEW failed, NEW stored \in BOOLEAN, NEW vitals \in Vitals,
         Poll(failed, stored, vitals)
  PROVE  TypeOK'
<1> DEFINE events == DeriveEvents(IF stored THEN rows ELSE [p \in Ports |-> None],
                                  Reading(failed))
<1>1. /\ rows' \in [Ports -> Rows \cup {None}]
      /\ counted' \in BOOLEAN /\ gap' \in SUBSET Ports
      /\ since' \in [Ports -> Sinces]
      /\ told' \in [Ports -> {"link", "no link", None}]
  <2>1. CASE stored
    <3>1. Record(Reading(failed), failed, events)
      BY <2>1 DEF Poll
    <3> QED
      BY <3>1, RecordTypeOK
  <2>2. CASE ~stored
    BY <2>2 DEF Poll, TypeOK, Sinces
  <2> QED
    BY <2>1, <2>2
<1>2. switch' \in [Ports -> PortStates] /\ moves' \in 0..MaxMoves
  BY DEF Poll, TypeOK
<1>3. failures' \in 0..MaxFailures
  <2>1. MaxFailures \in Nat
    BY TelemetryAssumption
  <2>2. /\ failures \in 0..MaxFailures
        /\ (failed = {} /\ stored) \/ failures < MaxFailures
        /\ failures' = failures + (IF failed = {} /\ stored THEN 0 ELSE 1)
    BY DEF Poll, TypeOK
  <2> QED
    BY <2>1, <2>2
<1> QED
  BY <1>1, <1>2, <1>3, ReportFits DEF TypeOK, Sinces

LEMMA NextTypeOK == TypeOK /\ [Next]_vars => TypeOK'
<1> SUFFICES ASSUME TypeOK, [Next]_vars PROVE TypeOK'
  OBVIOUS
<1>1. CASE DeepPoll
  BY <1>1, PollTypeOK DEF DeepPoll
<1>2. CASE UNCHANGED vars
  BY <1>2 DEF vars, TypeOK, Rows, PortStates
<1> QED
  BY <1>1, <1>2, ChangeTypeOK, CountTypeOK, ClearTypeOK DEF Next

\* Every variable keeps its type: rows are what the tables hold, and every event
\* of a poll has a kind, a severity and an amount a counter can rise by
\* (telemetry_store.py), for any ports, counter width and failures.
THEOREM TelemetryTypeCorrect == Spec => []TypeOK
BY InitTypeOK, NextTypeOK, PTL DEF Spec

-----------------------------------------------------------------------------
(* Events and health agree *)

\* Every event that deserves attention is a reason of the same severity.
LEMMA AlarmHasReason ==
  ASSUME NEW before, NEW now, NEW e \in DeriveEvents(before, now),
         e.severity \in {"ATTENTION", "CRITICAL"}
  PROVE  e.severity \in ReasonsOf(e.port, before[e.port], now[e.port])
<1> DEFINE p == e.port  old == before[p]  new == now[p]
<1>1. CASE e \in LinkEvents(p, old, new)
  <2>1. /\ e.severity = "CRITICAL" /\ p \in Uplinks
        /\ old.status = "connected" /\ new.status # "connected"
    BY <1>1 DEF LinkEvents, Event
  <2> QED
    BY <2>1 DEF ReasonsOf
<1>2. CASE e \in NegotiationEvents(p, old, new)
  <2>1. /\ e.severity = "ATTENTION" /\ StayedUp(old, new)
        /\ Normalized(new.duplex) = "half"
        /\ Normalized(old.duplex) # Normalized(new.duplex)
    BY <1>2 DEF NegotiationEvents, Event
  <2>2. old.duplex # new.duplex /\ new.duplex \in {"a-half", "half"}
    BY <2>1 DEF Normalized
  <2> QED
    BY <2>1, <2>2 DEF ReasonsOf
<1>3. CASE e \in CounterEvents(p, old, new)
  <2> DEFINE delta == CounterDelta(old.total, new.total)
  <2>1. Rose(delta) /\ e.severity = EventSeverity(delta.amount)
    BY <1>3, CounterShape
  <2>2. EventSeverity(delta.amount) = HealthOfErrors(delta.amount)
    BY DEF EventSeverity, HealthOfErrors
  <2> HIDE DEF delta
  <2>3. e.severity \in {s \in {HealthOfErrors(delta.amount)} : Rose(delta)}
    BY <2>1, <2>2
  <2> QED
    BY <2>3 DEF ReasonsOf, delta
<1>4. CASE e \in PowerEvents(p, old, new)
  BY <1>4, PowerShape
<1>5. CASE e \in AddressEvents(p, old, new)
  BY <1>5, AddressShape
<1> QED
  BY <1>1, <1>2, <1>3, <1>4, <1>5, EventsOfPort

\* The summary and the events name the same ports.
LEMMA ErrorPortsAnnounced ==
  ASSUME NEW before, NEW now
  PROVE  ErrorPorts(before, now)
           = {e.port : e \in {f \in DeriveEvents(before, now) : f.type = "errors"}}
<1> DEFINE announcing == {f \in DeriveEvents(before, now) : f.type = "errors"}
<1>1. ASSUME NEW p \in ErrorPorts(before, now)
      PROVE  \E e \in announcing : e.port = p
  <2> DEFINE delta == CounterDelta(before[p].total, now[p].total)
             e == Event(p, "errors", EventSeverity(delta.amount), delta.amount)
  <2>1. p \in Compared(before, now) /\ Rose(delta)
    BY DEF ErrorPorts
  <2>2. e \in CounterEvents(p, before[p], now[p])
    BY <2>1 DEF CounterEvents
  <2>3. e \in announcing /\ e.port = p
    BY <2>1, <2>2, PortOfEvents DEF Event
  <2> QED
    BY <2>3
<1>2. ASSUME NEW e \in announcing
      PROVE  e.port \in ErrorPorts(before, now)
  <2>1. e.port \in Compared(before, now)
    BY EventsOfPort
  <2>2. e \in CounterEvents(e.port, before[e.port], now[e.port])
    BY EventsOfPort, LinkShape, NegotiationShape, PowerShape, AddressShape
  <2>3. Rose(CounterDelta(before[e.port].total, now[e.port].total))
    BY <2>2, CounterShape
  <2> QED
    BY <2>1, <2>3 DEF ErrorPorts
<1> QED
  BY <1>1, <1>2

LEMMA PollReports ==
  ASSUME NEW failed, NEW stored \in BOOLEAN, NEW vitals, Poll(failed, stored, vitals)
  PROVE  \E before \in {rows, [p \in Ports |-> None]}, complete \in BOOLEAN :
           /\ stored => before = rows
           /\ ~stored => before = [p \in Ports |-> None]
           /\ report' = [events     |-> DeriveEvents(before, Reading(failed)),
                         health     |-> Health(before, Reading(failed), vitals, complete),
                         compared   |-> Compared(before, Reading(failed)),
                         errorPorts |-> ErrorPorts(before, Reading(failed))]
<1> DEFINE before == IF stored THEN rows ELSE [p \in Ports |-> None]
           complete == failed = {} /\ stored
<1>1. report' = [events     |-> DeriveEvents(before, Reading(failed)),
                 health     |-> Health(before, Reading(failed), vitals, complete),
                 compared   |-> Compared(before, Reading(failed)),
                 errorPorts |-> ErrorPorts(before, Reading(failed))]
  BY DEF Poll
<1>2. complete \in BOOLEAN
  OBVIOUS
<1>3. /\ before \in {rows, [p \in Ports |-> None]}
      /\ stored => before = rows
      /\ ~stored => before = [p \in Ports |-> None]
  OBVIOUS
<1> HIDE DEF before, complete
<1> QED
  BY <1>1, <1>2, <1>3

\* Only a poll has something to say.
LEMMA SilentOtherwise ==
  ASSUME Change \/ CountErrors \/ ClearCounter
  PROVE  report' = None
BY DEF Change, CountErrors, ClearCounter, Moved

LEMMA PollAgrees ==
  ASSUME NEW failed, NEW stored \in BOOLEAN, NEW vitals \in Vitals,
         Poll(failed, stored, vitals)
  PROVE  AlarmIsAFault'
<1>1. PICK before \in {rows, [p \in Ports |-> None]}, complete \in BOOLEAN :
        report' = [events     |-> DeriveEvents(before, Reading(failed)),
                   health     |-> Health(before, Reading(failed), vitals, complete),
                   compared   |-> Compared(before, Reading(failed)),
                   errorPorts |-> ErrorPorts(before, Reading(failed))]
  BY PollReports
<1> DEFINE now == Reading(failed)
<1>2. ASSUME NEW e \in DeriveEvents(before, now), e.severity \in {"ATTENTION", "CRITICAL"}
      PROVE  Rank(Health(before, now, vitals, complete)) >= Rank(e.severity)
  <2>1. e.severity \in ReasonsOf(e.port, before[e.port], now[e.port])
    BY <1>2, AlarmHasReason
  <2> QED
    BY <2>1, EventsOfPort, HealthIsWorst
<1> QED
  BY <1>1, <1>2, ErrorPortsAnnounced DEF AlarmIsAFault

\* No poll records an event that deserves attention and reports a better health
\* for the switch (telemetry_store.py, _derive_events; health_logic.py,
\* evaluate_health), whatever failed to be read or stored.
THEOREM EventsAndHealthAgree == Spec => []AlarmIsAFault
<1>1. Init => AlarmIsAFault
  BY DEF Init, AlarmIsAFault
<1>2. AlarmIsAFault /\ [Next]_vars => AlarmIsAFault'
  <2>1. ASSUME report' = None PROVE AlarmIsAFault'
    BY <2>1 DEF AlarmIsAFault
  <2>2. DeepPoll => AlarmIsAFault'
    BY PollAgrees DEF DeepPoll
  <2>3. ASSUME AlarmIsAFault, UNCHANGED vars PROVE AlarmIsAFault'
    BY <2>3 DEF AlarmIsAFault, vars
  <2> QED
    BY <2>1, <2>2, <2>3, SilentOtherwise DEF Next
<1> QED
  BY <1>1, <1>2, PTL DEF Spec

-----------------------------------------------------------------------------
(* The story of a link *)

\* What a poll says of the link of a port it compares, case by case.
LEMMA SaidOfCompared ==
  ASSUME NEW before, NEW now, NEW p \in Compared(before, now)
  PROVE  \/ /\ LinkSaid(DeriveEvents(before, now), p) = "no link"
            /\ now[p].status # "connected"
         \/ LinkSaid(DeriveEvents(before, now), p) = None
         \/ /\ LinkSaid(DeriveEvents(before, now), p) = "link"
            /\ now[p].status = "connected"
         \/ /\ LinkSaid(DeriveEvents(before, now), p) = told[p]
            /\ before[p].status = "connected" <=> now[p].status = "connected"
<1> DEFINE old == before[p]
           new == now[p]
           events == DeriveEvents(before, now)
           types == {e.type : e \in {f \in events : f.port = p}}
           said == types \cap {"disabled", "enabled", "link_up", "link_down"}
           answer == LinkSaid(events, p)
<1>1. /\ said \in {{"disabled"}, {"link_down"}} => answer = "no link"
      /\ said = {"link_up"} => answer = "link"
      /\ said = {"enabled"} => answer = None
      /\ said = {} => answer = told[p]
  BY DEF LinkSaid
<1>2. ASSUME NEW e \in LinkEvents(p, old, new) PROVE e.type \in said
  BY <1>2, PortOfEvents, LinkShape
<1>3. ASSUME NEW t \in said PROVE \E e \in LinkEvents(p, old, new) : e.type = t
  <2>1. PICK e \in events : e.port = p /\ e.type = t
    OBVIOUS
  <2>2. e \in LinkEvents(p, old, new)
    BY <2>1, EventsOfPort, NegotiationShape, CounterShape, PowerShape, AddressShape
  <2> QED
    BY <2>1, <2>2
<1> HIDE DEF said, events, answer
<1>4. ASSUME NEW e, LinkEvents(p, old, new) = {e} PROVE said = {e.type}
  BY <1>2, <1>3, <1>4
<1>5. LinkEvents(p, old, new) = {} => said = {}
  BY <1>3
<1>6. CASE Admin(old.status) # Admin(new.status) /\ Admin(new.status) = "down"
  <2> DEFINE e == Event(p, "disabled", "NOTICE", 0)
  <2>1. LinkEvents(p, old, new) = {e}
    BY <1>6 DEF LinkEvents
  <2>2. said = {"disabled"}
    <3>1. e.type = "disabled"
      BY DEF Event
    <3> HIDE DEF e
    <3> QED
      BY <1>4, <2>1, <3>1
  <2>3. new.status # "connected"
    BY <1>6 DEF Admin
  <2> QED
    BY <1>1, <2>2, <2>3 DEF answer, events
<1>7. CASE Admin(old.status) # Admin(new.status) /\ Admin(new.status) # "down"
  <2> DEFINE e == Event(p, "enabled", "NOTICE", 0)
  <2>1. LinkEvents(p, old, new) = {e}
    BY <1>7 DEF LinkEvents
  <2>2. said = {"enabled"}
    <3>1. e.type = "enabled"
      BY DEF Event
    <3> HIDE DEF e
    <3> QED
      BY <1>4, <2>1, <3>1
  <2> QED
    BY <1>1, <2>2 DEF answer, events
<1>8. CASE Admin(old.status) = Admin(new.status) /\ old.status # new.status
           /\ new.status = "connected"
  <2> DEFINE e == Event(p, "link_up", "HEALTHY", 0)
  <2>1. LinkEvents(p, old, new) = {e}
    BY <1>8 DEF LinkEvents
  <2>2. said = {"link_up"}
    <3>1. e.type = "link_up"
      BY DEF Event
    <3> HIDE DEF e
    <3> QED
      BY <1>4, <2>1, <3>1
  <2> QED
    BY <1>1, <1>8, <2>2 DEF answer, events
<1>9. CASE Admin(old.status) = Admin(new.status) /\ old.status = "connected"
           /\ new.status # "connected"
  <2> DEFINE e == Event(p, "link_down", IF p \in Uplinks THEN "CRITICAL" ELSE "NOTICE", 0)
  <2>1. LinkEvents(p, old, new) = {e}
    BY <1>9 DEF LinkEvents
  <2>2. said = {"link_down"}
    <3>1. e.type = "link_down"
      BY DEF Event
    <3> HIDE DEF e
    <3> QED
      BY <1>4, <2>1, <3>1
  <2> QED
    BY <1>1, <1>9, <2>2 DEF answer, events
<1>10. CASE /\ Admin(old.status) = Admin(new.status)
            /\ old.status = "connected" <=> new.status = "connected"
  <2>1. LinkEvents(p, old, new) = {}
    BY <1>10 DEF LinkEvents
  <2> QED
    BY <1>1, <1>5, <1>10, <2>1 DEF answer, events
<1> QED
  BY <1>6, <1>7, <1>8, <1>9, <1>10

\* A port that is not compared keeps what was told of it.
LEMMA SaidOfOthers ==
  ASSUME NEW before, NEW now, NEW p, p \notin Compared(before, now)
  PROVE  LinkSaid(DeriveEvents(before, now), p) = told[p]
<1>1. {f \in DeriveEvents(before, now) : f.port = p} = {}
  BY EventsOfPort
<1> QED
  BY <1>1 DEF LinkSaid

\* Nothing has been told of a port without a row, unless a snapshot lost it.
NothingWithoutRow == \A p \in Ports \ gap : rows[p] = None => told[p] = None

Story == StoryIsTrue /\ NothingWithoutRow

LEMMA NothingIsNothing == None \notin {"link", "no link"}
BY TelemetryAssumption

LEMMA RecordKeepsStory ==
  ASSUME Story, NEW failed, NEW now,
         Record(now, failed, DeriveEvents(rows, now))
  PROVE  Story'
<1>1. ASSUME NEW p \in Ports
      PROVE  /\ rows'[p] = now[p]
             /\ told'[p] = LinkSaid(DeriveEvents(rows, now), p)
             /\ p \notin gap' => /\ p \in gap => told'[p] # told[p]
                                 /\ rows[p] # None /\ rows'[p] = None => told'[p] # told[p]
  BY DEF Record
<1>2. ASSUME NEW p \in Ports, p \notin gap', rows'[p] # None
      PROVE  /\ told'[p] = "link" => rows'[p].status = "connected"
             /\ told'[p] = "no link" => rows'[p].status # "connected"
  <2>1. CASE rows[p] # None
    <3>1. p \in Compared(rows, now)
      BY <1>1, <1>2, <2>1 DEF Compared
    <3>2. \/ told'[p] = "no link" /\ rows'[p].status # "connected"
          \/ told'[p] = None
          \/ told'[p] = "link" /\ rows'[p].status = "connected"
          \/ told'[p] = told[p] /\ (rows[p].status = "connected" <=> rows'[p].status = "connected")
      <4>1. told'[p] = LinkSaid(DeriveEvents(rows, now), p) /\ rows'[p] = now[p]
        BY <1>1
      <4>2. \/ LinkSaid(DeriveEvents(rows, now), p) = "no link" /\ now[p].status # "connected"
            \/ LinkSaid(DeriveEvents(rows, now), p) = None
            \/ LinkSaid(DeriveEvents(rows, now), p) = "link" /\ now[p].status = "connected"
            \/ /\ LinkSaid(DeriveEvents(rows, now), p) = told[p]
               /\ rows[p].status = "connected" <=> now[p].status = "connected"
        BY <3>1, SaidOfCompared
      <4> QED
        BY <4>1, <4>2
    <3>3. told'[p] = told[p] => p \notin gap
      BY <1>1, <1>2
    <3>4. p \notin gap => /\ told[p] = "link" => rows[p].status = "connected"
                          /\ told[p] = "no link" => rows[p].status # "connected"
      BY <2>1 DEF Story, StoryIsTrue
    <3> QED
      BY <3>2, <3>3, <3>4, NothingIsNothing
  <2>2. CASE rows[p] = None
    <3>1. told'[p] = told[p]
      BY <1>1, <2>2, SaidOfOthers DEF Compared
    <3>2. told[p] = None
      BY <1>1, <1>2, <2>2, <3>1 DEF Story, NothingWithoutRow
    <3> QED
      BY <3>1, <3>2, NothingIsNothing
  <2> QED
    BY <2>1, <2>2
<1>3. ASSUME NEW p \in Ports, p \notin gap', rows'[p] = None PROVE told'[p] = None
  <2>1. told'[p] = told[p]
    BY <1>1, <1>3, SaidOfOthers DEF Compared
  <2>2. p \notin gap /\ rows[p] = None
    BY <1>1, <1>3, <2>1
  <2> QED
    BY <2>1, <2>2 DEF Story, NothingWithoutRow
<1> QED
  BY <1>2, <1>3 DEF Story, StoryIsTrue, NothingWithoutRow

LEMMA StoryKept == Story /\ [Next]_vars => Story'
<1> SUFFICES ASSUME Story, [Next]_vars PROVE Story'
  OBVIOUS
<1>1. ASSUME UNCHANGED <<rows, told, gap>> PROVE Story'
  BY <1>1 DEF Story, StoryIsTrue, NothingWithoutRow
<1>2. ASSUME NEW failed, NEW stored \in BOOLEAN, NEW vitals, Poll(failed, stored, vitals)
      PROVE  Story'
  <2>1. CASE stored
    <3>1. Record(Reading(failed), failed, DeriveEvents(rows, Reading(failed)))
      BY <1>2, <2>1 DEF Poll
    <3> QED
      BY <3>1, RecordKeepsStory
  <2>2. CASE ~stored
    BY <1>1, <1>2, <2>2 DEF Poll
  <2> QED
    BY <2>1, <2>2
<1>3. CASE Change
  BY <1>1, <1>3 DEF Change, Moved
<1>4. CASE CountErrors
  BY <1>1, <1>4 DEF CountErrors, Moved
<1>5. CASE ClearCounter
  BY <1>1, <1>5 DEF ClearCounter, Moved
<1>6. CASE UNCHANGED vars
  BY <1>1, <1>6 DEF vars
<1> QED
  BY <1>2, <1>3, <1>4, <1>5, <1>6 DEF Next, DeepPoll

\* The events of a port never contradict its last row, whatever polls fail to
\* read or to store (telemetry_store.py, record_snapshot), while no snapshot
\* lost the row.
THEOREM EventsMatchRows == Spec => []StoryIsTrue
<1>1. Init => Story
  BY NothingIsNothing DEF Init, Story, StoryIsTrue, NothingWithoutRow
<1>2. Story => StoryIsTrue
  BY DEF Story
<1> QED
  BY <1>1, <1>2, StoryKept, PTL DEF Spec

-----------------------------------------------------------------------------
(* Counted errors *)

\* How the sum of counters that read o at the last snapshot and reads t now
\* relates to the errors e and the wraps w since, and to whether it was cleared.
Consistent(o, t, e, w, cleared) ==
  /\ cleared => t <= e
  /\ ~cleared => /\ w = 0 => t = o + e
                 /\ w = 1 => t = o + e - (CounterMax + 1)
                 /\ w > 0 => t <= o + e - (CounterMax + 1)

\* The counters of every port with a row whose errors were read are consistent.
Counting ==
  counted => \A p \in Ports : rows[p] # None =>
    Consistent(rows[p].total, Total(switch[p].errors), since[p].errors, since[p].wraps,
               since[p].cleared)

LEMMA StillConsistent ==
  ASSUME NEW o \in Totals, NEW t \in Totals, NEW e \in Nat, NEW w \in Nat,
         NEW cleared \in BOOLEAN, NEW n \in 0..CounterMax, NEW wraps \in BOOLEAN,
         Consistent(o, t, e, w, cleared)
  PROVE  Consistent(o, t + n - (IF wraps THEN CounterMax + 1 ELSE 0), e + n,
                    w + (IF wraps THEN 1 ELSE 0), cleared)
<1>1. CASE wraps
  <2>1. Consistent(o, t + n - (CounterMax + 1), e + n, w + 1, cleared)
    BY WidthIsNat DEF Consistent, Totals
  <2> QED
    BY <1>1, <2>1
<1>2. CASE ~wraps
  <2>1. Consistent(o, t + n, e + n, w, cleared)
    BY WidthIsNat DEF Consistent, Totals
  <2>2. t + n - 0 = t + n /\ w + 0 = w
    BY WidthIsNat DEF Totals
  <2> QED
    BY <1>2, <2>1, <2>2
<1> QED
  BY <1>1, <1>2

\* What a poll announces of consistent counters.
LEMMA ConsistentDelta ==
  ASSUME NEW o \in Totals, NEW t \in Totals, NEW e \in Nat, NEW w \in Nat,
         NEW cleared \in BOOLEAN, Consistent(o, t, e, w, cleared)
  PROVE  LET looks == t < o /\ o >= (9 * CounterMax) \div 10 /\ t <= CounterMax \div 10
         IN /\ Rose(CounterDelta(o, t)) /\ ~(cleared /\ looks)
                 => CounterDelta(o, t).amount <= e
            /\ ~cleared /\ e > 0 /\ (w = 0 \/ (w = 1 /\ looks))
                 => Rose(CounterDelta(o, t)) /\ CounterDelta(o, t).amount = e
<1> DEFINE looks == t < o /\ o >= (9 * CounterMax) \div 10 /\ t <= CounterMax \div 10
<1>1. o \in Int /\ t \in Int /\ o >= 0 /\ t >= 0
  BY WidthIsNat DEF Totals
<1>2. CASE t > o
  <2>1. CounterDelta(o, t) = [state |-> "increased", amount |-> t - o]
    BY <1>1, <1>2, WidthIsNat DEF CounterDelta
  <2>2. Rose(CounterDelta(o, t)) /\ CounterDelta(o, t).amount = t - o
    BY <1>1, <1>2, <2>1 DEF Rose
  <2>3. t - o <= e /\ (~cleared /\ w = 0 => t - o = e)
    BY <1>1, WidthIsNat DEF Consistent
  <2>4. ~looks
    BY <1>1, <1>2
  <2> QED
    BY <2>2, <2>3, <2>4
<1>3. CASE looks
  <2>1. CounterDelta(o, t) = [state |-> "wrapped", amount |-> (CounterMax - o) + 1 + t]
    BY <1>1, <1>3, WidthIsNat DEF CounterDelta
  <2>2. /\ CounterDelta(o, t).amount = (CounterMax - o) + 1 + t
        /\ CounterDelta(o, t).state = "wrapped"
    BY <2>1
  <2>3. ~cleared => (CounterMax - o) + 1 + t <= e
    <3>1. ~cleared => w # 0
      BY <1>1, <1>3 DEF Consistent
    <3> QED
      BY <1>1, <3>1, WidthIsNat DEF Consistent
  <2>4. ~cleared /\ w = 1 => (CounterMax - o) + 1 + t = e
    BY <1>1, WidthIsNat DEF Consistent
  <2>5. ~cleared => w # 0
    BY <1>1, <1>3 DEF Consistent
  <2> QED
    BY <1>3, <2>2, <2>3, <2>4, <2>5 DEF Rose
<1>4. CASE ~(t > o) /\ ~looks
  <2>1. ~Rose(CounterDelta(o, t))
    BY <1>1, <1>4, WidthIsNat DEF CounterDelta, Rose
  <2>2. ~(~cleared /\ e > 0 /\ w = 0)
    BY <1>1, <1>4 DEF Consistent
  <2> QED
    BY <1>4, <2>1, <2>2
<1> QED
  BY <1>2, <1>3, <1>4

LEMMA PortFits ==
  ASSUME TypeOK, NEW p \in Ports
  PROVE  /\ switch[p] \in PortStates /\ Total(switch[p].errors) \in Totals
         /\ since[p] \in Sinces
         /\ since[p].errors \in Nat /\ since[p].wraps \in Nat /\ since[p].cleared \in BOOLEAN
         /\ rows[p] # None => rows[p].total \in Totals
<1>1. switch[p] \in PortStates /\ since[p] \in Sinces /\ rows[p] \in Rows \cup {None}
  BY DEF TypeOK, Sinces
<1>2. switch[p].errors \in [Counters -> 0..CounterMax]
  BY <1>1 DEF PortStates
<1>3. Total(switch[p].errors) \in Totals
  BY <1>2, TotalFits
<1>4. rows[p] # None => rows[p].total \in Totals
  BY <1>1 DEF Rows
<1> QED
  BY <1>1, <1>3, <1>4 DEF Sinces

\* A change of the switch that leaves the rows alone.
LEMMA MovedKeepsCounting ==
  ASSUME TypeOK, Counting, NEW p \in Ports, NEW s, Moved(p, s),
         NEW c, since' = [since EXCEPT ![p] = c],
         rows[p] # None /\ counted => Consistent(rows[p].total, Total(s.errors), c.errors, c.wraps, c.cleared)
  PROVE  Counting'
<1> SUFFICES ASSUME counted', NEW q \in Ports, rows'[q] # None
             PROVE  Consistent(rows'[q].total, Total(switch'[q].errors), since'[q].errors,
                               since'[q].wraps, since'[q].cleared)
  BY DEF Counting, Consistent, Total
<1>1. rows' = rows /\ counted /\ switch' = [switch EXCEPT ![p] = s]
  BY DEF Moved
<1>2. CASE q = p
  <2>1. switch'[q] = s /\ since'[q] = c
    BY <1>1, <1>2 DEF TypeOK
  <2> QED
    BY <1>1, <1>2, <2>1
<1>3. CASE q # p
  <2>1. switch'[q] = switch[q] /\ since'[q] = since[q]
    BY <1>1, <1>3 DEF TypeOK
  <2> QED
    BY <1>1, <2>1 DEF Counting
<1> QED
  BY <1>2, <1>3

LEMMA ChangeKeepsCounting == TypeOK /\ Counting /\ Change => Counting'
<1> SUFFICES ASSUME TypeOK, Counting, NEW p \in Ports,
                    NEW s, Moved(p, s), UNCHANGED since,
                    \/ \E x \in Links : s = [switch[p] EXCEPT !.status = x]
                    \/ \E x \in Speeds : s = [switch[p] EXCEPT !.speed = x]
                    \/ \E x \in Duplexes : s = [switch[p] EXCEPT !.duplex = x]
                    \/ \E x \in Vlans : s = [switch[p] EXCEPT !.vlan = x]
                    \/ \E x \in Powers : s = [switch[p] EXCEPT !.poe = x]
                    \/ \E x \in SUBSET Macs : s = [switch[p] EXCEPT !.learned = x]
             PROVE  Counting'
  BY DEF Change
<1>1. switch[p] \in PortStates
  BY PortFits
<1>2. s.errors = switch[p].errors
  BY <1>1 DEF PortStates
<1>3. since' = [since EXCEPT ![p] = since[p]]
  BY DEF TypeOK
<1>4. rows[p] # None /\ counted
        => Consistent(rows[p].total, Total(s.errors), since[p].errors, since[p].wraps,
                      since[p].cleared)
  BY <1>2 DEF Counting
<1> QED
  BY <1>3, <1>4, MovedKeepsCounting

LEMMA CountKeepsCounting == TypeOK /\ Counting /\ CountErrors => Counting'
<1> SUFFICES ASSUME TypeOK, Counting, CountErrors PROVE Counting'
  OBVIOUS
<1>1. PICK p \in Ports, d \in Counters, n \in Bursts :
        /\ Moved(p, NewErrors(p, d, n))
        /\ since' = [since EXCEPT ![p] = NewSince(p, d, n)]
  BY CountIsOfOne
<1> DEFINE s == NewErrors(p, d, n)
           c == NewSince(p, d, n)
           wraps == Wraps(p, d, n)
<1>2. /\ Total(s.errors) = Total(switch[p].errors) + n - (IF wraps THEN CounterMax + 1 ELSE 0)
      /\ c.errors = since[p].errors + n
      /\ c.wraps = since[p].wraps + (IF wraps THEN 1 ELSE 0)
      /\ c.cleared = since[p].cleared
  BY CountSays
<1>3. n \in 0..CounterMax /\ wraps \in BOOLEAN
  BY BurstsInRange DEF Wraps
<1>4. Moved(p, s) /\ since' = [since EXCEPT ![p] = c]
  BY <1>1
<1> HIDE DEF s, c, wraps
<1>5. rows[p] # None /\ counted
        => Consistent(rows[p].total, Total(s.errors), c.errors, c.wraps, c.cleared)
  <2> SUFFICES ASSUME rows[p] # None, counted
               PROVE  Consistent(rows[p].total, Total(s.errors), c.errors, c.wraps, c.cleared)
    OBVIOUS
  <2>1. Consistent(rows[p].total, Total(switch[p].errors), since[p].errors, since[p].wraps,
                   since[p].cleared)
    BY DEF Counting
  <2>2. Consistent(rows[p].total,
                   Total(switch[p].errors) + n - (IF wraps THEN CounterMax + 1 ELSE 0),
                   since[p].errors + n, since[p].wraps + (IF wraps THEN 1 ELSE 0),
                   since[p].cleared)
    BY <1>3, <2>1, PortFits, StillConsistent
  <2> QED
    BY <1>2, <2>2
<1> QED
  BY <1>4, <1>5, MovedKeepsCounting

LEMMA ClearKeepsCounting == TypeOK /\ Counting /\ ClearCounter => Counting'
<1> SUFFICES ASSUME TypeOK, Counting, NEW p \in Ports,
                    Moved(p, [switch[p] EXCEPT !.errors = [c \in Counters |-> 0]]),
                    since' = [since EXCEPT ![p].cleared = TRUE]
             PROVE  Counting'
  BY DEF ClearCounter
<1> DEFINE s == [switch[p] EXCEPT !.errors = [d \in Counters |-> 0]]
           c == [since[p] EXCEPT !.cleared = TRUE]
<1>1. Total(s.errors) = 0
  <2>1. s.errors = [d \in Counters |-> 0]
    BY PortFits DEF PortStates
  <2> QED
    BY <2>1, TotalOfNone
<1>2. c.errors = since[p].errors /\ c.cleared = TRUE
  <2>1. since[p] \in Sinces
    BY DEF TypeOK, Sinces
  <2> QED
    BY <2>1 DEF Sinces
<1>3. since' = [since EXCEPT ![p] = c]
  OBVIOUS
<1>4. Moved(p, s)
  OBVIOUS
<1> HIDE DEF s, c
<1>5. Consistent(rows[p].total, Total(s.errors), c.errors, c.wraps, c.cleared)
  BY <1>1, <1>2, PortFits DEF Consistent
<1> QED
  BY <1>3, <1>4, <1>5, MovedKeepsCounting

\* The ports a stored poll compares, and what it reads of their counters.
LEMMA StoredPoll ==
  ASSUME TypeOK, NEW failed, NEW vitals, Poll(failed, TRUE, vitals)
  PROVE  /\ rows' = Reading(failed) /\ counted' = ("errors" \notin failed)
         /\ since' = [p \in Ports |-> Quiet]
         /\ switch' = switch
         /\ report'.events = DeriveEvents(rows, Reading(failed))
         /\ report'.compared = Compared(rows, Reading(failed))
         /\ \A p \in Ports : counted' /\ rows'[p] # None =>
              rows'[p].total = Total(switch[p].errors)
<1>1. /\ rows' = Reading(failed) /\ counted' = ("errors" \notin failed)
      /\ since' = [p \in Ports |-> Quiet]
  BY DEF Poll, Record
<1>2. switch' = switch
  BY DEF Poll
<1>3. /\ report'.events = DeriveEvents(rows, Reading(failed))
      /\ report'.compared = Compared(rows, Reading(failed))
  BY DEF Poll
<1>4. ASSUME NEW p \in Ports, counted', rows'[p] # None
      PROVE  rows'[p].total = Total(switch[p].errors)
  <2>1. rows'[p] = Row(p, failed)
    BY <1>1, <1>4, RowFits
  <2>2. "errors" \notin failed
    BY <1>1, <1>4
  <2> QED
    BY <2>1, <2>2 DEF Row
<1> QED
  BY <1>1, <1>2, <1>3, <1>4

LEMMA PollKeepsCounting ==
  ASSUME TypeOK, Counting, NEW failed, NEW stored \in BOOLEAN, NEW vitals,
         Poll(failed, stored, vitals)
  PROVE  Counting'
<1>1. CASE stored
  <2> SUFFICES ASSUME counted', NEW p \in Ports, rows'[p] # None
               PROVE  Consistent(rows'[p].total, Total(switch'[p].errors), since'[p].errors,
                                 since'[p].wraps, since'[p].cleared)
    BY DEF Counting, Consistent, Total
  <2>1. Poll(failed, TRUE, vitals)
    BY <1>1
  <2>2. rows'[p].total = Total(switch[p].errors) /\ switch' = switch
        /\ since'[p].errors = 0 /\ since'[p].wraps = 0 /\ since'[p].cleared = FALSE
    <3>1. /\ since' = [q \in Ports |-> Quiet]
          /\ switch' = switch
      BY <2>1, StoredPoll
    <3>2. rows'[p].total = Total(switch[p].errors)
      BY <2>1, StoredPoll
    <3> QED
      BY <3>1, <3>2 DEF Quiet
  <2>3. Total(switch[p].errors) \in Int
    BY PortFits, WidthIsNat DEF Totals
  <2> QED
    BY <2>2, <2>3, WidthIsNat DEF Consistent
<1>2. CASE ~stored
  <2>1. UNCHANGED <<rows, counted, since, switch>>
    BY <1>2 DEF Poll
  <2> QED
    BY <2>1 DEF Counting, Consistent, Total
<1> QED
  BY <1>1, <1>2

LEMMA CountingKept == TypeOK /\ Counting /\ [Next]_vars => Counting'
<1> SUFFICES ASSUME TypeOK, Counting, [Next]_vars PROVE Counting'
  OBVIOUS
<1>1. CASE DeepPoll
  BY <1>1, PollKeepsCounting DEF DeepPoll
<1>2. CASE UNCHANGED vars
  BY <1>2 DEF vars, Counting, Consistent, Total
<1> QED
  BY <1>1, <1>2, ChangeKeepsCounting, CountKeepsCounting, ClearKeepsCounting DEF Next

\* The step formula of CountedErrorsAreReal.
CountedStep ==
  report' # None /\ counted /\ counted' =>
    \A p \in report'.compared :
      /\ ~(since[p].cleared /\ LooksWrapped(p))
           => \A n \in Announced(p) : n <= since[p].errors
      /\ ~since[p].cleared /\ since[p].errors > 0
         /\ (since[p].wraps = 0 \/ (since[p].wraps = 1 /\ LooksWrapped(p)))
           => Announced(p) = {since[p].errors}

LEMMA StoredPollIsTrue ==
  ASSUME TypeOK, Counting, NEW failed, NEW vitals, Poll(failed, TRUE, vitals)
  PROVE  CountedStep
<1> SUFFICES ASSUME counted, counted', NEW p \in report'.compared
             PROVE  /\ ~(since[p].cleared /\ LooksWrapped(p))
                         => \A n \in Announced(p) : n <= since[p].errors
                    /\ ~since[p].cleared /\ since[p].errors > 0
                       /\ (since[p].wraps = 0 \/ (since[p].wraps = 1 /\ LooksWrapped(p)))
                         => Announced(p) = {since[p].errors}
  BY DEF CountedStep
<1> DEFINE now == Reading(failed)
           delta == CounterDelta(rows[p].total, now[p].total)
<1>1. p \in Compared(rows, now) /\ rows' = now
  BY StoredPoll
<1>2. p \in Ports /\ rows[p] # None /\ now[p] # None
  BY <1>1 DEF Compared
<1>3. now[p].total = Total(switch[p].errors)
  BY <1>1, <1>2, StoredPoll
<1>4. Announced(p) = IF Rose(delta) THEN {delta.amount} ELSE {}
  <2>1. report'.events = DeriveEvents(rows, now)
    BY StoredPoll
  <2>2. {e.amount : e \in {f \in DeriveEvents(rows, now) : f.port = p /\ f.type = "errors"}}
          = IF Rose(delta) THEN {delta.amount} ELSE {}
    BY <1>1, Announcement
  <2> QED
    BY <2>1, <2>2 DEF Announced
<1>5. Consistent(rows[p].total, now[p].total, since[p].errors, since[p].wraps,
                 since[p].cleared)
  BY <1>2, <1>3 DEF Counting
<1>6. LooksWrapped(p) <=> /\ now[p].total < rows[p].total
                          /\ rows[p].total >= (9 * CounterMax) \div 10
                          /\ now[p].total <= CounterMax \div 10
  BY <1>1 DEF LooksWrapped
<1>7. /\ Rose(delta) /\ ~(since[p].cleared /\ LooksWrapped(p))
           => delta.amount <= since[p].errors
      /\ ~since[p].cleared /\ since[p].errors > 0
         /\ (since[p].wraps = 0 \/ (since[p].wraps = 1 /\ LooksWrapped(p)))
           => Rose(delta) /\ delta.amount = since[p].errors
  BY <1>2, <1>3, <1>5, <1>6, PortFits, ConsistentDelta
<1> HIDE DEF delta, now
<1> QED
  BY <1>4, <1>7

LEMMA CountedStepHolds == TypeOK /\ Counting /\ [Next]_vars => [CountedStep]_vars
<1> SUFFICES ASSUME TypeOK, Counting, Next PROVE CountedStep
  OBVIOUS
<1>1. CASE DeepPoll
  <2>1. PICK failed \in Outages, stored \in BOOLEAN, vitals \in Vitals :
          Poll(failed, stored, vitals)
    BY <1>1 DEF DeepPoll
  <2>2. CASE stored
    <3>1. Poll(failed, TRUE, vitals)
      BY <2>1, <2>2
    <3> QED
      BY <3>1, StoredPollIsTrue
  <2>3. CASE ~stored
    <3>1. report'.compared = Compared([p \in Ports |-> None], Reading(failed))
      BY <2>1, <2>3 DEF Poll
    <3>2. report'.compared = {}
      BY <3>1 DEF Compared
    <3> QED
      BY <3>2 DEF CountedStep
  <2> QED
    BY <2>2, <2>3
<1>2. CASE Change \/ CountErrors \/ ClearCounter
  BY <1>2, SilentOtherwise DEF CountedStep
<1> QED
  BY <1>1, <1>2 DEF Next

\* For nine counters of any width that wrap separately: a poll that read them
\* twice announces no error that was not counted, unless they were cleared and
\* their sum looks wrapped, and announces exactly what was counted when none
\* wrapped, or one did and the sum shows it (calculate_counter_delta).
THEOREM AnnouncedErrorsAreReal == Spec => CountedErrorsAreReal
<1>1. Init => Counting
  BY DEF Init, Counting
<1>2. TypeOK /\ Counting /\ [Next]_vars => TypeOK' /\ Counting'
  BY NextTypeOK, CountingKept
<1>3. Init /\ [][Next]_vars => [][CountedStep]_vars
  BY <1>1, <1>2, InitTypeOK, CountedStepHolds, PTL
<1> QED
  BY <1>3 DEF Spec, CountedErrorsAreReal, CountedStep

=============================================================================
