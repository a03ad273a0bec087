------------------------------- MODULE Discovery -------------------------------
(***************************************************************************)
(* How SwitchOps comes to remember what is on each port: the deep poll of  *)
(* main.py (_collect_dashboard), the fast and slow tiers of live_state.py  *)
(* with their handlers in main.py, the history of discovery_store.py and   *)
(* the topology that the live state publishes.                             *)
(*                                                                         *)
(* All polls run on the one worker of the device session, one at a time,   *)
(* but a poll reads its tables one after the other while the cabling, and  *)
(* what the switch has learned, may change between two of them.            *)
(***************************************************************************)
EXTENDS Topology, Sequences, SequencesExt

CONSTANTS
  Situations,   \* what may be the case on a port
  AtFirst,      \* what is the case on every port at first
  MaxMoves,     \* bound on the changes of the switch
  MaxFaults,    \* bound on commands and writes that fail, and on restarts
  Rejecting     \* sections whose command the switch may answer with
                \* "% Invalid input", which is no failure of the command

ASSUME DiscoveryAssumption ==
  /\ {MaxMoves, MaxFaults} \subseteq Nat
  /\ IsFiniteSet(Ports)
  /\ AtFirst \subseteq Situations
  /\ Situations \subseteq
       [status : Statuses, description : Descriptions, trunk : BOOLEAN, macs : SUBSET Macs,
        cdp : Names \cup {None}, lldp : Names \cup {None}, arp : BOOLEAN]
  /\ Rejecting \subseteq {"macTable", "neighbors", "lldp", "arp"}

VARIABLES
  switch,  \* switch[p]: the situation on port p
  fast,    \* the interfaces of the live state, or None before the first tick
  rows,    \* rows[r]: discovered_entities of switch r by last_seen, and
           \* whether anything was ever observed of it
  shown,   \* the topology of the live state, or None
  job,     \* what the worker is doing
  moved,   \* an onlooker's note: ports that changed since the last fast
           \* reading, and since the running poll began
  spent    \* how much of each bound is used

notes == <<moved, spent>>
vars == <<switch, fast, rows, shown, job, notes>>

\* A switch whose name could not be read is taken for one named Unknown.
Roots == {"switch", "Unknown"}

\* The commands of a poll in their order; "identity" stands for version and
\* configuration together, either of which names the switch.
Deep == <<"identity", "interfaces", "macTable", "neighbors", "lldp", "arp">>
Slow == <<"macTable", "arp", "neighbors", "lldp">>
Core == {"interfaces", "macTable", "neighbors", "lldp", "arp"}

\* A column of what the switch would print now.
Column(section) ==
  CASE section = "interfaces" ->
         [p \in Ports |-> [status      |-> switch[p].status,
                           description |-> switch[p].description,
                           trunk       |-> switch[p].trunk]]
    [] section = "macTable"  -> [p \in Ports |-> switch[p].macs]
    [] section = "neighbors" -> [p \in Ports |-> switch[p].cdp]
    [] section = "lldp"      -> [p \in Ports |-> switch[p].lldp]
    [] section = "arp"       -> UNION {switch[p].macs : p \in {q \in Ports : switch[q].arp}}
    [] section = "identity"  -> "switch"

\* What the parser of a section makes of no output.  Without interfaces no
\* port is listed, which builds what ports without a status build.
Blank(section) ==
  CASE section = "interfaces" ->
         [p \in Ports |-> [status |-> "", description |-> "", trunk |-> FALSE]]
    [] section = "macTable"  -> [p \in Ports |-> {}]
    [] section \in {"neighbors", "lldp"} -> [p \in Ports |-> None]
    [] section = "arp"       -> {}
    [] section = "identity"  -> "Unknown"

Nothing == [s \in ToSet(Deep) |-> Blank(s)]
Now     == [s \in ToSet(Deep) |-> Column(s)]

\* before: sections still to be read; built: the topology to be published.
Idle == [kind |-> "none", pc |-> "rest", before |-> <<>>, seen |-> Nothing,
         failed |-> {}, rejected |-> {}, built |-> None]

-----------------------------------------------------------------------------
(* discovery_store.py *)

Active(r) == {row \in ToSet(rows[r].entities) : row.active}

\* Who was on the port of a new entity before, if that one was identified.
OccupantOf(known, e) ==
  LET there == {i \in DOMAIN known : known[i].port = e.port /\ known[i].entity # e.entity}
      last  == CHOOSE i \in there : \A j \in there : j <= i
  IN IF there # {} /\ known[last].source # "none" THEN known[last].entity ELSE None

\* The row of an endpoint.  Only its first row names the occupant before it.
RowOf(old, known, e) ==
  [entity |-> e.entity, port |-> e.port, source |-> e.source, active |-> TRUE,
   was    |-> IF \E row \in ToSet(old) : row.entity = e.entity THEN None
              ELSE OccupantOf(known, e)]

Revoked(known) == [i \in DOMAIN known |-> [known[i] EXCEPT !.active = FALSE]]

\* Mutant of Observed: every observation is a row of its own.
ObservedAgain(old, current, complete) ==
  LET base == IF complete THEN Revoked(old) ELSE old
  IN base \o SetToSeq({RowOf(old, base, e) : e \in current})

\* The rows of a table that an observation leaves alone, in their order.
Unseen(table, seen) ==
  LET left[n \in 0..Len(table)] ==
        IF n = 0 THEN <<>>
        ELSE IF table[n].entity \in seen THEN left[n - 1]
             ELSE Append(left[n - 1], table[n])
  IN left[Len(table)]

\* The table after an observation: the rows it touches are the last ones seen.
\* An entity seen on two ports keeps one row, of either.
Observed(old, current, complete) ==
  LET base == IF complete THEN Revoked(old) ELSE old
      seen == {e.entity : e \in current}
      row(x) == RowOf(old, base, CHOOSE e \in current : e.entity = x)
  IN Unseen(base, seen) \o SetToSeq({row(x) : x \in seen})

\* A device of the published topology.
Card(row, link) ==
  [entity |-> row.entity, port |-> row.port, source |-> row.source,
   was |-> row.was, link |-> link]

\* Mutant of Enriched: what a failed poll did not see is left out.
EnrichedBare(r, known, current, complete) ==
  [root |-> r, saved |-> TRUE,
   devices |-> {Card(row, "up") : row \in
                  {x \in ToSet(known) : x.entity \in {e.entity : e \in current}}},
   historical |-> {row.entity : row \in {x \in ToSet(known) : ~x.active}}]

\* apply_observation returns the observed endpoints; if the observation was
\* incomplete, also those that were active, with an unknown link.
Enriched(r, known, current, complete) ==
  LET seen == {e.entity : e \in current}
      now  == {row \in ToSet(known) : row.entity \in seen}
      kept == {row \in ToSet(known) : row.active /\ row.entity \notin seen}
  IN [root |-> r, saved |-> TRUE,
      devices |-> {Card(row, "up") : row \in now}
                  \cup {Card(row, "unknown") : row \in IF complete THEN {} ELSE kept},
      historical |-> {row.entity : row \in {x \in ToSet(known) : ~x.active}}]

\* The topology of an observation that could not be stored.
Bare(r, current) ==
  [root |-> r, saved |-> FALSE,
   devices |-> {[entity |-> e.entity, port |-> e.port, source |-> e.source,
                 was |-> None, link |-> "up"] : e \in current},
   historical |-> {}]

-----------------------------------------------------------------------------
Init ==
  /\ switch \in {[p \in Ports |-> s] : s \in AtFirst}
  /\ fast = None
  /\ rows = [r \in Roots |-> [entities |-> <<>>, counted |-> FALSE]]
  /\ shown = None
  /\ job = Idle
  /\ moved = [fast |-> {}, poll |-> {}]
  /\ spent = [moves |-> 0, faults |-> 0]

\* Something is plugged in, unplugged, announced or forgotten on a port.
Rewire(p) ==
  /\ spent.moves < MaxMoves
  /\ \E s \in Situations \ {switch[p]} : switch' = [switch EXCEPT ![p] = s]
  /\ moved' = [fast |-> moved.fast \cup {p}, poll |-> moved.poll \cup {p}]
  /\ spent' = [spent EXCEPT !.moves = @ + 1]
  /\ UNCHANGED <<fast, rows, shown, job>>

Fault ==
  /\ spent.faults < MaxFaults
  /\ spent' = [spent EXCEPT !.faults = @ + 1]

\* Mutant of FastTick: interfaces that are known are not read again.
FastTickOnce ==
  /\ job = Idle /\ fast = None
  /\ fast' = Column("interfaces")
  /\ moved' = [moved EXCEPT !.fast = {}]
  /\ UNCHANGED <<switch, rows, shown, job, spent>>

\* collect_fast: one command, and its interfaces replace the cached ones.
FastTick ==
  /\ job = Idle
  /\ fast' = Column("interfaces")
  /\ moved' = [moved EXCEPT !.fast = {}]
  /\ UNCHANGED <<switch, rows, shown, job, spent>>

\* A dashboard request reaches the worker.
StartDeep ==
  /\ job = Idle
  /\ job' = [Idle EXCEPT !.kind = "deep", !.pc = "read", !.before = Deep]
  /\ moved' = [moved EXCEPT !.poll = {}]
  /\ UNCHANGED <<switch, fast, rows, shown, spent>>

\* The slow tick reaches the worker; it reads no interfaces of its own.
StartSlow ==
  /\ job = Idle
  /\ job' = [Idle EXCEPT !.kind = "slow", !.pc = "read", !.before = Slow]
  /\ moved' = [moved EXCEPT !.poll = {}]
  /\ UNCHANGED <<switch, fast, rows, shown, spent>>

After(rest) == IF rest = <<>> THEN "apply" ELSE "read"

\* The next command answers.
Read ==
  /\ job.pc = "read"
  /\ job' = [job EXCEPT !.seen[Head(job.before)] = Column(Head(job.before)),
                        !.before = Tail(@), !.pc = After(Tail(job.before))]
  /\ UNCHANGED <<switch, fast, rows, shown, notes>>

\* The switch rejects the command.  A deep poll notes it, except for LLDP; a
\* slow one parses the answer, and finds nothing in it.
Reject ==
  /\ job.pc = "read"
  /\ LET s == Head(job.before)
     IN /\ s \in Rejecting
        /\ job' = [job EXCEPT !.before = Tail(@), !.pc = After(Tail(job.before)),
                     !.rejected = @ \cup {s},
                     !.failed = IF job.kind = "deep" /\ s # "lldp" THEN @ \cup {s} ELSE @]
  /\ Fault
  /\ UNCHANGED <<switch, fast, rows, shown, moved>>

\* The command fails: a deep poll goes on without the section, a slow one ends.
ReadFails ==
  /\ job.pc = "read"
  /\ job' = IF job.kind = "deep"
            THEN [job EXCEPT !.failed = @ \cup {Head(job.before)},
                             !.before = Tail(@), !.pc = After(Tail(job.before))]
            ELSE [job EXCEPT !.pc = "age", !.before = <<>>]
  /\ Fault
  /\ UNCHANGED <<switch, fast, rows, shown, moved>>

\* Mutant of Complete: a poll is complete if it saw the interfaces.
CompleteOnInterfaces == "interfaces" \notin job.failed

Complete == job.failed \cap Core = {}

\* A deep poll builds from its own interfaces, a slow one from the cached ones.
Seen == IF job.kind = "deep" THEN job.seen ELSE [job.seen EXCEPT !["interfaces"] = fast]

\* The switch an observation belongs to.
Root == IF job.kind = "deep" THEN job.seen["identity"] ELSE shown.root

Store(r, current, complete) ==
  \E known \in {Observed(rows[r].entities, current, complete)} :
     /\ rows' = [rows EXCEPT ![r].entities = known,
                             ![r].counted = @ \/ "interfaces" \notin job.failed]
     /\ job' = [job EXCEPT !.pc = "publish",
                           !.built = Enriched(r, known, current, complete)]

\* A slow poll has nothing to apply to before the first deep poll and the
\* first fast tick.
Unfounded == job.kind = "slow" /\ (shown = None \/ fast = None)

\* The observation is stored and enriched, in one transaction.
Apply ==
  /\ job.pc = "apply"
  /\ IF Unfounded THEN job' = Idle /\ UNCHANGED rows
     ELSE \E reading \in {Seen} : \E current \in {BuildTopology(reading)} :
            Store(Root, current, Complete)
  /\ UNCHANGED <<switch, fast, shown, notes>>

\* The store fails: a deep poll shows what it built, a slow one ends.
ApplyFails ==
  /\ job.pc = "apply" /\ ~Unfounded
  /\ job' = IF job.kind = "deep"
            THEN [job EXCEPT !.pc = "publish",
                             !.built = Bare(Root, BuildTopology(Seen))]
            ELSE Idle
  /\ Fault
  /\ UNCHANGED <<switch, fast, rows, shown, moved>>

\* _record_slow_failure: nothing was observed, and nothing is revoked.
Age ==
  /\ job.pc = "age"
  /\ IF shown # None /\ rows[shown.root].counted
     THEN Store(shown.root, {}, FALSE)
     ELSE job' = Idle /\ UNCHANGED rows
  /\ UNCHANGED <<switch, fast, shown, notes>>

\* apply_topology replaces what the live state shows.
Publish ==
  /\ job.pc = "publish"
  /\ shown' = job.built
  /\ job' = Idle
  /\ UNCHANGED <<switch, fast, rows, notes>>

\* The backend restarts; only the database survives.
Restart ==
  /\ fast' = None /\ shown' = None /\ job' = Idle
  /\ Fault
  /\ UNCHANGED <<switch, rows, moved>>

Step == Read \/ Apply \/ Age \/ Publish

Next ==
  \/ \E p \in Ports : Rewire(p)
  \/ FastTick \/ StartDeep \/ StartSlow
  \/ Step \/ Reject \/ ReadFails \/ ApplyFails
  \/ Restart

\* The worker ends the poll it runs.  The fast tier comes round whatever else
\* the worker is asked to do, for it is due more often and goes first.
Fairness ==
  /\ WF_vars(Step)
  /\ SF_vars(FastTick)
  /\ SF_vars(StartSlow)

Spec == Init /\ [][Next]_vars /\ Fairness

-----------------------------------------------------------------------------
(* Properties *)

Entities ==
  {<<"neighbor", n>> : n \in Names} \cup {<<"mac", m>> : m \in Macs}
  \cup {<<"port-presence", p>> : p \in Ports} \cup {<<"local-host">>}

Sources == {"cdp", "lldp", "local-host", "mac-oui", "none"}

Topologies ==
  [root : Roots, saved : BOOLEAN,
   devices : SUBSET [entity : Entities, port : Ports, source : Sources,
                     was : Entities \cup {None}, link : {"up", "unknown"}],
   historical : SUBSET Entities]

\* Everything has its shape, and the table has one row for an entity.
TypeOK ==
  /\ switch \in [Ports -> Situations]
  /\ fast \in [Ports -> [status : Statuses, description : Descriptions,
                         trunk : BOOLEAN]] \cup {None}
  /\ \A r \in Roots :
       /\ \A row \in ToSet(rows[r].entities) :
            /\ row.entity \in Entities /\ row.port \in Ports
            /\ row.source \in Sources /\ row.active \in BOOLEAN
            /\ row.was \in Entities \cup {None}
       /\ \A i, j \in DOMAIN rows[r].entities :
            rows[r].entities[i].entity = rows[r].entities[j].entity => i = j
  /\ shown \in Topologies \cup {None}
  /\ job.kind \in {"none", "deep", "slow"}
  /\ job.pc \in {"rest", "read", "apply", "age", "publish"}

\* What is on the wire: no column of a port changed since it was first read.
\* The port of this PC depends on what every port has learned.
Untouched(p) ==
  LET touched == IF job.kind = "slow" THEN moved.fast \cup moved.poll ELSE moved.poll
  IN IF ThisPc \in UNION {switch[q].macs : q \in Ports} THEN touched = {}
     ELSE p \notin touched

\* NeverForgotten: what a port has shown without a change ever since the poll
\* began - for a slow poll, since the last fast tick - is never made historical,
\* however many sections failed, whatever became of the other ports
\* (apply_observation and the completeness that main.py passes to it).  Answers
\* that the switch rejects are left out: see the README.
NeverForgotten ==
  [][job.rejected = {} =>
       \A r \in Roots : \A row \in Active(r) :
         (row.entity \notin {x.entity : x \in Active(r)'}) =>
           ~ \E p \in Ports : /\ Untouched(p) /\ Up(Now, p)
                              /\ EntityOf(Now, p) = row.entity]_vars

\* ShownIsRemembered: between two polls the published topology has just the
\* entities that the history calls active; a restart, an outage or a poll that
\* failed halfway does not let the two drift apart (apply_topology after
\* apply_observation).
ShownIsRemembered ==
  job = Idle /\ shown # None /\ shown.saved =>
    {d.entity : d \in shown.devices} = {row.entity : row \in Active(shown.root)}

\* Converges: once the switch rests and nothing fails any more, the topology
\* shown of the switch becomes what is on the wire, without anybody asking for
\* a deep poll (the slow tier of live_state.py).
Converges ==
  (/\ spent = [moves |-> MaxMoves, faults |-> MaxFaults]
   /\ shown # None /\ shown.root = "switch")
  ~> (shown # None /\
      {d.entity : d \in shown.devices} = {e.entity : e \in BuildTopology(Now)})

=============================================================================
