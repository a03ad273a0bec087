------------------------------ MODULE LabAssurance ------------------------------
(***************************************************************************)
(* The Lab Assurance service: the devices an operator adds and removes     *)
(* (lab_device_store.py), the refresh that collects them one after the     *)
(* other and publishes what LabGraph concludes, and the probes             *)
(* (lab_service.py, lab_collector.py and their endpoints in main.py).      *)
(*                                                                         *)
(* Every request runs on a thread of its own.  The registry is written     *)
(* under a lock, the state replaced under another; between their steps     *)
(* nothing keeps requests apart.  A device is read at one moment.          *)
(***************************************************************************)
EXTENDS LabGraph, SequencesExt

CONSTANTS
  Machines,     \* the machines of the lab, and PrimaryMachine
  PrimaryMachine,
  Situations,   \* Situations: functions from a machine to what it shows
  Workers,      \* threads that serve requests
  Configured,   \* registries the service may start with
  Fragile,      \* commands that may end in any way
  MaxRequests,  \* bound on requests
  MaxMoves,     \* bound on changes of the lab
  MaxFaults     \* bound on failures of commands, writes, and on restarts

ASSUME LabAssuranceAssumption ==
  /\ {MaxRequests, MaxMoves, MaxFaults} \subseteq Nat
  /\ PrimaryMachine \in Machines
  /\ None \notin Machines \cup Ids
  /\ Fragile \subseteq Commands
  /\ \A r \in Configured : r \in Seq(Ids) /\ IsInjective(r)

\* The tables a machine shows are finite.
ASSUME FiniteTables ==
  \A s \in Situations : \A m \in Machines : Tabular(s[m].shown)

VARIABLES
  lab,         \* what every machine shows
  registry,    \* the registered identifiers, in order
  vault,       \* the machine whose credentials are stored under an identifier
  used,        \* identifiers that were ever given
  published,   \* the observations of the state, and the probes in it
  probes,      \* probes the service has recorded
  job,         \* what each worker is doing
  interrupted, \* an onlooker's note: identifiers whose addition or removal
               \* stopped halfway
  spent        \* how much of each bound is used

store == <<registry, vault, used, interrupted>>
vars == <<lab, store, published, probes, job, spent>>

\* times: the situations since the refresh began.
Rest == [pc |-> "rest", left |-> <<>>, seen |-> <<>>, probes |-> 0, id |-> None,
         machine |-> None, known |-> <<>>, times |-> {}]

Init ==
  /\ lab \in Situations
  /\ registry \in Configured
  /\ vault \in {v \in [Ids -> (Machines \ {PrimaryMachine}) \cup {None}] :
                  \A i \in Ids : v[i] # None <=> i \in ToSet(registry)}
  /\ used = ToSet(registry)
  /\ published = [observations |-> <<>>, probes |-> 0, times |-> {}]
  /\ probes = 0
  /\ job = [w \in Workers |-> Rest]
  /\ interrupted = {}
  /\ spent = [requests |-> 0, moves |-> 0, faults |-> 0]

Fault ==
  /\ spent.faults < MaxFaults
  /\ spent' = [spent EXCEPT !.faults = @ + 1]

Asked(w) ==
  /\ job[w] = Rest
  /\ spent.requests < MaxRequests
  /\ spent' = [spent EXCEPT !.requests = @ + 1]

\* Cables, configurations and neighbours change; refreshes see it or not.
Move ==
  /\ spent.moves < MaxMoves
  /\ spent' = [spent EXCEPT !.moves = @ + 1]
  /\ lab' \in Situations \ {lab}
  /\ job' = [w \in Workers |->
               IF job[w].times = {} THEN job[w]
               ELSE [job[w] EXCEPT !.times = @ \cup {lab'}]]
  /\ UNCHANGED <<store, published, probes>>

-----------------------------------------------------------------------------
(* Collection *)

\* How the commands of a machine end when nothing goes wrong.
Ended(m) ==
  [c \in Commands |-> Classified(IF c \in lab[m].unsupported THEN {"not supported"}
                                 ELSE {"rows"})]

Observation(i, m, ended) == [device |-> i, ended |-> ended, shown |-> lab[m].shown]

\* A device that cannot be reached, or whose credentials are gone; whether it
\* was unreachable or refused the login makes no difference to what follows.
Unreachable(i) ==
  [device |-> i, ended |-> [c \in Commands |-> "transport_failed"],
   shown |-> Blank]

\* One command that ends otherwise: refused, not available in this form, failed,
\* interrupted or shown in a way the parser does not take.
Spoilings == {Classified({"refused", "rows"}), Classified({"no such command"}),
              Classified({"failure", "rows"}), "transport_failed", "parser_failed"}
Spoiled(m) == {[Ended(m) EXCEPT ![c] = end] : c \in Fragile, end \in Spoilings}

\* A refresh that made one more observation.
Noted(j, o) == [j EXCEPT !.seen = Append(j.seen, o)]

\* The next observation of a refresh: complete, spoiled or none.
Collect(w, i, m, rest) ==
  \/ job' = [job EXCEPT ![w] = Noted(rest, Observation(i, m, Ended(m)))] /\ UNCHANGED spent
  \/ /\ \E ended \in Spoiled(m) :
          job' = [job EXCEPT ![w] = Noted(rest, Observation(i, m, ended))]
     /\ Fault
  \/ job' = [job EXCEPT ![w] = Noted(rest, Unreachable(i))] /\ Fault

\* POST /api/lab-assurance/refresh: the primary switch first, over the session.
Refresh(w) ==
  /\ Asked(w)
  /\ job' = [job EXCEPT ![w] = [Rest EXCEPT !.pc = "primary", !.times = {lab}]]
  /\ UNCHANGED <<lab, store, published, probes>>

CollectPrimary(w) ==
  /\ job[w].pc = "primary"
  /\ Collect(w, Primary, PrimaryMachine, [job[w] EXCEPT !.pc = "list"])
  /\ UNCHANGED <<lab, store, published, probes>>

\* A registry file that cannot be read counts as empty.
ListDevices(w) ==
  /\ job[w].pc = "list"
  /\ \/ job' = [job EXCEPT ![w].pc = "collect", ![w].left = registry] /\ UNCHANGED spent
     \/ job' = [job EXCEPT ![w].pc = "collect"] /\ Fault
  /\ UNCHANGED <<lab, store, published, probes>>

\* The next registered device, if its credentials can be read.
CollectDevice(w) ==
  /\ job[w].pc = "collect" /\ job[w].left # <<>>
  /\ LET i    == Head(job[w].left)
         rest == [job[w] EXCEPT !.left = Tail(job[w].left)]
     IN IF vault[i] = None
        THEN job' = [job EXCEPT ![w] = Noted(rest, Unreachable(i))] /\ UNCHANGED spent
        ELSE Collect(w, i, vault[i], rest)
  /\ UNCHANGED <<lab, store, published, probes>>

\* The probes are copied before the state is built, and published with it.
CopyProbes(w) ==
  /\ job[w].pc = "collect" /\ job[w].left = <<>>
  /\ job' = [job EXCEPT ![w].pc = "publish", ![w].probes = probes]
  /\ UNCHANGED <<lab, store, published, probes, spent>>

Publish(w) ==
  /\ job[w].pc = "publish"
  /\ published' = [observations |-> job[w].seen, probes |-> job[w].probes,
                   times |-> job[w].times]
  /\ job' = [job EXCEPT ![w] = Rest]
  /\ UNCHANGED <<lab, store, probes, spent>>

\* A probe ends; it is added to those recorded, and all of them to the state.
Probe(w) ==
  /\ Asked(w)
  /\ probes' = probes + 1
  /\ published' = [published EXCEPT !.probes = probes + 1]
  /\ UNCHANGED <<lab, store, job>>

-----------------------------------------------------------------------------
(* Adding and removing a device *)

\* The target must not be the primary switch nor, as far as the store shows
\* now, a device that is registered.
CheckTarget(w, m) ==
  /\ Asked(w)
  /\ m # PrimaryMachine
  /\ \A i \in ToSet(registry) : vault[i] # m
  /\ job' = [job EXCEPT ![w] = [Rest EXCEPT !.pc = "save", !.machine = m, !.known = registry]]
  /\ UNCHANGED <<lab, store, published, probes>>

\* Mutant of Fresh: an identifier is free if nothing is stored under it.
FreshByVault == {i \in Ids : vault[i] = None}

\* Identifiers are random and never given twice.
Fresh == Ids \ used

\* The credentials are stored under a new identifier, or refused.
SaveCredentials(w) ==
  /\ job[w].pc = "save"
  /\ \/ \E i \in Fresh :
          /\ vault' = [vault EXCEPT ![i] = job[w].machine]
          /\ used' = used \cup {i}
          /\ job' = [job EXCEPT ![w].pc = "register", ![w].id = i]
          /\ UNCHANGED <<registry, interrupted, spent>>
     \/ /\ job' = [job EXCEPT ![w] = Rest]
        /\ Fault
        /\ UNCHANGED store
  /\ UNCHANGED <<lab, published, probes>>

\* Mutant of Registered: the registry as it was when the target was checked.
RegisteredBefore(w) == Append(job[w].known, job[w].id)

\* The registry is read and written under the lock.
Registered(w) == Append(registry, job[w].id)

\* If it cannot be written, the credentials are taken back, if they can be; if
\* it could not be read, whoever was registered is registered no more.
Register(w) ==
  /\ job[w].pc = "register"
  /\ \/ registry' = Registered(w) /\ UNCHANGED <<vault, interrupted, spent>>
     \/ /\ registry' = <<job[w].id>>
        /\ interrupted' = interrupted \cup ToSet(registry)
        /\ Fault
        /\ UNCHANGED vault
     \/ /\ vault' = [vault EXCEPT ![job[w].id] = None]
        /\ Fault
        /\ UNCHANGED <<registry, interrupted>>
     \/ /\ interrupted' = interrupted \cup {job[w].id}
        /\ Fault
        /\ UNCHANGED <<registry, vault>>
  /\ job' = [job EXCEPT ![w] = Rest]
  /\ UNCHANGED <<lab, used, published, probes>>

CheckRegistered(w, i) ==
  /\ Asked(w)
  /\ i \in ToSet(registry)
  /\ job' = [job EXCEPT ![w] = [Rest EXCEPT !.pc = "erase", !.id = i]]
  /\ UNCHANGED <<lab, store, published, probes>>

\* The credentials are erased, or Credential Manager refuses, as it does when
\* there are none.
EraseCredentials(w) ==
  /\ job[w].pc = "erase"
  /\ \/ /\ vault[job[w].id] # None
        /\ vault' = [vault EXCEPT ![job[w].id] = None]
        /\ job' = [job EXCEPT ![w].pc = "unregister"]
        /\ UNCHANGED spent
     \/ /\ job' = [job EXCEPT ![w] = Rest]
        /\ IF vault[job[w].id] # None THEN Fault ELSE UNCHANGED spent
        /\ UNCHANGED vault
  /\ UNCHANGED <<lab, registry, used, interrupted, published, probes>>

\* A registry without an identifier; none is registered twice.
Without(r, i) ==
  IF i \in ToSet(r) THEN RemoveAt(r, CHOOSE k \in DOMAIN r : r[k] = i) ELSE r

Unregister(w) ==
  /\ job[w].pc = "unregister"
  /\ \/ /\ registry' = Without(registry, job[w].id)
        /\ UNCHANGED <<interrupted, spent>>
     \/ /\ registry' = <<>>
        /\ interrupted' = interrupted \cup ToSet(registry)
        /\ Fault
     \/ /\ interrupted' = interrupted \cup {job[w].id}
        /\ Fault
        /\ UNCHANGED registry
  /\ job' = [job EXCEPT ![w] = Rest]
  /\ UNCHANGED <<lab, vault, used, published, probes>>

\* The backend restarts; the registry and the credentials survive.
Restart ==
  /\ Fault
  /\ job' = [w \in Workers |-> Rest]
  /\ published' = [observations |-> <<>>, probes |-> 0, times |-> {}]
  /\ probes' = 0
  /\ interrupted' = interrupted \cup
       {job[w].id : w \in {x \in Workers : job[x].pc \in {"register", "unregister"}}}
  /\ UNCHANGED <<lab, registry, vault, used>>

Next ==
  \/ Move \/ Restart
  \/ \E w \in Workers :
       \/ Refresh(w) \/ CollectPrimary(w) \/ ListDevices(w) \/ CollectDevice(w)
       \/ CopyProbes(w) \/ Publish(w) \/ Probe(w)
       \/ \E m \in Machines : CheckTarget(w, m)
       \/ \E i \in Ids : CheckRegistered(w, i)
       \/ SaveCredentials(w) \/ Register(w) \/ EraseCredentials(w) \/ Unregister(w)

Spec == Init /\ [][Next]_vars

-----------------------------------------------------------------------------
(* Properties *)

\* The conclusions of a state concern what is in it: an edge has two ends, a
\* scenario is about nodes, or about a port that is listed; a finding too - only
\* that of a bundle may be about a port that is not listed.  A state is called
\* current only if all its evidence is.
WellFormed(os, g) ==
  /\ Overall(os) = "CURRENT" => \A i \in DOMAIN os : \A e \in Evidence(os[i]) : e.current
  /\ \A e \in g.edges : e.kind = "PORT_CHANNEL_MEMBER" \/ {e.from, e.to} \subseteq IdsOf(g)
  /\ \A f \in EdgeFailures(g) : f.affected \subseteq IdsOf(g)
  /\ \A f \in DeviceFailures(g) \cup InterfaceFailures(g) : f.affected \subseteq IdsOf(g)
  /\ \A f \in MemberFailures(g) :
       f.affected \subseteq {<<"port", <<i.device, i.port>>>> : i \in g.interfaces}
  /\ \A f \in Findings(os, g) : f.about # "unbundled" =>
       f.at \subseteq IdsOf(g) \cup {<<i.device, i.port>> : i \in g.interfaces}

\* Everything has its shape, and no identifier is registered twice.
TypeOK ==
  /\ lab \in Situations
  /\ IsInjective(registry)
  /\ ToSet(registry) \subseteq used /\ used \subseteq Ids
  /\ vault \in [Ids -> Machines \cup {None}]
  /\ \A w \in Workers :
       /\ job[w].pc \in {"rest", "primary", "list", "collect", "publish", "save",
                         "register", "erase", "unregister"}
       /\ job[w].id \in used \cup {None}

\* RegistryIsVault: when nobody is adding or removing a device, it is registered
\* exactly if its credentials are stored, however additions and removals of
\* several requests were interleaved, unless one of them was cut off by a
\* crash, or the registry could not be read or written (add and remove of lab_device_store.py).
RegistryIsVault ==
  \A i \in Ids \ interrupted :
    (\A w \in Workers : job[w].id # i) => (i \in ToSet(registry) <=> vault[i] # None)

\* What the path to a node and the failure scenarios say of it.
PathAgrees(g, path) ==
  LET links == {e \in g.edges : Carries(e)}
  IN /\ path.nodes # {} <=> path.to \in Reachable(g.root, links)
     /\ path.state = "PROVEN" =>
          path.to \in Reachable(g.root, {e \in links : e.state = "PROVEN"})
     /\ path.nodes # {} =>
          /\ \A f \in DeviceFailures(g) : path.to \in f.affected => f.of \in path.nodes
          /\ \A f \in EdgeFailures(g) : path.to \in f.affected => f.of \in path.edges
          /\ \A f \in InterfaceFailures(g) :
               path.to \in f.affected => <<"device", f.of[2][1]>> \in path.nodes

\* ConclusionsAgree: the two searches of the graph, that of _paths and that of
\* _reachable, come to the same conclusions.  A path is shown exactly to what
\* can be reached; one that is called proven rests on announcements and routing
\* alone, never on learned addresses; and if the loss of a device, of a cable or
\* adjacency, or of an interface is said to take away a node that has a path,
\* that path goes through the device, over the edge, or through the device of
\* the interface.  Every conclusion is about something in the same state.
ConclusionsAgree ==
  [][published'.observations \notin {<<>>, published.observations} =>
       \A g \in {Graph(published'.observations)} :
         /\ WellFormed(published'.observations, g)
         /\ \A path \in Paths(g) : PathAgrees(g, path)]_vars

\* FailureIsNotAbsence: a state calls a feature of a device unsupported, or a
\* protection absent, only if that was so on the machine at some time of the
\* very refresh; a command that was refused, cut off or not understood, and a
\* device that did not answer, prove nothing (classify_command_output,
\* _capabilities, _findings).
FailureIsNotAbsence ==
  [][published'.observations \notin {<<>>, published.observations} =>
       \A k \in DOMAIN published'.observations :
         LET o == published'.observations[k]
             m == IF o.device = Primary THEN PrimaryMachine ELSE vault[o.device]
         IN m # None =>
              /\ \A c \in Capabilities(o) : c.state = "UNSUPPORTED" =>
                   \E t \in published'.times : c.name \in t[m].unsupported
              /\ \A f \in ProtectionFindings(o) :
                   \E t \in published'.times : f.about \notin t[m].shown.config.features]_vars

=============================================================================
