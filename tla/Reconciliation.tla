----------------------------- MODULE Reconciliation -----------------------------
(***************************************************************************)
(* Does what is observed match what is intended?  The comparison of        *)
(* backend/app/reconciliation.py, the intent and the last verdicts that    *)
(* intent_store.py keeps, and the part of a deep poll (main.py,            *)
(* _collect_dashboard) that compares, remembers and announces.             *)
(*                                                                         *)
(* A poll runs on the worker, step by step; the operator records, mutes    *)
(* and clears intent on other threads meanwhile.  What each port shows is  *)
(* built as in Topology.  main.py passes no sightings of other sources, so *)
(* a device that is elsewhere is only missing here.                        *)
(***************************************************************************)
EXTENDS Topology, Sequences, SequencesExt

CONSTANTS
  Situations,   \* what may be the case on a port
  Order,        \* the ports in the order of the table
  Documented,   \* Documented[p]: what a meaningful description names, or None
  Labels,       \* what an operator may record for a port
  Akin,         \* pairs of a name that is observed and one that is expected
                \* that share a significant word
  MaxMoves,     \* bound on what changes on the switch
  MaxWishes,    \* bound on what the operator records, mutes or clears
  MaxFaults     \* bound on commands and writes that fail, and on restarts

Unidentified == "Unidentified device"

States == {"aligned", "drift", "expected-not-observed", "unexpected",
           "uncertain", "not-applicable"}
Seen == Names \cup {"This PC", Unidentified, None}
Signatures == [status : States, observed : Seen,
               expected : Labels \cup {Documented[p] : p \in Ports} \cup {None}]
Verdicts == [signature : Signatures, label : Seen, identified : BOOLEAN]

\* A name is a host name, without a blank.
ASSUME ReconciliationAssumption ==
  /\ {MaxMoves, MaxWishes, MaxFaults} \subseteq Nat
  /\ Order \in Seq(Ports) /\ ToSet(Order) = Ports /\ IsInjective(Order)
  /\ DOMAIN Documented = Ports
  /\ Situations \subseteq [status : Statuses, description : Descriptions, trunk : BOOLEAN,
                           macs : SUBSET Macs, cdp : Names \cup {None},
                           lldp : Names \cup {None}]
  /\ None \notin {"This PC", Unidentified} /\ None \notin Signatures \cup Verdicts
  /\ Unidentified \notin Names

VARIABLES
  switch,     \* the situation on each port
  intent,     \* expected_relationships
  statuses,   \* the link states of the last telemetry snapshot, or None
  remembered, \* reconciliation_state
  job,        \* the poll that runs
  told,       \* an onlooker's note: the discrepancy last announced on a port
  lost,       \* an onlooker's note: ports whose last news was never announced
  spent       \* how much of each bound is used

stores == <<intent, statuses, remembered>>
notes == <<told, lost>>
vars == <<switch, stores, job, notes, spent>>

\* The reading of a poll: all columns, or without what the neighbours say, or
\* without the interfaces and so without any port.
Reading(deaf) ==
  [interfaces |-> [p \in Ports |-> [status      |-> switch[p].status,
                                    description |-> switch[p].description,
                                    trunk       |-> switch[p].trunk]],
   macTable   |-> [p \in Ports |-> switch[p].macs],
   neighbors  |-> [p \in Ports |-> IF deaf THEN None ELSE switch[p].cdp],
   lldp       |-> [p \in Ports |-> switch[p].lldp],
   arp        |-> {}]

-----------------------------------------------------------------------------
(* Assertions about one port *)

\* What a name stands for in a label: the neighbour, or this PC.
LabelOf(e) == IF Head(e.entity) = "neighbor" THEN e.entity[2] ELSE "This PC"

\* The observed assertion.  Only CDP, LLDP and this PC identify; a port that is
\* down observes nothing.
ObservedFor(t, p) ==
  IF ~Up(t, p) THEN None
  ELSE LET e == Endpoint(t, p)
           identified == e.source \in {"cdp", "lldp", "local-host"}
       IN [label      |-> IF identified THEN LabelOf(e) ELSE Unidentified,
           identified |-> identified,
           conflicted |-> e.conflict]

\* The expected assertion: recorded intent before what the switch documents.
ExpectedFor(wishes, p) ==
  IF wishes[p] # None THEN wishes[p].label ELSE Documented[p]

\* The historical assertion, from the last snapshot and the last verdict.
HistoricalFor(before, state) ==
  LET identity == IF state # None /\ state.identified THEN state.label ELSE None
      labelled == state # None /\ state.label # None
  IN CASE before = None /\ ~labelled -> None
       [] identity # None -> [label |-> identity, identified |-> TRUE]
       [] identity = None /\ before = "connected"
            -> [label |-> Unidentified, identified |-> FALSE]
       [] OTHER -> [label |-> "No link", identified |-> FALSE]

-----------------------------------------------------------------------------
(* The verdict *)

\* Mutant of Verdict: whatever is there and is not what was expected is drift.
VerdictGuessed(observed, expected, muted) ==
  CASE muted -> "not-applicable"
    [] ~muted /\ observed = None /\ expected = None -> "not-applicable"
    [] ~muted /\ observed = None /\ expected # None -> "expected-not-observed"
    [] ~muted /\ observed # None /\ expected = None -> "unexpected"
    [] OTHER -> IF <<observed.label, expected>> \in Akin THEN "aligned" ELSE "drift"

Verdict(observed, expected, muted) ==
  CASE muted -> "not-applicable"
    [] ~muted /\ observed = None /\ expected = None -> "not-applicable"
    [] ~muted /\ observed = None /\ expected # None -> "expected-not-observed"
    [] ~muted /\ observed # None /\ expected = None -> "unexpected"
    [] OTHER -> IF observed.conflicted \/ ~observed.identified THEN "uncertain"
                ELSE IF <<observed.label, expected>> \in Akin THEN "aligned" ELSE "drift"

\* "This exact situation on this interface."
Signature(observed, expected, muted) ==
  [status   |-> Verdict(observed, expected, muted),
   observed |-> IF observed = None THEN None ELSE observed.label,
   expected |-> expected]

\* One announced neighbour in the place of another.
Swapped(historical, observed) ==
  /\ historical # None /\ historical.identified
  /\ observed # None /\ observed.identified
  /\ historical.label # observed.label

Eventful == {"drift", "expected-not-observed", "unexpected"}

\* Mutant of News: a discrepancy that is still there is news.
NewsAgain(p, old, signature) ==
  CASE signature.status \in Eventful
         -> <<[port |-> p, kind |-> "discrepancy", about |-> signature]>>
    [] signature.status \notin Eventful /\ old # None /\ old.signature.status \in Eventful
         -> <<[port |-> p, kind |-> "resolved", about |-> signature]>>
    [] OTHER -> <<>>

\* Mutant of News: what was told is resolved only by an agreement.
NewsUntilAligned(p, old, signature) ==
  LET changed == old = None \/ old.signature # signature
      was     == old # None /\ old.signature.status \in Eventful
  IN CASE changed /\ signature.status \in Eventful
            -> <<[port |-> p, kind |-> "discrepancy", about |-> signature]>>
       [] changed /\ signature.status = "aligned" /\ was
            -> <<[port |-> p, kind |-> "resolved", about |-> signature]>>
       [] OTHER -> <<>>

\* What a signature adds to the events, given the one before it.
News(p, old, signature) ==
  LET changed == old = None \/ old.signature # signature
      was     == old # None /\ old.signature.status \in Eventful
  IN CASE changed /\ signature.status \in Eventful
            -> <<[port |-> p, kind |-> "discrepancy", about |-> signature]>>
       [] changed /\ signature.status \notin Eventful /\ was
            -> <<[port |-> p, kind |-> "resolved", about |-> signature]>>
       [] OTHER -> <<>>

-----------------------------------------------------------------------------
Idle == [pc |-> "rest", reading |-> None, wishes |-> None, before |-> None,
         left |-> <<>>, events |-> <<>>]

Init ==
  /\ switch \in {[p \in Ports |-> s] : s \in Situations}
  /\ intent = [p \in Ports |-> None]
  /\ statuses = [p \in Ports |-> None]
  /\ remembered = [p \in Ports |-> None]
  /\ job = Idle
  /\ told = [p \in Ports |-> None]
  /\ lost = {}
  /\ spent = [moves |-> 0, wishes |-> 0, faults |-> 0]

Fault ==
  /\ spent.faults < MaxFaults
  /\ spent' = [spent EXCEPT !.faults = @ + 1]

Rewire(p) ==
  /\ spent.moves < MaxMoves
  /\ \E s \in Situations \ {switch[p]} : switch' = [switch EXCEPT ![p] = s]
  /\ spent' = [spent EXCEPT !.moves = @ + 1]
  /\ UNCHANGED <<stores, job, notes>>

Wish(p, w) ==
  /\ spent.wishes < MaxWishes
  /\ w # intent[p]
  /\ intent' = [intent EXCEPT ![p] = w]
  /\ spent' = [spent EXCEPT !.wishes = @ + 1]
  /\ UNCHANGED <<switch, statuses, remembered, job, notes>>

\* PUT /api/topology/intent: the row is replaced, mute and all.
PutIntent(p) ==
  \E label \in Labels, muted \in BOOLEAN : Wish(p, [label |-> label, muted |-> muted])

\* DELETE: intent falls back to the description.
DeleteIntent(p) == Wish(p, None)

\* A deep poll has read its sections; the neighbours or the interfaces may have
\* failed, and then count as empty.
Poll ==
  /\ job = Idle
  /\ \/ job' = [Idle EXCEPT !.pc = "wishes", !.reading = Reading(FALSE), !.left = Order]
        /\ UNCHANGED spent
     \/ job' = [Idle EXCEPT !.pc = "wishes", !.reading = Reading(TRUE), !.left = Order]
        /\ Fault
     \/ job' = [Idle EXCEPT !.pc = "wishes", !.reading = Reading(FALSE)]
        /\ Fault
  /\ UNCHANGED <<switch, stores, notes>>

\* list_expected; if it fails the poll goes on as if nothing were recorded.
LoadIntent ==
  /\ job.pc = "wishes"
  /\ \/ job' = [job EXCEPT !.pc = "telemetry", !.wishes = intent] /\ UNCHANGED spent
     \/ job' = [job EXCEPT !.pc = "telemetry", !.wishes = [p \in Ports |-> None]] /\ Fault
  /\ UNCHANGED <<switch, stores, notes>>

LinkStates(t) == [p \in Ports |-> IF Up(t, p) THEN "connected" ELSE "down"]

\* record_snapshot stores the links and returns those before; if it fails,
\* there were none.
RecordSnapshot ==
  /\ job.pc = "telemetry"
  /\ \/ /\ job' = [job EXCEPT !.pc = "compare", !.before = statuses]
        /\ statuses' = IF job.left = <<>> THEN [p \in Ports |-> None]
                       ELSE LinkStates(job.reading)
        /\ UNCHANGED spent
     \/ /\ job' = [job EXCEPT !.pc = "compare", !.before = [p \in Ports |-> None]]
        /\ Fault
        /\ UNCHANGED statuses
  /\ UNCHANGED <<switch, intent, remembered, notes>>

\* One port is compared with its last verdict, which is overwritten at once;
\* the events wait until every port has been.
Compare ==
  /\ job.pc = "compare" /\ job.left # <<>>
  /\ LET p         == Head(job.left)
         observed  == ObservedFor(job.reading, p)
         expected  == ExpectedFor(job.wishes, p)
         muted     == job.wishes[p] # None /\ job.wishes[p].muted
         signature == Signature(observed, expected, muted)
         swap      == Swapped(HistoricalFor(job.before[p], remembered[p]), observed)
     IN /\ remembered' = [remembered EXCEPT ![p] =
             [signature  |-> signature,
              label      |-> IF observed = None THEN None ELSE observed.label,
              identified |-> observed # None /\ observed.identified]]
        /\ job' = [job EXCEPT !.left = Tail(@),
             !.events = @ \o (IF swap THEN <<[port |-> p, kind |-> "swap",
                                              about |-> signature]>> ELSE <<>>)
                          \o News(p, remembered[p], signature)]
  /\ UNCHANGED <<switch, intent, statuses, notes, spent>>

Compared ==
  /\ job.pc = "compare" /\ job.left = <<>>
  /\ job' = [job EXCEPT !.pc = "announce"]
  /\ UNCHANGED <<switch, stores, notes, spent>>

\* record_event stores the next event.
Announce ==
  /\ job.pc = "announce" /\ job.events # <<>>
  /\ LET e == Head(job.events)
     IN /\ told' = [told EXCEPT ![e.port] =
             CASE e.kind = "discrepancy" -> e.about
               [] e.kind = "resolved"    -> None
               [] OTHER                  -> @]
        /\ lost' = IF e.kind = "swap" THEN lost ELSE lost \ {e.port}
  /\ job' = [job EXCEPT !.events = Tail(@)]
  /\ UNCHANGED <<switch, stores, spent>>

PollEnds ==
  /\ job.pc = "announce" /\ job.events = <<>>
  /\ job' = Idle
  /\ UNCHANGED <<switch, stores, notes, spent>>

\* The intent store or the telemetry store fails: "reconciliation_failed", and
\* the events that were not stored yet are gone.
GoesWrong ==
  /\ job.pc \in {"compare", "announce"}
  /\ job' = Idle
  /\ lost' = lost \cup {e.port : e \in {x \in ToSet(job.events) : x.kind # "swap"}}
  /\ Fault
  /\ UNCHANGED <<switch, stores, told>>

\* The backend restarts in the middle of a poll.
Restart ==
  /\ job # Idle
  /\ job' = Idle
  /\ lost' = lost \cup {e.port : e \in {x \in ToSet(job.events) : x.kind # "swap"}}
  /\ Fault
  /\ UNCHANGED <<switch, stores, told>>

Next ==
  \/ \E p \in Ports : Rewire(p) \/ PutIntent(p) \/ DeleteIntent(p)
  \/ Poll \/ LoadIntent \/ RecordSnapshot
  \/ Compare \/ Compared \/ Announce \/ PollEnds
  \/ GoesWrong \/ Restart

Spec == Init /\ [][Next]_vars

-----------------------------------------------------------------------------
(* Properties *)

\* Whether two assertions can have led to a verdict: drift takes a device that
\* is identified, and a cable that is only electrically up never contradicts.
Warranted(s) ==
  /\ s.status \in {"aligned", "drift"} =>
       s.observed \notin {None, Unidentified} /\ s.expected # None
  /\ s.status = "expected-not-observed" => s.observed = None /\ s.expected # None
  /\ s.status = "unexpected" => s.observed # None /\ s.expected = None

\* Everything has its shape, and no verdict is kept that the assertions beside
\* it do not warrant.
TypeOK ==
  /\ switch \in [Ports -> Situations]
  /\ intent \in [Ports -> [label : Labels, muted : BOOLEAN] \cup {None}]
  /\ statuses \in [Ports -> {"connected", "down", None}]
  /\ remembered \in [Ports -> Verdicts \cup {None}]
  /\ \A p \in Ports : remembered[p] # None => Warranted(remembered[p].signature)
  /\ job.pc \in {"rest", "wishes", "telemetry", "compare", "announce"}
  /\ \A e \in ToSet(job.events) :
       e.port \in Ports /\ e.kind \in {"swap", "discrepancy", "resolved"}
       /\ e.about \in Signatures
  /\ told \in [Ports -> Signatures \cup {None}]
  /\ lost \subseteq Ports

\* ToldIsTrue: between two polls, the discrepancy last announced on a port and
\* not resolved since is the one that reconciliation_state holds, and where it
\* holds none, none is left announced - whatever the operator recorded or muted
\* in the middle of a poll, whichever sections failed, wherever the backend
\* stopped, as long as the last news of the port was not itself lost
\* (reconciliation_events).
ToldIsTrue ==
  job = Idle =>
    \A p \in Ports \ lost :
      told[p] = IF remembered[p] # None /\ remembered[p].signature.status \in Eventful
                THEN remembered[p].signature ELSE None

\* NeverTwice: a discrepancy that was announced is not announced again unless it
\* was resolved or changed its shape in between: still true on the twentieth
\* refresh, it is one situation (observe_reconciliation).
NeverTwice ==
  [][\A p \in Ports \ lost :
       (/\ job.pc = "announce" /\ job'.pc = "announce" /\ job' # job
        /\ Head(job.events).port = p /\ Head(job.events).kind = "discrepancy")
       => told'[p] # told[p]]_vars

=============================================================================
