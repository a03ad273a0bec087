-------------------------- MODULE ReconciliationProofs --------------------------
(***************************************************************************)
(* What is proved of Reconciliation for any ports, names, intent and       *)
(* failures: its types, that the discrepancies announced are those that    *)
(* are remembered, and each announced once.                                *)
(***************************************************************************)
EXTENDS Reconciliation, TLAPS

Wishes == [label : Labels, muted : BOOLEAN] \cup {None}
Links == {"connected", "down", None}
Telling == [port : Ports, kind : {"swap", "discrepancy", "resolved"}, about : Signatures]
Readings ==
  [interfaces : [Ports -> [status : Statuses, description : Descriptions,
                           trunk : BOOLEAN]],
   macTable   : [Ports -> SUBSET Macs],
   neighbors  : [Ports -> Names \cup {None}],
   lldp       : [Ports -> Names \cup {None}],
   arp        : {{}}]
Jobs ==
  [pc      : {"rest", "wishes", "telemetry", "compare", "announce"},
   reading : Readings \cup {None},
   wishes  : [Ports -> Wishes] \cup {None},
   before  : [Ports -> Links] \cup {None},
   left    : Seq(Ports),
   events  : Seq(Telling)]

\* What is known of the poll that runs at each of its steps.
PollKnows ==
  /\ job.pc # "rest" => job.reading \in Readings
  /\ job.pc \in {"telemetry", "compare"} => job.wishes \in [Ports -> Wishes]
  /\ job.pc = "compare" => job.before \in [Ports -> Links]
  /\ job.pc \in {"rest", "wishes", "telemetry"} => job.events = <<>>

\* A verdict that is remembered is warranted, and one that identifies has a label.
Sound(verdict) ==
  /\ Warranted(verdict.signature)
  /\ verdict.identified => verdict.label # None

Shape ==
  /\ switch \in [Ports -> Situations]
  /\ intent \in [Ports -> Wishes]
  /\ statuses \in [Ports -> Links]
  /\ remembered \in [Ports -> Verdicts \cup {None}]
  /\ \A p \in Ports : remembered[p] # None => Sound(remembered[p])
  /\ job \in Jobs /\ PollKnows
  /\ told \in [Ports -> Signatures \cup {None}]
  /\ lost \in SUBSET Ports

-----------------------------------------------------------------------------
(* The assumptions apart, for the provers. *)

LEMMA OrderFits == Order \in Seq(Ports)
BY ReconciliationAssumption

LEMMA OrderInjective == \A i, j \in DOMAIN Order : Order[i] = Order[j] => i = j
BY ReconciliationAssumption DEF IsInjective

LEMMA SituationsFit ==
  Situations \subseteq [status : Statuses, description : Descriptions, trunk : BOOLEAN,
                        macs : SUBSET Macs, cdp : Names \cup {None},
                        lldp : Names \cup {None}]
BY ReconciliationAssumption

LEMMA NoneIsNothing ==
  /\ None # "This PC" /\ None # Unidentified
  /\ None \notin Signatures /\ None \notin Verdicts
BY ReconciliationAssumption

LEMMA UnidentifiedIsNoName == Unidentified \notin Names
BY ReconciliationAssumption

LEMMA NoneIsNoName == None \notin Names
BY TopologyAssumption

-----------------------------------------------------------------------------
(* Verdicts *)

\* What is observed on a port: nothing, or a label; one that identifies is the
\* name of a neighbour or this PC.
LEMMA ObservedFits ==
  ASSUME NEW t \in Readings, NEW p \in Ports, ObservedFor(t, p) # None
  PROVE  /\ ObservedFor(t, p).identified \in BOOLEAN
         /\ ObservedFor(t, p).label \in Seen \ {None}
         /\ ObservedFor(t, p).identified => ObservedFor(t, p).label # Unidentified
<1> DEFINE e == Endpoint(t, p)
           identified == e.source \in {"cdp", "lldp", "local-host"}
<1>1. ObservedFor(t, p) = [label      |-> IF identified THEN LabelOf(e) ELSE Unidentified,
                           identified |-> identified,
                           conflicted |-> e.conflict]
  BY DEF ObservedFor
<1>2. e.entity = EntityOf(t, p)
  BY DEF Endpoint
<1>3. LabelOf(e) \in Names \cup {"This PC"}
  <2>1. CASE Announced(t, p) # None
    <3>1. e.entity = <<"neighbor", Announced(t, p)>>
      BY <1>2, <2>1 DEF EntityOf
    <3>2. Announced(t, p) \in Names
      BY <2>1 DEF Announced, Readings
    <3>3. LabelOf(e) = Announced(t, p)
      BY <3>1 DEF LabelOf
    <3> QED
      BY <3>2, <3>3
  <2>2. CASE Announced(t, p) = None
    <3>1. e.entity \in {<<"local-host">>, <<"mac", Only(t.macTable[p])>>,
                        <<"port-presence", p>>}
      BY <1>2, <2>2 DEF EntityOf
    <3>2. Head(e.entity) # "neighbor"
      BY <3>1
    <3> QED
      BY <3>2 DEF LabelOf
  <2> QED
    BY <2>1, <2>2
<1> HIDE DEF e, identified
<1>4. LabelOf(e) \notin {None, Unidentified}
  BY <1>3, NoneIsNothing, NoneIsNoName, UnidentifiedIsNoName DEF Unidentified
<1>5. identified \in BOOLEAN
  BY DEF identified
<1> QED
  <2>1. ObservedFor(t, p).label = IF identified THEN LabelOf(e) ELSE Unidentified
    BY <1>1
  <2>2. ObservedFor(t, p).identified = identified
    BY <1>1, <1>5
  <2>3. Unidentified # None
    BY NoneIsNothing
  <2> QED
    BY <1>3, <1>4, <1>5, <2>1, <2>2, <2>3 DEF Seen

LEMMA VerdictIsWarranted ==
  ASSUME NEW observed, NEW expected, NEW muted \in BOOLEAN,
         observed # None =>
           /\ observed.identified \in BOOLEAN /\ observed.label \in Seen \ {None}
           /\ observed.identified => observed.label # Unidentified,
         expected \in Labels \cup {Documented[p] : p \in Ports} \cup {None}
  PROVE  /\ Signature(observed, expected, muted) \in Signatures
         /\ Warranted(Signature(observed, expected, muted))
<1> DEFINE s == Signature(observed, expected, muted)
<1>1. s = [status   |-> Verdict(observed, expected, muted),
           observed |-> IF observed = None THEN None ELSE observed.label,
           expected |-> expected]
  BY DEF Signature
<1>2. /\ Verdict(observed, expected, muted) \in States
      /\ Verdict(observed, expected, muted) \in {"aligned", "drift"} =>
           observed # None /\ observed.identified /\ expected # None
      /\ Verdict(observed, expected, muted) = "expected-not-observed" =>
           observed = None /\ expected # None
      /\ Verdict(observed, expected, muted) = "unexpected" =>
           observed # None /\ expected = None
  <2>1. CASE muted
    BY <2>1 DEF Verdict, States
  <2>2. CASE ~muted /\ observed = None
    BY <2>2 DEF Verdict, States
  <2>3. CASE ~muted /\ observed # None /\ expected = None
    BY <2>3 DEF Verdict, States
  <2>4. CASE ~muted /\ observed # None /\ expected # None
    <3>1. Verdict(observed, expected, muted) =
            IF observed.conflicted \/ ~observed.identified THEN "uncertain"
            ELSE IF <<observed.label, expected>> \in Akin THEN "aligned" ELSE "drift"
      BY <2>4 DEF Verdict
    <3> QED
      BY <2>4, <3>1 DEF States
  <2> QED
    BY <2>1, <2>2, <2>3, <2>4
<1> HIDE DEF s
<1>3. s \in Signatures
  BY <1>1, <1>2 DEF Signatures, Seen
<1>4. Warranted(s)
  BY <1>1, <1>2, NoneIsNothing DEF Warranted
<1> QED
  BY <1>3, <1>4 DEF s

-----------------------------------------------------------------------------
(* Types *)

\* The comparison of the next port, given a name.
Observation == ObservedFor(job.reading, Head(job.left))
Expectation == ExpectedFor(job.wishes, Head(job.left))
Muted == job.wishes[Head(job.left)] # None /\ job.wishes[Head(job.left)].muted
NewSignature == Signature(Observation, Expectation, Muted)
NewVerdict ==
  [signature  |-> NewSignature,
   label      |-> IF Observation = None THEN None ELSE Observation.label,
   identified |-> Observation # None /\ Observation.identified]
Swaps ==
  IF Swapped(HistoricalFor(job.before[Head(job.left)], remembered[Head(job.left)]), Observation)
  THEN <<[port |-> Head(job.left), kind |-> "swap", about |-> NewSignature]>> ELSE <<>>
NewNews == News(Head(job.left), remembered[Head(job.left)], NewSignature)

LEMMA CompareSays ==
  ASSUME Compare
  PROVE  /\ job.pc = "compare" /\ job.left # <<>>
         /\ remembered' = [remembered EXCEPT ![Head(job.left)] = NewVerdict]
         /\ job' = [job EXCEPT !.left = Tail(@), !.events = @ \o Swaps \o NewNews]
         /\ UNCHANGED <<switch, intent, statuses, told, lost, spent>>
BY DEF Compare, NewVerdict, Swaps, NewNews, NewSignature, Observation, Expectation, Muted,
       notes

LEMMA NewVerdictFits ==
  ASSUME Shape, job.pc = "compare", job.left # <<>>
  PROVE  /\ Head(job.left) \in Ports
         /\ NewSignature \in Signatures /\ NewVerdict \in Verdicts /\ Sound(NewVerdict)
         /\ NewVerdict.signature = NewSignature
<1>1. /\ job.left \in Seq(Ports) /\ job.reading \in Readings
      /\ job.wishes \in [Ports -> Wishes]
  BY DEF Shape, Jobs, PollKnows
<1>2. Head(job.left) \in Ports
  BY <1>1
<1>3. Observation # None =>
        /\ Observation.identified \in BOOLEAN /\ Observation.label \in Seen \ {None}
        /\ Observation.identified => Observation.label # Unidentified
  BY <1>1, <1>2, ObservedFits DEF Observation
<1>4. job.wishes[Head(job.left)] \in Wishes
  BY <1>1, <1>2
<1>5. Expectation \in Labels \cup {Documented[p] : p \in Ports} \cup {None}
  BY <1>2, <1>4 DEF Expectation, ExpectedFor, Wishes
<1>6. Muted \in BOOLEAN
  BY <1>4 DEF Muted, Wishes
<1>7. NewSignature \in Signatures /\ Warranted(NewSignature)
  BY <1>3, <1>5, <1>6, VerdictIsWarranted DEF NewSignature
<1>8. /\ NewVerdict.signature = NewSignature
      /\ NewVerdict.identified => NewVerdict.label # None
      /\ NewVerdict \in Verdicts
  <2>1. CASE Observation = None
    <3>1. NewVerdict = [signature |-> NewSignature, label |-> None, identified |-> FALSE]
      BY <2>1 DEF NewVerdict
    <3> QED
      BY <1>7, <3>1 DEF Verdicts, Seen
  <2>2. CASE Observation # None
    <3>1. NewVerdict = [signature |-> NewSignature, label |-> Observation.label,
                        identified |-> Observation.identified]
      BY <1>3, <2>2 DEF NewVerdict
    <3> QED
      BY <1>3, <1>7, <2>2, <3>1 DEF Verdicts
  <2> QED
    BY <2>1, <2>2
<1> QED
  BY <1>2, <1>7, <1>8 DEF Sound

LEMMA NewNewsFits ==
  ASSUME Shape, job.pc = "compare", job.left # <<>>
  PROVE  /\ \/ Swaps = <<>>
            \/ \E e \in Telling : /\ Swaps = <<e>> /\ e.kind = "swap"
                                  /\ e.port = Head(job.left)
         /\ \/ NewNews = <<>>
            \/ \E e \in Telling :
                 /\ NewNews = <<e>> /\ e.port = Head(job.left) /\ e.about = NewSignature
                 /\ \/ e.kind = "discrepancy" /\ NewSignature.status \in Eventful
                    \/ e.kind = "resolved" /\ NewSignature.status \notin Eventful
<1> DEFINE p == Head(job.left)
           Said(kind) == [port |-> p, kind |-> kind, about |-> NewSignature]
<1>1. p \in Ports /\ NewSignature \in Signatures
  BY NewVerdictFits
<1>2. \A kind \in {"swap", "discrepancy", "resolved"} : Said(kind) \in Telling
  BY <1>1 DEF Telling
<1>3. Swaps \in {<<>>, <<Said("swap")>>}
  BY DEF Swaps
<1>4. \/ NewNews = <<>>
      \/ NewNews = <<Said("discrepancy")>> /\ NewSignature.status \in Eventful
      \/ NewNews = <<Said("resolved")>> /\ NewSignature.status \notin Eventful
  BY DEF NewNews, News
<1> QED
  BY <1>2, <1>3, <1>4

LEMMA InitShape == Init => Shape
<1> SUFFICES ASSUME Init PROVE Shape
  OBVIOUS
<1>1. switch \in [Ports -> Situations]
  BY DEF Init
<1>2. job \in Jobs /\ PollKnows
  BY DEF Init, Idle, Jobs, PollKnows
<1> QED
  BY <1>1, <1>2 DEF Init, Shape, Wishes, Links

LEMMA IdleFits == Idle \in Jobs
BY DEF Idle, Jobs

LEMMA ReadingFits ==
  ASSUME switch \in [Ports -> Situations], NEW deaf \in BOOLEAN
  PROVE  Reading(deaf) \in Readings
<1>1. \A p \in Ports :
        switch[p] \in [status : Statuses, description : Descriptions, trunk : BOOLEAN,
                       macs : SUBSET Macs, cdp : Names \cup {None}, lldp : Names \cup {None}]
  BY SituationsFit
<1> QED
  BY <1>1 DEF Reading, Readings

LEMMA LinkStatesFit ==
  ASSUME NEW t
  PROVE  LinkStates(t) \in [Ports -> Links]
BY DEF LinkStates, Links

LEMMA SwitchShape ==
  ASSUME Shape, NEW p \in Ports, Rewire(p) \/ PutIntent(p) \/ DeleteIntent(p)
  PROVE  Shape'
<1>1. CASE Rewire(p)
  <2>1. switch' \in [Ports -> Situations]
    BY <1>1 DEF Shape, Rewire
  <2> QED
    BY <1>1, <2>1 DEF Rewire, stores, notes, Shape, PollKnows, Sound, Warranted
<1>2. ASSUME NEW w \in Wishes, Wish(p, w) PROVE Shape'
  <2>1. intent' \in [Ports -> Wishes]
    BY <1>2 DEF Shape, Wish
  <2> QED
    BY <1>2, <2>1 DEF Wish, notes, Shape, PollKnows, Sound, Warranted
<1>3. CASE PutIntent(p)
  <2>1. PICK label \in Labels, muted \in BOOLEAN : Wish(p, [label |-> label, muted |-> muted])
    BY <1>3 DEF PutIntent
  <2>2. [label |-> label, muted |-> muted] \in Wishes
    BY DEF Wishes
  <2> QED
    BY <1>2, <2>1, <2>2
<1>4. CASE DeleteIntent(p)
  BY <1>2, <1>4 DEF DeleteIntent, Wishes
<1> QED
  BY <1>1, <1>3, <1>4

LEMMA PollShape == Shape /\ Poll => Shape'
<1> SUFFICES ASSUME Shape, Poll PROVE Shape'
  OBVIOUS
<1>1. \A deaf \in BOOLEAN : Reading(deaf) \in Readings
  BY ReadingFits DEF Shape
<1>2. PICK deaf \in BOOLEAN, left \in {Order, <<>>} :
        job' = [Idle EXCEPT !.pc = "wishes", !.reading = Reading(deaf), !.left = left]
  <2>1. Idle.left = <<>>
    BY DEF Idle
  <2> QED
    BY <2>1 DEF Poll, Idle
<1>3. left \in Seq(Ports)
  <2>1. <<>> \in Seq(Ports)
    OBVIOUS
  <2> QED
    BY <2>1, OrderFits
<1>4. job' = [pc |-> "wishes", reading |-> Reading(deaf), wishes |-> None,
              before |-> None, left |-> left, events |-> <<>>]
  BY <1>2 DEF Idle
<1>5. job' \in Jobs /\ PollKnows'
  BY <1>1, <1>3, <1>4 DEF Jobs, PollKnows
<1> QED
  BY <1>5 DEF Poll, stores, notes, Shape, Sound, Warranted

LEMMA LoadShape == Shape /\ LoadIntent => Shape'
<1> SUFFICES ASSUME Shape, LoadIntent PROVE Shape'
  OBVIOUS
<1>1. PICK wishes \in [Ports -> Wishes] :
        job' = [job EXCEPT !.pc = "telemetry", !.wishes = wishes]
  <2>1. [p \in Ports |-> None] \in [Ports -> Wishes] /\ intent \in [Ports -> Wishes]
    BY DEF Wishes, Shape
  <2> QED
    BY <2>1 DEF LoadIntent
<1>2. job \in Jobs /\ job.pc = "wishes" /\ PollKnows
  BY DEF Shape, LoadIntent
<1>3. job' \in Jobs /\ PollKnows'
  BY <1>1, <1>2 DEF Jobs, PollKnows
<1> QED
  BY <1>3 DEF LoadIntent, stores, notes, Shape, Sound, Warranted

LEMMA RecordShape == Shape /\ RecordSnapshot => Shape'
<1> SUFFICES ASSUME Shape, RecordSnapshot PROVE Shape'
  OBVIOUS
<1>1. [p \in Ports |-> None] \in [Ports -> Links] /\ statuses \in [Ports -> Links]
  BY DEF Links, Shape
<1>2. PICK before \in [Ports -> Links] :
        job' = [job EXCEPT !.pc = "compare", !.before = before]
  BY <1>1 DEF RecordSnapshot
<1>3. job \in Jobs /\ job.pc = "telemetry" /\ PollKnows
  BY DEF Shape, RecordSnapshot
<1>4. job' \in Jobs /\ PollKnows'
  BY <1>2, <1>3 DEF Jobs, PollKnows
<1>5. statuses' \in [Ports -> Links]
  BY <1>1, LinkStatesFit DEF RecordSnapshot
<1> QED
  BY <1>4, <1>5 DEF RecordSnapshot, notes, Shape, Sound, Warranted

LEMMA CompareShape == Shape /\ Compare => Shape'
<1> SUFFICES ASSUME Shape, Compare PROVE Shape'
  OBVIOUS
<1> DEFINE p == Head(job.left)
<1>1. /\ job.pc = "compare" /\ job.left # <<>>
      /\ remembered' = [remembered EXCEPT ![p] = NewVerdict]
      /\ job' = [job EXCEPT !.left = Tail(@), !.events = @ \o Swaps \o NewNews]
      /\ UNCHANGED <<switch, intent, statuses, told, lost, spent>>
  BY CompareSays
<1>2. NewVerdict \in Verdicts /\ Sound(NewVerdict) /\ p \in Ports
  BY <1>1, NewVerdictFits
<1>3. Swaps \in Seq(Telling) /\ NewNews \in Seq(Telling)
  <2>1. <<>> \in Seq(Telling) /\ \A e \in Telling : <<e>> \in Seq(Telling)
    OBVIOUS
  <2> QED
    BY <1>1, <2>1, NewNewsFits
<1>4. job \in Jobs /\ PollKnows
  BY DEF Shape
<1> HIDE DEF p
<1>5. job.events \o Swaps \o NewNews \in Seq(Telling) /\ Tail(job.left) \in Seq(Ports)
  BY <1>1, <1>3, <1>4 DEF Jobs
<1>6. job' \in Jobs
  BY <1>1, <1>4, <1>5 DEF Jobs
<1>7. job'.pc = "compare" /\ job'.reading = job.reading /\ job'.wishes = job.wishes
      /\ job'.before = job.before
  BY <1>1, <1>4 DEF Jobs
<1>8. PollKnows'
  BY <1>1, <1>4, <1>7 DEF PollKnows
<1>9. remembered' \in [Ports -> Verdicts \cup {None}]
  BY <1>1, <1>2 DEF Shape
<1>10. ASSUME NEW q \in Ports, remembered'[q] # None PROVE Sound(remembered'[q])
  <2>1. CASE q = p
    BY <1>1, <1>2, <2>1 DEF Shape
  <2>2. CASE q # p
    <3>1. remembered'[q] = remembered[q]
      BY <1>1, <2>2 DEF Shape
    <3> QED
      BY <1>10, <3>1 DEF Shape
  <2> QED
    BY <2>1, <2>2
<1>11. (\A q \in Ports : remembered[q] # None => Sound(remembered[q]))'
  BY <1>10 DEF Sound, Warranted
<1> QED
  BY <1>1, <1>6, <1>8, <1>9, <1>11 DEF Shape

LEMMA AnnounceShape == Shape /\ Announce => Shape'
<1> SUFFICES ASSUME Shape, Announce PROVE Shape'
  OBVIOUS
<1>1. job \in Jobs /\ PollKnows /\ job.pc = "announce" /\ job.events # <<>>
      /\ job' = [job EXCEPT !.events = Tail(@)]
  BY DEF Shape, Announce
<1>2. Head(job.events) \in Telling /\ Tail(job.events) \in Seq(Telling)
  BY <1>1 DEF Jobs
<1>3. job' \in Jobs /\ PollKnows'
  BY <1>1, <1>2 DEF Jobs, PollKnows
<1>4. Head(job.events).about \in Signatures /\ Head(job.events).port \in Ports
  BY <1>2 DEF Telling
<1>5. told' \in [Ports -> Signatures \cup {None}] /\ lost' \in SUBSET Ports
  BY <1>4 DEF Shape, Announce
<1> QED
  BY <1>3, <1>5 DEF Announce, stores, Shape, Sound, Warranted

LEMMA EndShape == Shape /\ (Compared \/ PollEnds \/ GoesWrong \/ Restart) => Shape'
<1> SUFFICES ASSUME Shape, Compared \/ PollEnds \/ GoesWrong \/ Restart PROVE Shape'
  OBVIOUS
<1>1. job \in Jobs /\ PollKnows
  BY DEF Shape
<1>2. CASE Compared
  <2>1. job' = [job EXCEPT !.pc = "announce"] /\ job.pc = "compare"
    BY <1>2 DEF Compared
  <2>2. job' \in Jobs /\ PollKnows'
    BY <1>1, <2>1 DEF Jobs, PollKnows
  <2> QED
    BY <1>2, <2>2 DEF Compared, stores, notes, Shape, Sound, Warranted
<1>3. CASE PollEnds \/ GoesWrong \/ Restart
  <2>1. job' = Idle
    BY <1>3 DEF PollEnds, GoesWrong, Restart
  <2>2. job' \in Jobs /\ PollKnows'
    BY <2>1, IdleFits DEF PollKnows, Idle
  <2>3. lost' \in SUBSET Ports
    <3>1. ToSet(job.events) \subseteq Telling
      BY <1>1 DEF Jobs, ToSet
    <3>2. {e.port : e \in {x \in ToSet(job.events) : x.kind # "swap"}} \subseteq Ports
      BY <3>1 DEF Telling
    <3> QED
      BY <1>3, <3>2 DEF PollEnds, GoesWrong, Restart, notes, Shape
  <2> QED
    BY <1>3, <2>2, <2>3 DEF PollEnds, GoesWrong, Restart, stores, notes, Shape, Sound, Warranted
<1> QED
  BY <1>2, <1>3

LEMMA ShapeKept == Shape /\ [Next]_vars => Shape'
<1> SUFFICES ASSUME Shape, [Next]_vars PROVE Shape'
  OBVIOUS
<1>1. CASE UNCHANGED vars
  BY <1>1 DEF vars, stores, notes, Shape, PollKnows, Sound, Warranted
<1> QED
  BY <1>1, SwitchShape, PollShape, LoadShape, RecordShape, CompareShape, AnnounceShape,
     EndShape DEF Next

\* Every variable keeps its type, and no verdict is kept that the assertions
\* beside it do not warrant: drift takes a device that is identified, a cable
\* that is only electrically up never contradicts (reconciliation.py,
\* _reconcile), for any ports, names, labels and failures.
THEOREM VerdictsAreWarranted == Spec => []TypeOK
<1>1. Shape => TypeOK
  <2> SUFFICES ASSUME Shape PROVE TypeOK
    OBVIOUS
  <2>1. job.pc \in {"rest", "wishes", "telemetry", "compare", "announce"}
        /\ ToSet(job.events) \subseteq Telling
    BY DEF Shape, Jobs, ToSet
  <2>2. \A e \in ToSet(job.events) :
          e.port \in Ports /\ e.kind \in {"swap", "discrepancy", "resolved"}
          /\ e.about \in Signatures
    BY <2>1 DEF Telling
  <2>3. \A p \in Ports : remembered[p] # None => Warranted(remembered[p].signature)
    BY DEF Shape, Sound
  <2> QED
    BY <2>1, <2>2, <2>3 DEF Shape, TypeOK, Wishes, Links
<1> QED
  BY <1>1, InitShape, ShapeKept, PTL DEF Spec

-----------------------------------------------------------------------------
(* News *)

\* What is to be told of a port, by its last verdict.
Target(p) ==
  IF remembered[p] # None /\ remembered[p].signature.status \in Eventful
  THEN remembered[p].signature ELSE None

Targets == [p \in Ports |-> Target(p)]

Tells(e) == e.kind # "swap"

\* The events that wait tell at most one thing of a port, which is compared no
\* more in this poll; it is true, and it is news.  What was told of a port for
\* which nothing waits is true, unless something was lost.
Unique(events) ==
  \A i, j \in 1..Len(events) :
    Tells(events[i]) /\ Tells(events[j]) /\ events[i].port = events[j].port => i = j

Fresh(events, left, true, known, gone) ==
  \A i \in 1..Len(events) : Tells(events[i]) =>
    /\ \A k \in 1..Len(left) : left[k] # events[i].port
    /\ events[i].kind = "discrepancy" =>
         /\ events[i].about = true[events[i].port]
         /\ events[i].port \notin gone => known[events[i].port] # events[i].about
    /\ events[i].kind = "resolved" => true[events[i].port] = None

Settled(events, true, known, gone) ==
  \A p \in Ports \ gone :
    (\A i \in 1..Len(events) : Tells(events[i]) => events[i].port # p)
    => known[p] = true[p]

Once(left) == \A i, j \in 1..Len(left) : left[i] = left[j] => i = j

Fits(events, left, true, known, gone) ==
  /\ Unique(events) /\ Fresh(events, left, true, known, gone)
  /\ Settled(events, true, known, gone) /\ Once(left)

Waiting == Fits(job.events, job.left, Targets, told, lost)

LEMMA Extended ==
  ASSUME NEW S, NEW s \in Seq(S), NEW a \in Seq(S), NEW b \in Seq(S),
         Len(a) \in {0, 1}, Len(b) \in {0, 1}
  PROVE  LET t == s \o a \o b
         IN /\ t \in Seq(S) /\ Len(t) = Len(s) + Len(a) + Len(b)
            /\ \A i \in 1..Len(s) : t[i] = s[i]
            /\ Len(a) = 1 => t[Len(s) + 1] = a[1]
            /\ Len(b) = 1 => t[Len(t)] = b[1]
OBVIOUS

LEMMA Shortened ==
  ASSUME NEW S, NEW s \in Seq(S), s # <<>>
  PROVE  /\ Tail(s) \in Seq(S) /\ Len(s) \in Nat \ {0} /\ Len(Tail(s)) = Len(s) - 1
         /\ Head(s) = s[1] /\ Head(s) \in S
         /\ \A i \in 1..Len(Tail(s)) : i + 1 \in 1..Len(s) /\ Tail(s)[i] = s[i + 1]
OBVIOUS

\* What the comparison of a port adds to what is to be told of it.
LEMMA NewsSays ==
  ASSUME Shape, Compare, NEW p \in Ports, p = Head(job.left)
  PROVE  /\ Target(p)' = IF NewSignature.status \in Eventful THEN NewSignature ELSE None
         /\ NewNews = <<>> => Target(p)' = Target(p)
         /\ \A e \in Telling : NewNews = <<e>> =>
              /\ e.kind = "discrepancy" => e.about = Target(p)' /\ e.about # Target(p)
              /\ e.kind = "resolved" => Target(p)' = None
<1> DEFINE old == remembered[p]
           changed == old = None \/ old.signature # NewSignature
           was == old # None /\ old.signature.status \in Eventful
<1>1. /\ NewSignature \in Signatures /\ NewVerdict \in Verdicts
      /\ NewVerdict.signature = NewSignature
  BY CompareSays, NewVerdictFits
<1>2. remembered'[p] = NewVerdict
  BY <1>1, CompareSays DEF Shape
<1>3. NewVerdict # None /\ NewSignature # None
  BY <1>1, NoneIsNothing
<1>4. Target(p)' = IF NewSignature.status \in Eventful THEN NewSignature ELSE None
  <2>1. Target(p)' = IF remembered'[p] # None /\ remembered'[p].signature.status \in Eventful
                     THEN remembered'[p].signature ELSE None
    BY DEF Target, Eventful
  <2> QED
    BY <1>1, <1>2, <1>3, <2>1
<1>5. Target(p) = IF was THEN old.signature ELSE None
  BY DEF Target
<1>6. NewNews = IF changed /\ NewSignature.status \in Eventful
                THEN <<[port |-> p, kind |-> "discrepancy", about |-> NewSignature]>>
                ELSE IF changed /\ was
                     THEN <<[port |-> p, kind |-> "resolved", about |-> NewSignature]>>
                     ELSE <<>>
  BY DEF NewNews, News
<1>7. CASE changed /\ NewSignature.status \in Eventful
  <2>1. NewNews = <<[port |-> p, kind |-> "discrepancy", about |-> NewSignature]>>
    BY <1>6, <1>7
  <2>2. Target(p) # NewSignature
    BY <1>3, <1>5, <1>7
  <2> QED
    BY <1>4, <1>7, <2>1, <2>2
<1>8. CASE ~(changed /\ NewSignature.status \in Eventful) /\ changed /\ was
  <2>1. NewNews = <<[port |-> p, kind |-> "resolved", about |-> NewSignature]>>
    BY <1>6, <1>8
  <2> QED
    BY <1>4, <1>8, <2>1
<1>9. CASE ~(changed /\ NewSignature.status \in Eventful) /\ ~(changed /\ was)
  <2>1. NewNews = <<>>
    BY <1>6, <1>9
  <2>2. Target(p)' = Target(p)
    BY <1>4, <1>5, <1>9
  <2> QED
    BY <1>4, <2>1, <2>2
<1> QED
  BY <1>7, <1>8, <1>9

\* The comparison of a port p adds a swap or not, and news of it or not.
LEMMA FitsCompared ==
  ASSUME NEW E \in Seq(Telling), NEW L \in Seq(Ports), L # <<>>,
         NEW S \in Seq(Telling), NEW N \in Seq(Telling),
         NEW T, NEW T2, NEW known, NEW gone, NEW p, p = Head(L),
         Fits(E, L, T, known, gone),
         \A q \in Ports \ {p} : T2[q] = T[q],
         Len(S) \in {0, 1}, Len(S) = 1 => ~Tells(S[1]),
         Len(N) \in {0, 1}, Len(N) = 0 => T2[p] = T[p],
         Len(N) = 1 => /\ N[1].port = p /\ Tells(N[1])
                       /\ N[1].kind = "discrepancy" => N[1].about = T2[p] /\ N[1].about # T[p]
                       /\ N[1].kind = "resolved" => T2[p] = None
  PROVE  Fits(E \o S \o N, Tail(L), T2, known, gone)
<1> DEFINE F == E \o S \o N
           M == Tail(L)
<1>1. /\ p \in Ports /\ p = L[1] /\ Len(M) = Len(L) - 1 /\ Len(L) \in Nat \ {0}
      /\ \A k \in 1..Len(M) : k + 1 \in 1..Len(L) /\ M[k] = L[k + 1]
  BY Shortened
<1>2. /\ Len(F) = Len(E) + Len(S) + Len(N) /\ Len(E) \in Nat
      /\ \A i \in 1..Len(E) : F[i] = E[i]
      /\ Len(S) = 1 => F[Len(E) + 1] = S[1]
      /\ Len(N) = 1 => F[Len(F)] = N[1]
  BY Extended
<1>3. Unique(E) /\ Fresh(E, L, T, known, gone) /\ Settled(E, T, known, gone) /\ Once(L)
  BY DEF Fits
<1> HIDE DEF F, M
\* An event that tells something is an old one, or the news of this port.
<1>4. ASSUME NEW i \in 1..Len(F), Tells(F[i])
      PROVE  \/ i \in 1..Len(E) /\ F[i] = E[i]
             \/ i = Len(F) /\ i > Len(E) /\ Len(N) = 1 /\ F[i] = N[1]
  <2>1. CASE Len(S) = 0 /\ Len(N) = 0
    BY <1>2, <2>1
  <2>2. CASE Len(S) = 1 /\ Len(N) = 0
    <3>1. i \in 1..Len(E) \/ i = Len(E) + 1
      BY <1>2, <2>2
    <3>2. i # Len(E) + 1
      BY <1>2, <1>4, <2>2
    <3> QED
      BY <1>2, <3>1, <3>2
  <2>3. CASE Len(S) = 0 /\ Len(N) = 1
    <3>1. i \in 1..Len(E) \/ (i = Len(F) /\ i > Len(E))
      BY <1>2, <2>3
    <3> QED
      BY <1>2, <2>3, <3>1
  <2>4. CASE Len(S) = 1 /\ Len(N) = 1
    <3>1. i \in 1..Len(E) \/ i = Len(E) + 1 \/ (i = Len(F) /\ i > Len(E))
      BY <1>2, <2>4
    <3>2. i # Len(E) + 1
      BY <1>2, <1>4, <2>4
    <3> QED
      BY <1>2, <2>4, <3>1, <3>2
  <2> QED
    BY <2>1, <2>2, <2>3, <2>4
<1>5. ASSUME NEW i \in 1..Len(E), Tells(E[i]) PROVE E[i].port \in Ports \ {p}
  <2>1. E[i] \in Telling
    OBVIOUS
  <2>2. \A k \in 1..Len(L) : L[k] # E[i].port
    BY <1>3, <1>5 DEF Fresh
  <2> QED
    BY <1>1, <2>1, <2>2 DEF Telling
<1>6. Unique(F)
  <2> SUFFICES ASSUME NEW i \in 1..Len(F), NEW j \in 1..Len(F), Tells(F[i]), Tells(F[j]),
                      F[i].port = F[j].port
               PROVE  i = j
    BY DEF Unique
  <2>1. CASE i \in 1..Len(E) /\ F[i] = E[i] /\ j \in 1..Len(E) /\ F[j] = E[j]
    BY <1>3, <2>1 DEF Unique
  <2>2. CASE i \in 1..Len(E) /\ F[i] = E[i] /\ j = Len(F) /\ Len(N) = 1 /\ F[j] = N[1]
    BY <1>5, <2>2
  <2>3. CASE i = Len(F) /\ Len(N) = 1 /\ F[i] = N[1] /\ j \in 1..Len(E) /\ F[j] = E[j]
    BY <1>5, <2>3
  <2>4. CASE i = Len(F) /\ j = Len(F)
    BY <2>4
  <2> QED
    BY <1>4, <2>1, <2>2, <2>3, <2>4
<1>7. p \notin gone => known[p] = T[p]
  <2>1. \A i \in 1..Len(E) : Tells(E[i]) => E[i].port # p
    BY <1>5
  <2> QED
    BY <1>1, <1>3, <2>1 DEF Settled
<1>8. Once(M) /\ \A k \in 1..Len(M) : M[k] # p
  <2>1. Once(M)
    <3> SUFFICES ASSUME NEW i \in 1..Len(M), NEW j \in 1..Len(M), M[i] = M[j] PROVE i = j
      BY DEF Once
    <3>1. i + 1 \in 1..Len(L) /\ j + 1 \in 1..Len(L) /\ L[i + 1] = L[j + 1]
      BY <1>1
    <3>2. i + 1 = j + 1
      BY <1>3, <3>1 DEF Once
    <3> QED
      BY <3>2
  <2>2. ASSUME NEW k \in 1..Len(M), M[k] = p PROVE FALSE
    <3>1. k + 1 \in 1..Len(L) /\ 1 \in 1..Len(L) /\ L[k + 1] = L[1]
      BY <1>1, <2>2
    <3>2. k + 1 = 1
      BY <1>3, <3>1 DEF Once
    <3> QED
      BY <3>2
  <2> QED
    BY <2>1, <2>2
<1>9. Fresh(F, M, T2, known, gone)
  <2> SUFFICES ASSUME NEW i \in 1..Len(F), Tells(F[i])
               PROVE  /\ \A k \in 1..Len(M) : M[k] # F[i].port
                      /\ F[i].kind = "discrepancy" =>
                           /\ F[i].about = T2[F[i].port]
                           /\ F[i].port \notin gone => known[F[i].port] # F[i].about
                      /\ F[i].kind = "resolved" => T2[F[i].port] = None
    BY DEF Fresh
  <2>1. CASE i \in 1..Len(E) /\ F[i] = E[i]
    <3>1. Tells(E[i]) /\ E[i].port \in Ports \ {p}
      BY <1>5, <2>1
    <3>2. T2[E[i].port] = T[E[i].port]
      BY <3>1
    <3>3. /\ \A k \in 1..Len(L) : L[k] # E[i].port
          /\ E[i].kind = "discrepancy" =>
               /\ E[i].about = T[E[i].port]
               /\ E[i].port \notin gone => known[E[i].port] # E[i].about
          /\ E[i].kind = "resolved" => T[E[i].port] = None
      BY <1>3, <2>1, <3>1 DEF Fresh
    <3>4. \A k \in 1..Len(M) : M[k] # E[i].port
      BY <1>1, <3>3
    <3> QED
      BY <2>1, <3>2, <3>3, <3>4
  <2>2. CASE Len(N) = 1 /\ F[i] = N[1]
    <3>1. /\ F[i].port = p
          /\ F[i].kind = "discrepancy" => F[i].about = T2[p] /\ F[i].about # T[p]
          /\ F[i].kind = "resolved" => T2[p] = None
      BY <2>2
    <3> QED
      BY <1>7, <1>8, <3>1
  <2> QED
    BY <1>4, <2>1, <2>2
<1>10. Settled(F, T2, known, gone)
  <2> SUFFICES ASSUME NEW q \in Ports \ gone,
                      \A i \in 1..Len(F) : Tells(F[i]) => F[i].port # q
               PROVE  known[q] = T2[q]
    BY DEF Settled
  <2>1. CASE q = p
    <3>1. Len(N) # 1
      <4> SUFFICES ASSUME Len(N) = 1 PROVE FALSE
        OBVIOUS
      <4>1. F[Len(F)] = N[1] /\ Len(F) \in 1..Len(F)
        BY <1>2
      <4>2. N[1].port = p /\ Tells(N[1])
        OBVIOUS
      <4> QED
        BY <2>1, <4>1, <4>2
    <3> QED
      BY <1>7, <2>1, <3>1
  <2>2. CASE q # p
    <3>1. \A i \in 1..Len(E) : Tells(E[i]) => E[i].port # q
      <4> SUFFICES ASSUME NEW i \in 1..Len(E), Tells(E[i]) PROVE E[i].port # q
        OBVIOUS
      <4>1. i \in 1..Len(F) /\ F[i] = E[i]
        BY <1>2
      <4> QED
        BY <4>1
    <3>2. known[q] = T[q]
      BY <1>3, <3>1 DEF Settled
    <3> QED
      BY <2>2, <3>2
  <2> QED
    BY <2>1, <2>2
<1>11. Fits(F, M, T2, known, gone)
  BY <1>6, <1>8, <1>9, <1>10 DEF Fits
<1> QED
  BY <1>11 DEF F, M

\* The first event is announced.
LEMMA FitsAnnounced ==
  ASSUME NEW E \in Seq(Telling), E # <<>>, NEW L, NEW T, NEW known, NEW gone,
         NEW known2, NEW gone2, NEW e, e = Head(E),
         Fits(E, L, T, known, gone),
         \A q \in Ports \ {e.port} : known2[q] = known[q],
         ~Tells(e) => known2[e.port] = known[e.port] /\ gone2 = gone,
         Tells(e) => gone2 = gone \ {e.port},
         e.kind = "discrepancy" => known2[e.port] = e.about,
         e.kind = "resolved" => known2[e.port] = None
  PROVE  Fits(Tail(E), L, T, known2, gone2)
<1> DEFINE F == Tail(E)
<1>1. /\ e = E[1] /\ e \in Telling /\ Len(F) = Len(E) - 1 /\ Len(E) \in Nat \ {0}
      /\ \A i \in 1..Len(F) : i + 1 \in 1..Len(E) /\ F[i] = E[i + 1]
  BY Shortened
<1>2. Unique(E) /\ Fresh(E, L, T, known, gone) /\ Settled(E, T, known, gone) /\ Once(L)
  BY DEF Fits
<1>3. e.port \in Ports /\ e.kind \in {"swap", "discrepancy", "resolved"}
  BY <1>1 DEF Telling
<1> HIDE DEF F
<1>4. Unique(F)
  <2> SUFFICES ASSUME NEW i \in 1..Len(F), NEW j \in 1..Len(F), Tells(F[i]), Tells(F[j]),
                      F[i].port = F[j].port
               PROVE  i = j
    BY DEF Unique
  <2>1. i + 1 \in 1..Len(E) /\ j + 1 \in 1..Len(E) /\ F[i] = E[i + 1] /\ F[j] = E[j + 1]
    BY <1>1
  <2>2. i + 1 = j + 1
    BY <1>2, <2>1 DEF Unique
  <2> QED
    BY <2>2
\* Another event that tells something is of another port.
<1>5. ASSUME NEW i \in 1..Len(F), Tells(F[i]), Tells(e) PROVE F[i].port # e.port
  <2> SUFFICES ASSUME F[i].port = e.port PROVE FALSE
    OBVIOUS
  <2>1. i + 1 \in 1..Len(E) /\ 1 \in 1..Len(E) /\ F[i] = E[i + 1] /\ e = E[1]
    BY <1>1
  <2>2. i + 1 = 1
    BY <1>2, <1>5, <2>1 DEF Unique
  <2> QED
    BY <2>2
<1>6. Fresh(F, L, T, known2, gone2)
  <2> SUFFICES ASSUME NEW i \in 1..Len(F), Tells(F[i])
               PROVE  /\ \A k \in 1..Len(L) : L[k] # F[i].port
                      /\ F[i].kind = "discrepancy" =>
                           /\ F[i].about = T[F[i].port]
                           /\ F[i].port \notin gone2 => known2[F[i].port] # F[i].about
                      /\ F[i].kind = "resolved" => T[F[i].port] = None
    BY DEF Fresh
  <2>1. i + 1 \in 1..Len(E) /\ F[i] = E[i + 1]
    BY <1>1
  <2>2. /\ \A k \in 1..Len(L) : L[k] # F[i].port
        /\ F[i].kind = "discrepancy" =>
             /\ F[i].about = T[F[i].port]
             /\ F[i].port \notin gone => known[F[i].port] # F[i].about
        /\ F[i].kind = "resolved" => T[F[i].port] = None
    BY <1>2, <2>1 DEF Fresh
  <2>3. F[i].port \in Ports
    <3>1. E[i + 1] \in Telling
      BY <2>1
    <3> QED
      BY <2>1, <3>1 DEF Telling
  <2>4. F[i].port \notin gone2 => F[i].port \notin gone
    BY <1>5
  <2>5. known2[F[i].port] = known[F[i].port]
    BY <1>5, <2>3
  <2> QED
    BY <2>2, <2>4, <2>5
<1>7. Settled(F, T, known2, gone2)
  <2> SUFFICES ASSUME NEW q \in Ports \ gone2,
                      \A i \in 1..Len(F) : Tells(F[i]) => F[i].port # q
               PROVE  known2[q] = T[q]
    BY DEF Settled
  <2>1. CASE Tells(e) /\ q = e.port
    <3>1. 1 \in 1..Len(E) /\ E[1] = e
      BY <1>1
    <3>2. /\ e.kind = "discrepancy" => e.about = T[e.port]
          /\ e.kind = "resolved" => T[e.port] = None
      BY <1>2, <2>1, <3>1 DEF Fresh
    <3> QED
      BY <1>3, <2>1, <3>2 DEF Tells
  <2>2. CASE ~(Tells(e) /\ q = e.port)
    <3>1. known2[q] = known[q] /\ q \notin gone
      BY <2>2
    <3>2. ASSUME NEW i \in 1..Len(E), Tells(E[i]) PROVE E[i].port # q
      <4>1. CASE i = 1
        BY <1>1, <2>2, <3>2, <4>1
      <4>2. CASE i # 1
        <5>1. i - 1 \in 1..Len(F) /\ (i - 1) + 1 = i
          BY <1>1, <4>2
        <5>2. F[i - 1] = E[i]
          BY <1>1, <5>1
        <5> QED
          BY <3>2, <5>1, <5>2
      <4> QED
        BY <4>1, <4>2
    <3> QED
      BY <1>2, <3>1, <3>2 DEF Settled
  <2> QED
    BY <2>1, <2>2
<1>8. Fits(F, L, T, known2, gone2)
  BY <1>2, <1>4, <1>6, <1>7 DEF Fits
<1> QED
  BY <1>8 DEF F

\* The poll stops with events that wait.
LEMMA FitsLost ==
  ASSUME NEW E, NEW L, NEW T, NEW known, NEW gone, NEW gone2, Fits(E, L, T, known, gone),
         gone \subseteq gone2,
         \A i \in 1..Len(E) : Tells(E[i]) => E[i].port \in gone2
  PROVE  Fits(<<>>, <<>>, T, known, gone2)
<1>1. Len(<<>>) = 0
  OBVIOUS
<1>2. Settled(<<>>, T, known, gone2)
  <2> SUFFICES ASSUME NEW q \in Ports \ gone2 PROVE known[q] = T[q]
    BY DEF Settled
  <2>1. q \in Ports \ gone
    OBVIOUS
  <2>2. \A i \in 1..Len(E) : Tells(E[i]) => E[i].port # q
    OBVIOUS
  <2>3. Settled(E, T, known, gone)
    BY DEF Fits
  <2> QED
    BY <2>1, <2>2, <2>3 DEF Settled
<1> QED
  BY <1>1, <1>2 DEF Fits, Unique, Fresh, Once

\* Nothing waits, and other ports are left to compare.
LEMMA FitsBegun ==
  ASSUME NEW L, NEW M, NEW T, NEW known, NEW gone, Fits(<<>>, L, T, known, gone), Once(M)
  PROVE  Fits(<<>>, M, T, known, gone)
BY DEF Fits, Fresh

LEMMA InitWaiting == Init => Waiting
<1> SUFFICES ASSUME Init PROVE Waiting
  OBVIOUS
<1>1. job.events = <<>> /\ job.left = <<>>
  BY DEF Init, Idle
<1>2. Len(<<>>) = 0
  OBVIOUS
<1>3. \A p \in Ports : told[p] = None /\ Targets[p] = None
  BY DEF Init, Target, Targets
<1>4. Fits(<<>>, <<>>, Targets, told, lost)
  BY <1>2, <1>3 DEF Fits, Unique, Fresh, Settled, Once
<1> QED
  BY <1>1, <1>4 DEF Waiting

LEMMA WaitingSays ==
  ASSUME Shape
  PROVE  /\ Waiting' <=> Fits(job'.events, job'.left, Targets', told', lost')
         /\ UNCHANGED remembered => Targets' = Targets
         /\ job.events \in Seq(Telling) /\ job.left \in Seq(Ports)
<1>1. UNCHANGED remembered => Targets' = Targets
  BY DEF Targets, Target, Eventful
<1>2. Waiting' <=> Fits(job'.events, job'.left, Targets', told', lost')
  BY DEF Waiting, Fits, Unique, Fresh, Settled, Once, Tells
<1> QED
  BY <1>1, <1>2 DEF Shape, Jobs

LEMMA BeginWaits == Shape /\ Waiting /\ (Poll \/ LoadIntent \/ RecordSnapshot) => Waiting'
<1> SUFFICES ASSUME Shape, Waiting, Poll \/ LoadIntent \/ RecordSnapshot PROVE Waiting'
  OBVIOUS
<1>1. Targets' = Targets /\ told' = told /\ lost' = lost
  BY WaitingSays DEF Poll, LoadIntent, RecordSnapshot, stores, notes
<1>2. job.events = <<>>
  BY DEF Shape, PollKnows, Poll, LoadIntent, RecordSnapshot, Idle
<1>3. job'.events = <<>> /\ job'.left \in {job.left, Order, <<>>}
  BY <1>2 DEF Shape, Jobs, Poll, LoadIntent, RecordSnapshot, Idle
<1>4. Once(job.left) /\ Once(Order) /\ Once(<<>>)
  <2>1. DOMAIN Order = 1..Len(Order) /\ Len(<<>>) = 0
    BY OrderFits
  <2> QED
    BY <2>1, OrderInjective DEF Waiting, Fits, Once
<1>5. Fits(<<>>, job'.left, Targets, told, lost)
  BY <1>2, <1>3, <1>4, FitsBegun DEF Waiting
<1> QED
  BY <1>1, <1>3, <1>5, WaitingSays

LEMMA CompareWaits == Shape /\ Waiting /\ Compare => Waiting'
<1> SUFFICES ASSUME Shape, Waiting, Compare, NEW p, p = Head(job.left) PROVE Waiting'
  OBVIOUS
<1>1. /\ job.pc = "compare" /\ job.left # <<>>
      /\ remembered' = [remembered EXCEPT ![p] = NewVerdict]
      /\ job' = [job EXCEPT !.left = Tail(@), !.events = @ \o Swaps \o NewNews]
      /\ told' = told /\ lost' = lost
  BY CompareSays
<1>2. job'.events = job.events \o Swaps \o NewNews /\ job'.left = Tail(job.left)
  BY <1>1 DEF Shape, Jobs
<1>3. p \in Ports
  BY <1>1, NewVerdictFits
<1>4. /\ Swaps \in Seq(Telling) /\ Len(Swaps) \in {0, 1}
      /\ Len(Swaps) = 1 => ~Tells(Swaps[1])
  <2>1. CASE Swaps = <<>>
    BY <2>1
  <2>2. CASE Swaps # <<>>
    <3>1. PICK e \in Telling : Swaps = <<e>> /\ e.kind = "swap"
      BY <1>1, <2>2, NewNewsFits
    <3> QED
      BY <3>1 DEF Tells
  <2> QED
    BY <2>1, <2>2
<1>5. Targets'[p] = Target(p)' /\ Targets[p] = Target(p)
  BY <1>3 DEF Targets
<1>6. /\ NewNews \in Seq(Telling) /\ Len(NewNews) \in {0, 1}
      /\ Len(NewNews) = 0 => Targets'[p] = Targets[p]
      /\ Len(NewNews) = 1 =>
           /\ NewNews[1].port = p /\ Tells(NewNews[1])
           /\ NewNews[1].kind = "discrepancy" =>
                NewNews[1].about = Targets'[p] /\ NewNews[1].about # Targets[p]
           /\ NewNews[1].kind = "resolved" => Targets'[p] = None
  <2>1. CASE NewNews = <<>>
    <3>1. Target(p)' = Target(p)
      BY <1>3, <2>1, NewsSays
    <3> QED
      BY <1>5, <2>1, <3>1
  <2>2. CASE NewNews # <<>>
    <3>1. PICK e \in Telling : /\ NewNews = <<e>> /\ e.port = p
                               /\ e.kind \in {"discrepancy", "resolved"}
      BY <1>1, <2>2, NewNewsFits
    <3>2. /\ e.kind = "discrepancy" => e.about = Target(p)' /\ e.about # Target(p)
          /\ e.kind = "resolved" => Target(p)' = None
      BY <1>3, <3>1, NewsSays
    <3> QED
      BY <1>5, <3>1, <3>2 DEF Tells
  <2> QED
    BY <2>1, <2>2
<1>7. ASSUME NEW q \in Ports \ {p} PROVE Targets'[q] = Targets[q]
  <2>1. remembered'[q] = remembered[q]
    BY <1>1 DEF Shape
  <2>2. Target(q)' = Target(q)
    BY <2>1 DEF Target, Eventful
  <2> QED
    BY <2>2 DEF Targets
<1>8. Fits(job.events, job.left, Targets, told, lost)
  BY DEF Waiting
<1>9. job.events \in Seq(Telling) /\ job.left \in Seq(Ports)
  BY WaitingSays
<1>10. Fits(job.events \o Swaps \o NewNews, Tail(job.left), Targets', told, lost)
  BY <1>1, <1>4, <1>6, <1>7, <1>8, <1>9, FitsCompared
<1> QED
  BY <1>1, <1>2, <1>10, WaitingSays

LEMMA AnnounceSays ==
  ASSUME Shape, Announce, NEW e, e = Head(job.events)
  PROVE  /\ job.events # <<>> /\ e \in Telling
         /\ job'.events = Tail(job.events) /\ job'.left = job.left
         /\ UNCHANGED remembered
         /\ \A q \in Ports \ {e.port} : told'[q] = told[q]
         /\ ~Tells(e) => told'[e.port] = told[e.port] /\ lost' = lost
         /\ Tells(e) => lost' = lost \ {e.port}
         /\ e.kind = "discrepancy" => told'[e.port] = e.about
         /\ e.kind = "resolved" => told'[e.port] = None
<1>1. job.events # <<>> /\ job.events \in Seq(Telling)
  BY DEF Announce, Shape, Jobs
<1>2. e \in Telling
  BY <1>1
<1>3. e.port \in Ports /\ e.kind \in {"swap", "discrepancy", "resolved"}
  BY <1>2 DEF Telling
<1>4. job'.events = Tail(job.events) /\ job'.left = job.left /\ UNCHANGED remembered
  BY DEF Announce, Shape, Jobs, stores
<1>5. lost' = IF e.kind = "swap" THEN lost ELSE lost \ {e.port}
  BY DEF Announce
<1>6. told' = [told EXCEPT ![e.port] = CASE e.kind = "discrepancy" -> e.about
                                         [] e.kind = "resolved"    -> None
                                         [] OTHER                  -> @]
  BY DEF Announce
<1>7. told \in [Ports -> Signatures \cup {None}]
  BY DEF Shape
<1>8. \A q \in Ports \ {e.port} : told'[q] = told[q]
  BY <1>3, <1>6, <1>7
<1>9. told'[e.port] = CASE e.kind = "discrepancy" -> e.about
                        [] e.kind = "resolved"    -> None
                        [] OTHER                  -> told[e.port]
  BY <1>3, <1>6, <1>7
<1> QED
  BY <1>1, <1>2, <1>3, <1>4, <1>5, <1>8, <1>9 DEF Tells

LEMMA AnnounceWaits == Shape /\ Waiting /\ Announce => Waiting'
<1> SUFFICES ASSUME Shape, Waiting, Announce PROVE Waiting'
  OBVIOUS
<1> DEFINE e == Head(job.events)
<1>1. /\ job.events # <<>>
      /\ job'.events = Tail(job.events) /\ job'.left = job.left
      /\ UNCHANGED remembered
      /\ \A q \in Ports \ {e.port} : told'[q] = told[q]
      /\ ~Tells(e) => told'[e.port] = told[e.port] /\ lost' = lost
      /\ Tells(e) => lost' = lost \ {e.port}
      /\ e.kind = "discrepancy" => told'[e.port] = e.about
      /\ e.kind = "resolved" => told'[e.port] = None
  BY AnnounceSays
<1>2. Fits(job.events, job.left, Targets, told, lost) /\ job.events \in Seq(Telling)
  BY WaitingSays DEF Waiting
<1>3. e = Head(job.events)
  OBVIOUS
<1> HIDE DEF e
<1>4. Fits(Tail(job.events), job.left, Targets, told', lost')
  BY <1>1, <1>2, <1>3, FitsAnnounced
<1> QED
  BY <1>1, <1>4, WaitingSays

LEMMA EndWaits == Shape /\ Waiting /\ (PollEnds \/ GoesWrong \/ Restart) => Waiting'
<1> SUFFICES ASSUME Shape, Waiting, PollEnds \/ GoesWrong \/ Restart PROVE Waiting'
  OBVIOUS
<1>1. Targets' = Targets /\ told' = told /\ job' = Idle
  BY WaitingSays DEF PollEnds, GoesWrong, Restart, stores, notes
<1>2. job'.events = <<>> /\ job'.left = <<>>
  BY <1>1 DEF Idle
<1>3. lost \subseteq lost' /\ \A i \in 1..Len(job.events) :
        Tells(job.events[i]) => job.events[i].port \in lost'
  <2>1. CASE PollEnds
    BY <2>1 DEF PollEnds, notes
  <2>2. CASE GoesWrong \/ Restart
    <3>1. lost' = lost \cup {x.port : x \in {y \in ToSet(job.events) : y.kind # "swap"}}
      BY <2>2 DEF GoesWrong, Restart
    <3>2. job.events \in Seq(Telling)
      BY WaitingSays
    <3>3. \A i \in 1..Len(job.events) : job.events[i] \in ToSet(job.events)
      BY <3>2 DEF ToSet
    <3> QED
      BY <3>1, <3>3 DEF Tells
  <2> QED
    BY <2>1, <2>2
<1>4. Fits(<<>>, <<>>, Targets, told, lost')
  BY <1>3, FitsLost DEF Waiting
<1> QED
  BY <1>1, <1>2, <1>4, WaitingSays

LEMMA OthersWait ==
  ASSUME Shape, Waiting,
         \/ \E p \in Ports : Rewire(p) \/ PutIntent(p) \/ DeleteIntent(p)
         \/ Compared \/ UNCHANGED vars
  PROVE  Waiting'
<1>1. UNCHANGED <<remembered, told, lost>>
  BY DEF Rewire, PutIntent, DeleteIntent, Wish, Compared, vars, stores, notes
<1>2. job'.events = job.events /\ job'.left = job.left
  BY DEF Rewire, PutIntent, DeleteIntent, Wish, Compared, vars, Shape, Jobs
<1> QED
  BY <1>1, <1>2, WaitingSays DEF Waiting

LEMMA WaitingKept == Shape /\ Waiting /\ [Next]_vars => Waiting'
BY BeginWaits, CompareWaits, AnnounceWaits, EndWaits, OthersWait DEF Next

\* The invariant behind what follows.
LEMMA ShapeAndNews == Spec => [](Shape /\ Waiting)
<1>1. Init => Shape /\ Waiting
  BY InitShape, InitWaiting
<1>2. (Shape /\ Waiting) /\ [Next]_vars => (Shape /\ Waiting)'
  BY ShapeKept, WaitingKept
<1> QED
  BY <1>1, <1>2, PTL DEF Spec

\* Between two polls, what an onlooker was told of a port and what
\* reconciliation_state holds agree, unless the last news of it was lost.
THEOREM NewsIsTrue == Spec => []ToldIsTrue
<1>1. Shape /\ Waiting => ToldIsTrue
  <2> SUFFICES ASSUME Shape, Waiting, job = Idle, NEW p \in Ports \ lost
               PROVE  told[p] = Target(p)
    BY DEF ToldIsTrue, Target
  <2>1. Len(job.events) = 0
    BY DEF Idle
  <2>2. told[p] = Targets[p]
    BY <2>1 DEF Waiting, Fits, Settled
  <2> QED
    BY <2>2 DEF Targets
<1> QED
  BY <1>1, ShapeAndNews, PTL

\* One situation is announced once (observe_reconciliation).
ToldOnce ==
  \A p \in Ports \ lost :
    (/\ job.pc = "announce" /\ job'.pc = "announce" /\ job' # job
     /\ Head(job.events).port = p /\ Head(job.events).kind = "discrepancy")
    => told'[p] # told[p]

THEOREM SaidOnce == Spec => NeverTwice
<1>1. ASSUME Shape, Waiting, [Next]_vars PROVE ToldOnce
  <2> SUFFICES ASSUME NEW p \in Ports \ lost,
                      job.pc = "announce", job'.pc = "announce", job' # job,
                      Head(job.events).port = p, Head(job.events).kind = "discrepancy"
               PROVE  told'[p] # told[p]
    BY DEF ToldOnce
  <2>1. Announce
    <3>1. /\ Poll => job'.pc = "wishes"
          /\ LoadIntent \/ RecordSnapshot \/ Compare \/ Compared => job.pc # "announce"
          /\ PollEnds \/ GoesWrong \/ Restart => job'.pc = "rest"
      BY DEF Poll, LoadIntent, RecordSnapshot, Compare, Compared, PollEnds, GoesWrong,
         Restart, Idle
    <3>2. \A q \in Ports : ~Rewire(q) /\ ~PutIntent(q) /\ ~DeleteIntent(q)
      BY DEF Rewire, PutIntent, DeleteIntent, Wish
    <3>3. Next
      BY <1>1 DEF vars
    <3> QED
      BY <3>1, <3>2, <3>3 DEF Next
  <2>2. job.events # <<>> /\ job.events \in Seq(Telling) /\ told'[p] = Head(job.events).about
    BY <1>1, <2>1, AnnounceSays, WaitingSays
  <2>3. 1 \in 1..Len(job.events) /\ job.events[1] = Head(job.events)
    BY <2>2
  <2>4. told[p] # Head(job.events).about
    BY <1>1, <2>3 DEF Waiting, Fits, Fresh, Tells
  <2> QED
    BY <2>2, <2>4
<1>2. (Shape /\ Waiting) /\ [Next]_vars => [ToldOnce]_vars
  BY <1>1
<1>3. [][ToldOnce]_vars => NeverTwice
  BY PTL DEF NeverTwice, ToldOnce
<1> QED
  BY <1>2, <1>3, ShapeAndNews, PTL DEF Spec

=============================================================================
