---------------------------- MODULE DiscoveryProofs ----------------------------
(***************************************************************************)
(* What is proved of Discovery for any ports, situations, names, addresses *)
(* and failures: its types, that the topology shown and the history agree, *)
(* and that what stays on a port is not forgotten.                         *)
(***************************************************************************)
EXTENDS Discovery, FiniteSetTheorems, SequenceTheorems, TLAPS

Interfaces == [Ports -> [status : Statuses, description : Descriptions, trunk : BOOLEAN]]
Learned == [Ports -> SUBSET Macs]
Heard == [Ports -> Names \cup {None}]
Readings == [identity : Roots, interfaces : Interfaces, macTable : Learned,
             neighbors : Heard, lldp : Heard, arp : SUBSET Macs]

Rows == [entity : Entities, port : Ports, source : Sources, active : BOOLEAN,
         was : Entities \cup {None}]
OneEach(table) ==
  \A i, j \in DOMAIN table : table[i].entity = table[j].entity => i = j
Tables == {table \in Seq(Rows) : OneEach(table)}

Jobs == [kind : {"none", "deep", "slow"}, pc : {"rest", "read", "apply", "age", "publish"},
         before : Seq(ToSet(Deep)), seen : Readings, failed : SUBSET ToSet(Deep),
         rejected : SUBSET ToSet(Deep), built : Topologies \cup {None}]

Shape ==
  /\ switch \in [Ports -> Situations]
  /\ fast \in Interfaces \cup {None}
  /\ rows \in [Roots -> [entities : Tables, counted : BOOLEAN]]
  /\ shown \in Topologies \cup {None}
  /\ moved \in [fast : SUBSET Ports, poll : SUBSET Ports]
  /\ job \in Jobs
  /\ job.pc # "rest" => job.kind # "none"
  /\ job.pc = "read" => job.before # <<>>
  /\ job.pc = "apply" => job.before = <<>>

\* The entities that a table calls active.
ActiveIn(table) == {row.entity : row \in {x \in ToSet(table) : x.active}}

\* What is shown agrees with the history; while a poll has stored and not yet
\* published, what it is about to publish does.
Agrees(t, known) ==
  t # None /\ t.saved =>
    {d.entity : d \in t.devices} = ActiveIn(known[t.root].entities)

Agreeing == IF job.pc = "publish" THEN Agrees(job.built, rows) ELSE Agrees(shown, rows)

\* What is read of a port and has not changed since is so still.
Tabled == {"interfaces", "macTable", "neighbors", "lldp"}
Cell(situation, section) ==
  CASE section = "interfaces" -> [status      |-> situation.status,
                                  description |-> situation.description,
                                  trunk       |-> situation.trunk]
    [] section = "macTable"   -> situation.macs
    [] section = "neighbors"  -> situation.cdp
    [] section = "lldp"       -> situation.lldp

\* The sections that a poll has read and got an answer to.
Answered(j) ==
  (IF j.kind = "slow" THEN Tabled \ {"interfaces"} ELSE Tabled)
  \ (ToSet(j.before) \cup j.failed \cup j.rejected)

Lasting ==
  /\ fast # None => \A p \in Ports \ moved.fast : fast[p] = Cell(switch[p], "interfaces")
  /\ job.kind = "slow" => job.failed = {}
  /\ job.pc \in {"read", "apply"} =>
       \A s \in Answered(job) : \A p \in Ports \ moved.poll :
         job.seen[s][p] = Cell(switch[p], s)

-----------------------------------------------------------------------------
(* The assumptions apart, for the provers; the tables of the switch. *)

LEMMA NoneIsNobody == None \notin Ports /\ None \notin Macs /\ ThisPc \in Macs \cup {None}
BY TopologyAssumption

LEMMA PortsAreFinite == IsFiniteSet(Ports)
BY DiscoveryAssumption

LEMMA SituationsFit ==
  /\ AtFirst \subseteq Situations
  /\ Situations \subseteq
       [status : Statuses, description : Descriptions, trunk : BOOLEAN, macs : SUBSET Macs,
        cdp : Names \cup {None}, lldp : Names \cup {None}, arp : BOOLEAN]
BY DiscoveryAssumption

LEMMA Sections ==
  /\ ToSet(Deep) = {"identity", "interfaces", "macTable", "neighbors", "lldp", "arp"}
  /\ ToSet(Slow) = {"macTable", "arp", "neighbors", "lldp"}
BY DEF ToSet, Deep, Slow

LEMMA DeepFits == Deep \in Seq(ToSet(Deep)) /\ Slow \in Seq(ToSet(Deep))
                  /\ Deep # <<>> /\ Slow # <<>>
BY Sections DEF Deep, Slow

LEMMA NothingFits == Nothing \in Readings
<1>1. Nothing["interfaces"] \in Interfaces
  BY Sections DEF Nothing, Blank, Interfaces, Statuses, Descriptions
<1>2. /\ Nothing["macTable"] \in Learned /\ Nothing["neighbors"] \in Heard
      /\ Nothing["lldp"] \in Heard /\ Nothing["arp"] \in SUBSET Macs
      /\ Nothing["identity"] \in Roots
  BY Sections DEF Nothing, Blank, Learned, Heard, Roots
<1>3. Nothing = [s \in {"identity", "interfaces", "macTable", "neighbors", "lldp", "arp"} |->
                   Nothing[s]]
  BY Sections DEF Nothing
<1> QED
  BY <1>1, <1>2, <1>3 DEF Readings

LEMMA ColumnFits ==
  ASSUME switch \in [Ports -> Situations]
  PROVE  /\ Column("interfaces") \in Interfaces
         /\ Column("macTable") \in Learned
         /\ Column("neighbors") \in Heard /\ Column("lldp") \in Heard
         /\ Column("arp") \in SUBSET Macs
         /\ Column("identity") \in Roots
<1>1. \A p \in Ports : switch[p] \in
        [status : Statuses, description : Descriptions, trunk : BOOLEAN, macs : SUBSET Macs,
         cdp : Names \cup {None}, lldp : Names \cup {None}, arp : BOOLEAN]
  BY SituationsFit
<1>2. Column("interfaces") \in Interfaces
  BY <1>1 DEF Column, Interfaces
<1>3. Column("macTable") \in Learned
  BY <1>1 DEF Column, Learned
<1>4. Column("neighbors") \in Heard /\ Column("lldp") \in Heard
  BY <1>1 DEF Column, Heard
<1>5. Column("arp") \in SUBSET Macs
  BY <1>1 DEF Column
<1>6. Column("identity") \in Roots
  BY DEF Column, Roots
<1> QED
  BY <1>2, <1>3, <1>4, <1>5, <1>6

\* A reading of which one section is replaced.
LEMMA ReadingFits ==
  ASSUME NEW t \in Readings, NEW v, NEW s \in ToSet(Deep),
         s = "interfaces" => v \in Interfaces, s = "macTable" => v \in Learned,
         s \in {"neighbors", "lldp"} => v \in Heard, s = "arp" => v \in SUBSET Macs,
         s = "identity" => v \in Roots
  PROVE  [t EXCEPT ![s] = v] \in Readings
BY Sections DEF Readings

-----------------------------------------------------------------------------
(* What is built of a reading *)

LEMMA EntityFits ==
  ASSUME NEW t \in Readings, NEW p \in Ports
  PROVE  EntityOf(t, p) \in Entities /\ SourceOf(t, p) \in Sources
<1>1. Announced(t, p) \in Names \cup {None}
  BY DEF Announced, Readings, Heard
<1>2. Single(t, p) => Only(t.macTable[p]) \in Macs
  <2> SUFFICES ASSUME Single(t, p) PROVE Only(t.macTable[p]) \in Macs
    OBVIOUS
  <2>1. t.macTable[p] \subseteq Macs
    BY DEF Readings, Learned
  <2>2. t.macTable[p] # {}
    BY FS_EmptySet DEF Single
  <2> QED
    BY <2>1, <2>2 DEF Only
<1>3. EntityOf(t, p) \in Entities
  <2>1. CASE Announced(t, p) # None
    <3>1. EntityOf(t, p) = <<"neighbor", Announced(t, p)>>
      BY <2>1 DEF EntityOf
    <3> QED
      BY <1>1, <2>1, <3>1 DEF Entities
  <2>2. CASE Announced(t, p) = None /\ LocalPort(t) = p
    <3>1. EntityOf(t, p) = <<"local-host">>
      BY <2>2 DEF EntityOf
    <3> QED
      BY <3>1 DEF Entities
  <2>3. CASE Announced(t, p) = None /\ LocalPort(t) # p /\ Single(t, p)
    <3>1. EntityOf(t, p) = <<"mac", Only(t.macTable[p])>>
      BY <2>3 DEF EntityOf
    <3> QED
      BY <1>2, <2>3, <3>1 DEF Entities
  <2>4. CASE Announced(t, p) = None /\ LocalPort(t) # p /\ ~Single(t, p)
    <3>1. EntityOf(t, p) = <<"port-presence", p>>
      BY <2>4 DEF EntityOf
    <3> QED
      BY <3>1 DEF Entities
  <2> QED
    BY <2>1, <2>2, <2>3, <2>4
<1>4. SourceOf(t, p) \in Sources
  BY DEF SourceOf, Sources
<1> QED
  BY <1>3, <1>4

\* Endpoints as they are observed: finitely many.
Sighted(current) ==
  /\ IsFiniteSet(current)
  /\ \A e \in current : e.entity \in Entities /\ e.port \in Ports /\ e.source \in Sources

LEMMA ImageIsFinite ==
  ASSUME NEW f, IsFiniteSet(DOMAIN f)
  PROVE  IsFiniteSet({f[x] : x \in DOMAIN f})
<1> DEFINE S == DOMAIN f
           T == {f[x] : x \in DOMAIN f}
           h == [x \in S |-> f[x]]
<1>1. h \in Surjection(S, T)
  BY DEF Surjection
<1> QED
  BY <1>1, FS_Surjection

LEMMA NobodyIsSighted == Sighted({})
BY FS_EmptySet DEF Sighted

LEMMA BuildFits ==
  ASSUME NEW t \in Readings
  PROVE  Sighted(BuildTopology(t))
<1> DEFINE S == {q \in Ports : Up(t, q)}
           f == [p \in S |-> Endpoint(t, p)]
<1>1. IsFiniteSet(S)
  <2>1. S \subseteq Ports
    OBVIOUS
  <2> QED
    BY <2>1, PortsAreFinite, FS_Subset
<1>2. BuildTopology(t) = {f[p] : p \in DOMAIN f} /\ DOMAIN f = S
  BY DEF BuildTopology
<1>3. IsFiniteSet(BuildTopology(t))
  <2> HIDE DEF f
  <2> QED
    BY <1>1, <1>2, ImageIsFinite
<1>4. ASSUME NEW p \in Ports
      PROVE  /\ Endpoint(t, p).entity \in Entities /\ Endpoint(t, p).port \in Ports
             /\ Endpoint(t, p).source \in Sources
  BY EntityFits DEF Endpoint
<1> QED
  BY <1>3, <1>4 DEF Sighted, BuildTopology

-----------------------------------------------------------------------------
(* Induction, with sets for the operators that the provers cannot take *)

LEMMA Least ==
  ASSUME NEW T \in SUBSET Nat, T # {}
  PROVE  \E n \in T : \A m \in T : ~(m < n)
<1>1. PICK n \in T : \A m \in T : <<m, n>> \notin OpToRel(<, Nat)
  BY NatLessThanWellFounded, WFMin
<1> QED
  BY <1>1 DEF OpToRel

LEMMA Induction ==
  ASSUME NEW S, 0 \in S, \A n \in Nat : n \in S => n + 1 \in S
  PROVE  Nat \subseteq S
<1> SUFFICES ASSUME Nat \ S # {} PROVE FALSE
  OBVIOUS
<1>1. PICK n \in Nat \ S : \A m \in Nat \ S : ~(m < n)
  BY Least
<1>2. n # 0 /\ n - 1 \in Nat /\ n - 1 < n /\ (n - 1) + 1 = n
  BY <1>1
<1>3. n - 1 \in S
  BY <1>1, <1>2
<1> QED
  BY <1>1, <1>2, <1>3

LEMMA Latest ==
  ASSUME NEW n \in Nat, NEW T \in SUBSET (1..n), T # {}
  PROVE  \E m \in T : \A k \in T : k <= m
<1> DEFINE D == {d \in Nat : n - d \in T}
<1>1. ASSUME NEW k \in T PROVE n - k \in D /\ k \in 1..n
  <2>1. k \in 1..n
    OBVIOUS
  <2>2. n - k \in Nat /\ n - (n - k) = k
    BY <2>1
  <2> QED
    BY <2>1, <2>2
<1>2. D # {}
  BY <1>1
<1>3. PICK d \in D : \A e \in D : ~(e < d)
  BY <1>2, Least
<1>4. ASSUME NEW k \in T PROVE k <= n - d
  <2>1. n - k \in D /\ k \in 1..n /\ ~(n - k < d)
    BY <1>1, <1>3
  <2> QED
    BY <2>1
<1> QED
  BY <1>4

-----------------------------------------------------------------------------
(* The table of the history *)

\* The recursion of Unseen, and the tables it goes through.
Leaving(left, table, seen) ==
  left = [n \in 0..Len(table) |->
            IF n = 0 THEN <<>>
            ELSE IF table[n].entity \in seen THEN left[n - 1]
                 ELSE Append(left[n - 1], table[n])]

LEMMA LeavingExists ==
  ASSUME NEW table \in Seq(Rows), NEW seen
  PROVE  \E left : Leaving(left, table, seen)
<1> DEFINE Add(l, n) == IF table[n].entity \in seen THEN l ELSE Append(l, table[n])
           Half(g, m) == g = [n \in 0..m |-> IF n = 0 THEN <<>> ELSE Add(g[n - 1], n)]
           S == {m \in Nat : \E g : Half(g, m)}
<1>0. Len(table) \in Nat
  OBVIOUS
<1> HIDE DEF Add
<1>1. 0 \in S
  <2> DEFINE g == [n \in 0..0 |-> <<>>]
  <2>1. Half(g, 0)
    OBVIOUS
  <2> QED
    BY <2>1
<1>2. ASSUME NEW m \in Nat, m \in S PROVE m + 1 \in S
  <2>1. PICK g : Half(g, m)
    BY <1>2
  <2> DEFINE h == [n \in 0..m + 1 |-> IF n = m + 1 THEN Add(g[m], m + 1) ELSE g[n]]
  <2>2. ASSUME NEW n \in 0..m + 1 PROVE h[n] = IF n = 0 THEN <<>> ELSE Add(h[n - 1], n)
    <3>1. CASE n = m + 1
      <4>1. h[n] = Add(g[m], m + 1) /\ n # 0 /\ n - 1 = m /\ h[m] = g[m]
        BY <3>1
      <4> QED
        BY <3>1, <4>1
    <3>2. CASE n # m + 1
      <4>1. n \in 0..m /\ h[n] = g[n] /\ (n # 0 => n - 1 \in 0..m /\ h[n - 1] = g[n - 1])
        BY <3>2
      <4>2. g[n] = IF n = 0 THEN <<>> ELSE Add(g[n - 1], n)
        BY <2>1, <4>1
      <4> QED
        BY <4>1, <4>2
    <3> QED
      BY <3>1, <3>2
  <2>3. h = [n \in 0..m + 1 |-> h[n]]
    OBVIOUS
  <2> HIDE DEF h
  <2>4. Half(h, m + 1)
    BY <2>2, <2>3
  <2> QED
    BY <2>4
<1>3. Len(table) \in S
  <2> HIDE DEF S
  <2> QED
    BY <1>0, <1>1, <1>2, Induction
<1> QED
  BY <1>3 DEF Leaving, Add

\* What Unseen leaves: the rows of other entities, each once.
LEMMA UnseenFits ==
  ASSUME NEW table \in Tables, NEW seen
  PROVE  /\ Unseen(table, seen) \in Tables
         /\ ToSet(Unseen(table, seen)) = {row \in ToSet(table) : row.entity \notin seen}
<1> DEFINE N == Len(table)
           left == CHOOSE g : Leaving(g, table, seen)
<1>1. N \in Nat /\ DOMAIN table = 1..N /\ table \in Seq(Rows) /\ OneEach(table)
      /\ \A n \in 1..N : table[n] \in Rows
  BY DEF Tables
<1>2. Leaving(left, table, seen)
  <2>1. \E g : Leaving(g, table, seen)
    BY <1>1, LeavingExists
  <2> HIDE DEF Leaving
  <2> QED
    BY <2>1, Zenon
<1>3. Unseen(table, seen) = left[N]
  BY DEF Unseen, Leaving
<1> HIDE DEF left, N
<1>4. left[0] = <<>>
      /\ \A n \in 1..N : left[n] = IF table[n].entity \in seen THEN left[n - 1]
                                   ELSE Append(left[n - 1], table[n])
  <2>1. 0 \in 0..N
    BY <1>1
  <2>2. left[0] = <<>>
    BY <1>2, <2>1 DEF Leaving, N
  <2>3. ASSUME NEW n \in 1..N
        PROVE  left[n] = IF table[n].entity \in seen THEN left[n - 1]
                         ELSE Append(left[n - 1], table[n])
    <3>1. n \in 0..N /\ n # 0
      BY <1>1
    <3> QED
      BY <1>2, <3>1 DEF Leaving, N
  <2> QED
    BY <2>2, <2>3
<1> DEFINE Fits(l, n) == /\ l \in Tables
                         /\ ToSet(l) = {table[k] : k \in {j \in 1..n : table[j].entity \notin seen}}
           S == {n \in Nat : n <= N => Fits(left[n], n)}
<1>5. 0 \in S
  <2>1. <<>> \in Tables /\ ToSet(<<>>) = {}
    BY DEF Tables, OneEach, ToSet
  <2>2. {table[k] : k \in {j \in 1..0 : table[j].entity \notin seen}} = {}
    OBVIOUS
  <2> QED
    BY <1>4, <2>1, <2>2
<1>6. ASSUME NEW n \in Nat, n \in S PROVE n + 1 \in S
  <2> SUFFICES ASSUME n + 1 <= N PROVE Fits(left[n + 1], n + 1)
    OBVIOUS
  <2> DEFINE l == left[n]
             row == table[n + 1]
  <2>1. n + 1 \in 1..N /\ (n + 1) - 1 = n /\ n <= N
    BY <1>1
  <2>2. Fits(l, n)
    BY <1>6, <2>1
  <2>3. left[n + 1] = IF row.entity \in seen THEN l ELSE Append(l, row)
    BY <1>4, <2>1
  <2>4. row \in Rows
    BY <1>1, <2>1
  <2>5. \A j \in 1..n + 1 : j \in 1..n \/ j = n + 1
    OBVIOUS
  <2>6. \A j \in 1..n : j \in 1..n + 1 /\ j \in 1..N /\ j # n + 1
    BY <1>1, <2>1
  <2> HIDE DEF l
  <2>7. CASE row.entity \in seen
    <3>1. {table[k] : k \in {j \in 1..n + 1 : table[j].entity \notin seen}}
            = {table[k] : k \in {j \in 1..n : table[j].entity \notin seen}}
      BY <2>5, <2>6, <2>7
    <3> QED
      BY <2>2, <2>3, <2>7, <3>1
  <2>8. CASE row.entity \notin seen
    <3>1. {table[k] : k \in {j \in 1..n + 1 : table[j].entity \notin seen}}
            = {table[k] : k \in {j \in 1..n : table[j].entity \notin seen}} \cup {row}
      BY <2>1, <2>5, <2>6, <2>8
    <3>2. l \in Seq(Rows) /\ OneEach(l) /\ Len(l) \in Nat /\ DOMAIN l = 1..Len(l)
      BY <2>2 DEF Tables
    <3>3. /\ Append(l, row) \in Seq(Rows) /\ DOMAIN Append(l, row) = 1..Len(l) + 1
          /\ Append(l, row)[Len(l) + 1] = row
          /\ \A k \in 1..Len(l) : Append(l, row)[k] = l[k]
      BY <2>4, <3>2, AppendProperties
    <3>4. \A k \in 1..Len(l) : l[k].entity # row.entity
      <4> TAKE k \in 1..Len(l)
      <4>1. l[k] \in ToSet(l)
        BY <3>2 DEF ToSet
      <4>2. PICK j \in 1..n : l[k] = table[j]
        BY <2>2, <4>1
      <4> QED
        BY <1>1, <2>1, <2>6, <4>2 DEF OneEach
    <3>5. \A k \in 1..Len(l) + 1 : k \in 1..Len(l) \/ k = Len(l) + 1
      BY <3>2
    <3> DEFINE a == Append(l, row)
    <3> HIDE DEF a
    <3>6. OneEach(a)
      <4>1. ASSUME NEW i \in 1..Len(l) + 1, NEW j \in 1..Len(l) + 1, a[i].entity = a[j].entity
            PROVE  i = j
        <5>1. CASE i \in 1..Len(l) /\ j \in 1..Len(l)
          BY <3>2, <3>3, <4>1, <5>1 DEF OneEach, a
        <5>2. CASE i = Len(l) + 1 \/ j = Len(l) + 1
          BY <3>3, <3>4, <3>5, <4>1, <5>2 DEF a
        <5> QED
          BY <3>5, <5>1, <5>2
      <4> QED
        BY <3>3, <4>1 DEF OneEach, a
    <3>7. ToSet(a) = ToSet(l) \cup {row}
      <4>1. 1..Len(l) + 1 = 1..Len(l) \cup {Len(l) + 1}
        BY <3>2
      <4> QED
        BY <3>2, <3>3, <4>1 DEF ToSet, a
    <3> QED
      BY <2>2, <2>3, <2>8, <3>1, <3>3, <3>6, <3>7 DEF Tables, a
  <2> QED
    BY <2>7, <2>8
<1> HIDE DEF S
<1>7. N \in S
  BY <1>1, <1>5, <1>6, Induction
<1>8. Fits(left[N], N)
  <2> HIDE DEF Fits
  <2> QED
    BY <1>1, <1>7 DEF S
<1>9. {table[k] : k \in {j \in 1..N : table[j].entity \notin seen}}
        = {row \in ToSet(table) : row.entity \notin seen}
  BY <1>1 DEF ToSet
<1> QED
  BY <1>3, <1>8, <1>9

\* A finite set as a sequence: its members, each once.
LEMMA SetToSeqFits ==
  ASSUME NEW S, IsFiniteSet(S)
  PROVE  /\ SetToSeq(S) \in Seq(S) /\ IsInjective(SetToSeq(S))
         /\ ToSet(SetToSeq(S)) = S
<1> DEFINE n == Cardinality(S)
           s == SetToSeq(S)
<1>1. n \in Nat
  BY FS_CardinalityType
<1>2. \E f \in [1..n -> S] : IsInjective(f)
  <2>1. ExistsBijection(1..n, S)
    BY FS_CardinalityType
  <2>2. PICK f \in Bijection(1..n, S) : TRUE
    BY <2>1 DEF ExistsBijection
  <2> QED
    BY <2>2 DEF Bijection, Injection, IsInjective
<1>3. s \in [1..n -> S] /\ IsInjective(s)
  <2>1. s = CHOOSE f \in [1..n -> S] : IsInjective(f)
    BY DEF SetToSeq
  <2> HIDE DEF s, n, IsInjective
  <2> QED
    BY <1>2, <2>1, Zenon
<1>4. s \in Surjection(1..n, S)
  <2>1. s \in Injection(1..n, S)
    BY <1>3 DEF Injection, IsInjective
  <2>2. Cardinality(1..n) = n
    <3>1. 1 \in Int /\ n \in Int
      BY <1>1
    <3>2. Cardinality(1..n) = IF 1 > n THEN 0 ELSE n - 1 + 1
      BY <3>1, FS_Interval
    <3> QED
      BY <1>1, <3>2
  <2> HIDE DEF s
  <2> QED
    BY <2>1, <2>2, FS_Injection
<1> HIDE DEF n, s
<1>5. s \in Seq(S)
  BY <1>1, <1>3
<1>6. ToSet(s) = S
  BY <1>3, <1>4 DEF ToSet, Surjection
<1> QED
  BY <1>3, <1>5, <1>6 DEF s

LEMMA JoinFits ==
  ASSUME NEW a \in Tables, NEW b \in Tables,
         \A x \in ToSet(a), y \in ToSet(b) : x.entity # y.entity
  PROVE  a \o b \in Tables /\ ToSet(a \o b) = ToSet(a) \cup ToSet(b)
<1> DEFINE n == Len(a)
           m == Len(b)
           c == a \o b
<1>1. /\ a \in Seq(Rows) /\ n \in Nat /\ DOMAIN a = 1..n /\ OneEach(a)
      /\ b \in Seq(Rows) /\ m \in Nat /\ DOMAIN b = 1..m /\ OneEach(b)
  BY DEF Tables
<1>2. /\ c \in Seq(Rows) /\ Len(c) = n + m
      /\ \A k \in 1..n + m : c[k] = IF k <= n THEN a[k] ELSE b[k - n]
  BY <1>1, ConcatProperties
<1> HIDE DEF n, m, c
<1>3. DOMAIN c = 1..n + m
  BY <1>2
<1>4. ASSUME NEW k \in 1..n + m
      PROVE  \/ k \in 1..n /\ c[k] = a[k]
             \/ k - n \in 1..m /\ c[k] = b[k - n]
  <2>1. CASE k <= n
    <3>1. k \in 1..n
      BY <1>1, <2>1
    <3> QED
      BY <1>2, <2>1, <3>1
  <2>2. CASE ~(k <= n)
    <3>1. k - n \in 1..m
      BY <1>1, <2>2
    <3> QED
      BY <1>2, <2>2, <3>1
  <2> QED
    BY <2>1, <2>2
<1>5. OneEach(c)
  <2>1. ASSUME NEW i \in 1..n + m, NEW j \in 1..n + m, c[i].entity = c[j].entity
        PROVE  i = j
    <3>1. \A k \in 1..n : a[k] \in ToSet(a)
      BY <1>1 DEF ToSet
    <3>2. \A k \in 1..m : b[k] \in ToSet(b)
      BY <1>1 DEF ToSet
    <3>3. CASE i \in 1..n /\ c[i] = a[i] /\ j \in 1..n /\ c[j] = a[j]
      BY <1>1, <2>1, <3>3 DEF OneEach
    <3>4. CASE i - n \in 1..m /\ c[i] = b[i - n] /\ j - n \in 1..m /\ c[j] = b[j - n]
      <4>1. i - n = j - n
        BY <1>1, <2>1, <3>4 DEF OneEach
      <4> QED
        BY <1>1, <4>1
    <3>5. CASE i \in 1..n /\ c[i] = a[i] /\ j - n \in 1..m /\ c[j] = b[j - n]
      BY <2>1, <3>1, <3>2, <3>5
    <3>6. CASE i - n \in 1..m /\ c[i] = b[i - n] /\ j \in 1..n /\ c[j] = a[j]
      BY <2>1, <3>1, <3>2, <3>6
    <3> QED
      BY <1>4, <3>3, <3>4, <3>5, <3>6
  <2> QED
    BY <1>3, <2>1 DEF OneEach
<1>6. ToSet(c) \subseteq ToSet(a) \cup ToSet(b)
  BY <1>1, <1>3, <1>4 DEF ToSet
<1>7. ToSet(a) \subseteq ToSet(c)
  <2> SUFFICES ASSUME NEW k \in 1..n PROVE a[k] \in ToSet(c)
    BY <1>1 DEF ToSet
  <2>1. k \in 1..n + m /\ k <= n
    BY <1>1
  <2> QED
    BY <1>2, <1>3, <2>1 DEF ToSet
<1>8. ToSet(b) \subseteq ToSet(c)
  <2> SUFFICES ASSUME NEW k \in 1..m PROVE b[k] \in ToSet(c)
    BY <1>1 DEF ToSet
  <2>1. n + k \in 1..n + m /\ ~(n + k <= n) /\ (n + k) - n = k
    BY <1>1
  <2>2. c[n + k] = b[k]
    BY <1>2, <2>1
  <2> QED
    BY <1>3, <2>1, <2>2 DEF ToSet
<1> QED
  BY <1>2, <1>5, <1>6, <1>7, <1>8 DEF Tables, c

LEMMA RevokedFits ==
  ASSUME NEW table \in Tables
  PROVE  /\ Revoked(table) \in Tables
         /\ \A row \in ToSet(Revoked(table)) : ~row.active
<1> DEFINE n == Len(table)
           v == Revoked(table)
<1>1. table \in Seq(Rows) /\ n \in Nat /\ DOMAIN table = 1..n /\ OneEach(table)
      /\ \A i \in 1..n : table[i] \in Rows
  BY DEF Tables
<1>2. v = [i \in 1..n |-> [table[i] EXCEPT !.active = FALSE]]
  BY <1>1 DEF Revoked
<1> HIDE DEF v, n
<1>3. \A i \in 1..n : v[i] \in Rows /\ v[i].entity = table[i].entity /\ v[i].active = FALSE
  BY <1>1, <1>2 DEF Rows
<1>4. v \in Seq(Rows) /\ DOMAIN v = 1..n
  BY <1>1, <1>2, <1>3
<1>5. OneEach(v)
  BY <1>1, <1>3, <1>4 DEF OneEach
<1> QED
  BY <1>3, <1>4, <1>5 DEF Tables, ToSet, v

LEMMA OccupantFits ==
  ASSUME NEW known \in Tables, NEW e
  PROVE  OccupantOf(known, e) \in Entities \cup {None}
<1> DEFINE there == {i \in DOMAIN known : known[i].port = e.port /\ known[i].entity # e.entity}
           IsLast(i) == \A j \in there : j <= i
           last == CHOOSE i \in there : IsLast(i)
<1>1. Len(known) \in Nat /\ DOMAIN known = 1..Len(known)
      /\ \A i \in DOMAIN known : known[i] \in Rows
  BY DEF Tables
<1>2. OccupantOf(known, e)
        = IF there # {} /\ known[last].source # "none" THEN known[last].entity ELSE None
  BY DEF OccupantOf
<1>3. there \subseteq DOMAIN known
  OBVIOUS
<1> HIDE DEF there
<1>4. there # {} => last \in there
  <2> SUFFICES ASSUME there # {} PROVE last \in there
    OBVIOUS
  <2>1. \E i \in there : IsLast(i)
    BY <1>1, <1>3, Latest
  <2> HIDE DEF IsLast
  <2> QED
    BY <2>1, Zenon
<1> HIDE DEF last
<1> QED
  BY <1>1, <1>2, <1>3, <1>4 DEF Rows

LEMMA RowFits ==
  ASSUME NEW old, NEW known \in Tables, NEW e,
         e.entity \in Entities, e.port \in Ports, e.source \in Sources
  PROVE  /\ RowOf(old, known, e) \in Rows
         /\ RowOf(old, known, e).entity = e.entity /\ RowOf(old, known, e).active = TRUE
BY OccupantFits DEF RowOf, Rows

\* After an observation every entity seen has one active row; the others are as
\* they were, or all revoked.
LEMMA ObservedFits ==
  ASSUME NEW old \in Tables, NEW current, Sighted(current), NEW complete \in BOOLEAN
  PROVE  LET known == Observed(old, current, complete)
             seen  == {e.entity : e \in current}
         IN /\ known \in Tables
            /\ ActiveIn(known) = seen \cup (IF complete THEN {} ELSE ActiveIn(old))
            /\ \A row \in ToSet(known) : row.entity \in seen => row.active
            /\ complete => \A row \in ToSet(known) : row.active => row.entity \in seen
<1> DEFINE known == Observed(old, current, complete)
           seen  == {e.entity : e \in current}
           base  == IF complete THEN Revoked(old) ELSE old
           Who(x) == CHOOSE e \in current : e.entity = x
           row(x) == RowOf(old, base, Who(x))
           R == {row(x) : x \in seen}
           a == Unseen(base, seen)
           b == SetToSeq(R)
<1>1. base \in Tables /\ (complete => \A r \in ToSet(base) : ~r.active)
      /\ (~complete => base = old)
  BY RevokedFits
<1>2. known = a \o b
  BY DEF Observed
<1> HIDE DEF base, known
<1>3. ASSUME NEW x \in seen PROVE row(x) \in Rows /\ row(x).entity = x /\ row(x).active = TRUE
  <2>1. \E e \in current : e.entity = x
    OBVIOUS
  <2>2. Who(x) \in current /\ Who(x).entity = x
    BY <2>1
  <2> DEFINE w == Who(x)
  <2>3. w.entity = x /\ w.entity \in Entities /\ w.port \in Ports /\ w.source \in Sources
    BY <2>2 DEF Sighted
  <2> HIDE DEF w
  <2>4. /\ RowOf(old, base, w) \in Rows
        /\ RowOf(old, base, w).entity = w.entity /\ RowOf(old, base, w).active = TRUE
    BY <1>1, <2>3, RowFits
  <2> QED
    BY <2>3, <2>4 DEF w
<1>4. IsFiniteSet(R)
  <2> DEFINE f == [e \in current |-> e.entity]
  <2>1. DOMAIN f = current /\ {f[e] : e \in DOMAIN f} = seen
    OBVIOUS
  <2>2. IsFiniteSet(seen)
    <3> HIDE DEF f, seen
    <3> QED
      BY <2>1, ImageIsFinite DEF Sighted
  <2> HIDE DEF seen, row
  <2> DEFINE g == [x \in seen |-> row(x)]
  <2>3. DOMAIN g = seen /\ {g[x] : x \in DOMAIN g} = R
    OBVIOUS
  <2> HIDE DEF g, R
  <2> QED
    BY <2>2, <2>3, ImageIsFinite
<1>5. a \in Tables /\ ToSet(a) = {r \in ToSet(base) : r.entity \notin seen}
  <2> HIDE DEF seen
  <2> QED
    BY <1>1, UnseenFits
<1> HIDE DEF a, row
<1>6. b \in Tables /\ ToSet(b) = R
  <2> HIDE DEF seen
  <2>1. \A r \in R : r \in Rows /\ row(r.entity) = r
    BY <1>3
  <2> HIDE DEF R
  <2>2. b \in Seq(R) /\ IsInjective(b) /\ ToSet(b) = R
    BY <1>4, SetToSeqFits
  <2> HIDE DEF b
  <2>3. b \in Seq(Rows) /\ \A i \in DOMAIN b : b[i] \in R
    BY <2>1, <2>2
  <2>4. OneEach(b)
    BY <2>1, <2>2, <2>3 DEF OneEach, IsInjective
  <2> QED
    BY <2>2, <2>3, <2>4 DEF Tables
<1>7. known \in Tables /\ ToSet(known) = ToSet(a) \cup R
  <2>1. \A x \in ToSet(a), y \in ToSet(b) : x.entity # y.entity
    BY <1>3, <1>5, <1>6
  <2> HIDE DEF b, R
  <2> QED
    BY <1>2, <1>5, <1>6, <2>1, JoinFits
<1> HIDE DEF seen, b
<1>8. \A r \in ToSet(known) : r.entity \in seen => r.active
  BY <1>3, <1>5, <1>7
<1>9. complete => \A r \in ToSet(known) : r.active => r.entity \in seen
  BY <1>1, <1>3, <1>5, <1>7
<1>10. seen \subseteq ActiveIn(known)
  <2> SUFFICES ASSUME NEW x \in seen PROVE x \in ActiveIn(known)
    OBVIOUS
  <2>1. row(x) \in ToSet(known) /\ row(x).entity = x /\ row(x).active
    BY <1>3, <1>7
  <2> QED
    BY <2>1 DEF ActiveIn
<1>11. ActiveIn(known) = seen \cup (IF complete THEN {} ELSE ActiveIn(old))
  <2>1. CASE complete
    BY <1>9, <1>10, <2>1 DEF ActiveIn
  <2>2. CASE ~complete
    <3>1. ActiveIn(known) \subseteq seen \cup ActiveIn(old)
      <4> SUFFICES ASSUME NEW r \in ToSet(known), r.active, r.entity \notin seen
                   PROVE  r.entity \in ActiveIn(old)
        BY DEF ActiveIn
      <4>1. r \notin R
        BY <1>3
      <4>2. r \in ToSet(old)
        BY <1>1, <1>5, <1>7, <2>2, <4>1
      <4> QED
        BY <4>2 DEF ActiveIn
    <3>2. ASSUME NEW r \in ToSet(old), r.active PROVE r.entity \in ActiveIn(known)
      <4>1. CASE r.entity \in seen
        BY <1>10, <4>1
      <4>2. CASE r.entity \notin seen
        <5>1. r \in ToSet(known)
          BY <1>1, <1>5, <1>7, <2>2, <4>2
        <5> QED
          BY <3>2, <5>1 DEF ActiveIn
      <4> QED
        BY <4>1, <4>2
    <3>3. ActiveIn(old) \subseteq ActiveIn(known)
      BY <3>2 DEF ActiveIn
    <3> QED
      BY <1>10, <2>2, <3>1, <3>3
  <2> QED
    BY <2>1, <2>2
<1> QED
  BY <1>7, <1>8, <1>9, <1>11 DEF known, seen

\* What is shown of an observation are the entities that its table calls active.
LEMMA EnrichedFits ==
  ASSUME NEW r \in Roots, NEW old \in Tables, NEW current, Sighted(current),
         NEW complete \in BOOLEAN
  PROVE  LET known == Observed(old, current, complete)
             built == Enriched(r, known, current, complete)
         IN /\ built \in Topologies /\ built.root = r
            /\ {d.entity : d \in built.devices} = ActiveIn(known)
<1> DEFINE known == Observed(old, current, complete)
           built == Enriched(r, known, current, complete)
           seen  == {e.entity : e \in current}
           now   == {row \in ToSet(known) : row.entity \in seen}
           kept  == {row \in ToSet(known) : row.active /\ row.entity \notin seen}
           left  == IF complete THEN {} ELSE kept
           cards == {Card(row, "up") : row \in now} \cup {Card(row, "unknown") : row \in left}
<1>1. /\ known \in Tables
      /\ \A row \in ToSet(known) : row.entity \in seen => row.active
      /\ complete => \A row \in ToSet(known) : row.active => row.entity \in seen
  BY ObservedFits
<1>2. /\ built.devices = cards /\ built.root = r
      /\ built = [root |-> r, saved |-> TRUE, devices |-> cards,
                  historical |-> {row.entity : row \in {x \in ToSet(known) : ~x.active}}]
  BY DEF Enriched
<1> HIDE DEF known, built, seen
<1>3. \A row \in ToSet(known) : row \in Rows
  BY <1>1 DEF Tables, ToSet
<1>4. now \subseteq ToSet(known) /\ left \subseteq ToSet(known)
      /\ now \cup left = {row \in ToSet(known) : row.active}
  BY <1>1, <1>3 DEF Rows
<1> HIDE DEF now, left
<1>5. \A row : Card(row, "up").entity = row.entity /\ Card(row, "unknown").entity = row.entity
  BY DEF Card
<1>6. {d.entity : d \in cards} = {row.entity : row \in now \cup left}
  <2>1. {d.entity : d \in cards} \subseteq {row.entity : row \in now \cup left}
    BY <1>5
  <2>2. ASSUME NEW row \in now \cup left PROVE row.entity \in {d.entity : d \in cards}
    <3>1. CASE row \in now
      <4>1. Card(row, "up") \in cards
        BY <3>1
      <4> QED
        BY <1>5, <4>1
    <3>2. CASE row \in left
      <4>1. Card(row, "unknown") \in cards
        BY <3>2
      <4> QED
        BY <1>5, <4>1
    <3> QED
      BY <3>1, <3>2
  <2> QED
    BY <2>1, <2>2
<1>7. {d.entity : d \in built.devices} = ActiveIn(known)
  BY <1>2, <1>4, <1>6 DEF ActiveIn
<1> DEFINE Devices == [entity : Entities, port : Ports, source : Sources,
                       was : Entities \cup {None}, link : {"up", "unknown"}]
<1>8. cards \in SUBSET Devices
  <2>1. \A row \in Rows : Card(row, "up") \in Devices /\ Card(row, "unknown") \in Devices
    BY DEF Card, Rows
  <2> HIDE DEF Devices
  <2> QED
    BY <1>3, <1>4, <2>1
<1>9. {row.entity : row \in {x \in ToSet(known) : ~x.active}} \in SUBSET Entities
  BY <1>3 DEF Rows
<1> HIDE DEF cards
<1>10. built \in Topologies
  BY <1>2, <1>8, <1>9 DEF Topologies
<1> QED
  BY <1>2, <1>7, <1>10 DEF built, known

LEMMA BareFits ==
  ASSUME NEW r \in Roots, NEW current, Sighted(current)
  PROVE  Bare(r, current) \in Topologies /\ ~Bare(r, current).saved
<1> DEFINE cards == {[entity |-> e.entity, port |-> e.port, source |-> e.source,
                      was |-> None, link |-> "up"] : e \in current}
<1>1. cards \in SUBSET [entity : Entities, port : Ports, source : Sources,
                        was : Entities \cup {None}, link : {"up", "unknown"}]
  BY DEF Sighted
<1>2. Bare(r, current) = [root |-> r, saved |-> FALSE, devices |-> cards, historical |-> {}]
  BY DEF Bare
<1> HIDE DEF cards
<1> QED
  BY <1>1, <1>2 DEF Topologies

-----------------------------------------------------------------------------
(* The steps of a poll *)

LEMMA IdleFits == Idle \in Jobs /\ Idle.pc = "rest" /\ Idle.kind = "none"
<1>1. <<>> \in Seq(ToSet(Deep))
  OBVIOUS
<1> QED
  BY <1>1, NothingFits DEF Idle, Jobs

LEMMA AfterFits ==
  ASSUME NEW X, NEW before \in Seq(X), before # <<>>
  PROVE  /\ Head(before) \in X /\ Tail(before) \in Seq(X)
         /\ ToSet(before) = {Head(before)} \cup ToSet(Tail(before))
         /\ After(Tail(before)) \in {"read", "apply"}
         /\ After(Tail(before)) = "read" => Tail(before) # <<>>
         /\ After(Tail(before)) = "apply" => Tail(before) = <<>>
<1> DEFINE n == Len(before)
<1>1. /\ n \in Nat /\ n # 0 /\ DOMAIN before = 1..n /\ Head(before) = before[1]
      /\ Tail(before) \in Seq(X) /\ Len(Tail(before)) = n - 1
      /\ \A i \in 1..n - 1 : Tail(before)[i] = before[i + 1]
  OBVIOUS
<1> HIDE DEF n
<1>2. DOMAIN Tail(before) = 1..n - 1
  BY <1>1
<1>3. Head(before) \in X
  BY <1>1
<1>4. ToSet(before) \subseteq {Head(before)} \cup ToSet(Tail(before))
  <2> SUFFICES ASSUME NEW i \in 1..n, i # 1 PROVE before[i] \in ToSet(Tail(before))
    BY <1>1 DEF ToSet
  <2>1. i - 1 \in 1..n - 1 /\ (i - 1) + 1 = i
    BY <1>1
  <2>2. Tail(before)[i - 1] = before[i]
    BY <1>1, <2>1
  <2> QED
    BY <1>2, <2>1, <2>2 DEF ToSet
<1>5. {Head(before)} \cup ToSet(Tail(before)) \subseteq ToSet(before)
  <2>1. Head(before) \in ToSet(before)
    BY <1>1 DEF ToSet
  <2>2. \A i \in 1..n - 1 : Tail(before)[i] \in ToSet(before)
    <3> TAKE i \in 1..n - 1
    <3>1. i + 1 \in 1..n
      BY <1>1
    <3> QED
      BY <1>1, <3>1 DEF ToSet
  <2> QED
    BY <1>2, <2>1, <2>2 DEF ToSet
<1> QED
  BY <1>1, <1>3, <1>4, <1>5 DEF After

LEMMA StoreFits ==
  ASSUME Shape, NEW r \in Roots, NEW current, Sighted(current), NEW complete \in BOOLEAN,
         Store(r, current, complete)
  PROVE  /\ rows' \in [Roots -> [entities : Tables, counted : BOOLEAN]]
         /\ job' \in Jobs /\ job'.pc = "publish" /\ job'.kind = job.kind
         /\ Agrees(job'.built, rows')
         /\ \A q \in Roots \ {r} : rows'[q] = rows[q]
         /\ ActiveIn(rows'[r].entities)
              = {e.entity : e \in current}
                \cup (IF complete THEN {} ELSE ActiveIn(rows[r].entities))
         /\ job'.failed = job.failed
<1> DEFINE old   == rows[r].entities
           known == Observed(old, current, complete)
           built == Enriched(r, known, current, complete)
<1>1. old \in Tables /\ rows[r].counted \in BOOLEAN
  BY DEF Shape
<1>2. /\ known \in Tables
      /\ ActiveIn(known)
           = {e.entity : e \in current} \cup (IF complete THEN {} ELSE ActiveIn(old))
  BY <1>1, ObservedFits
<1>3. /\ built \in Topologies /\ built.root = r
      /\ {d.entity : d \in built.devices} = ActiveIn(known)
  BY <1>1, EnrichedFits
<1>4. /\ rows' = [rows EXCEPT ![r].entities = known,
                              ![r].counted = @ \/ "interfaces" \notin job.failed]
      /\ job' = [job EXCEPT !.pc = "publish", !.built = built]
  BY DEF Store
<1> HIDE DEF old, known, built
<1>5. job' \in Jobs /\ job'.pc = "publish" /\ job'.kind = job.kind /\ job'.failed = job.failed
      /\ job'.built = built
  BY <1>3, <1>4 DEF Shape, Jobs
<1>6. /\ rows'[r].entities = known /\ rows'[r].counted \in BOOLEAN
      /\ \A q \in Roots \ {r} : rows'[q] = rows[q]
      /\ rows' \in [Roots -> [entities : Tables, counted : BOOLEAN]]
  BY <1>1, <1>2, <1>4 DEF Shape
<1>7. Agrees(job'.built, rows')
  BY <1>3, <1>5, <1>6 DEF Agrees
<1> QED
  BY <1>2, <1>5, <1>6, <1>7 DEF old

LEMMA SeenFits ==
  ASSUME Shape, job.pc = "apply", ~Unfounded
  PROVE  Seen \in Readings /\ Root \in Roots /\ Sighted(BuildTopology(Seen))
<1>1. job.seen \in Readings /\ job.kind \in {"deep", "slow"}
  BY DEF Shape, Jobs
<1>2. Seen \in Readings
  <2>1. CASE job.kind = "deep"
    BY <1>1, <2>1 DEF Seen
  <2>2. CASE job.kind = "slow"
    <3>1. fast \in Interfaces
      BY <2>2 DEF Unfounded, Shape
    <3>2. "interfaces" \in ToSet(Deep)
      BY Sections
    <3>3. [job.seen EXCEPT !["interfaces"] = fast] \in Readings
      BY <1>1, <3>1, <3>2, ReadingFits
    <3> QED
      BY <2>2, <3>3 DEF Seen
  <2> QED
    BY <1>1, <2>1, <2>2
<1>3. Root \in Roots
  <2>1. CASE job.kind = "deep"
    BY <1>1, <2>1 DEF Root, Readings
  <2>2. CASE job.kind = "slow"
    BY <2>2 DEF Root, Unfounded, Shape, Topologies
  <2> QED
    BY <1>1, <2>1, <2>2
<1> QED
  BY <1>2, <1>3, BuildFits

\* Of the rows of a switch only those that are stored change.
LEMMA OnlyStored ==
  ASSUME Shape, Next
  PROVE  \/ UNCHANGED rows
         \/ job.pc = "age" /\ Age /\ Store(shown.root, {}, FALSE) /\ shown.root \in Roots
         \/ job.pc = "apply" /\ Apply /\ ~Unfounded
            /\ Store(Root, BuildTopology(Seen), Complete)
<1>1. CASE Apply
  <2>1. CASE Unfounded
    BY <1>1, <2>1 DEF Apply
  <2>2. CASE ~Unfounded
    BY <1>1, <2>2 DEF Apply
  <2> QED
    BY <2>1, <2>2
<1>2. CASE Age
  BY <1>2 DEF Age, Shape, Topologies
<1>3. CASE ~Apply /\ ~Age
  BY <1>3 DEF Next, Step, Rewire, FastTick, StartDeep, StartSlow, Read, Publish, Reject,
              ReadFails, ApplyFails, Restart, notes
<1> QED
  BY <1>1, <1>2, <1>3

LEMMA InitShape == Init => Shape
<1> SUFFICES ASSUME Init PROVE Shape
  OBVIOUS
<1>1. switch \in [Ports -> Situations]
  BY SituationsFit DEF Init
<1>2. rows \in [Roots -> [entities : Tables, counted : BOOLEAN]]
  <2>1. <<>> \in Tables
    BY DEF Tables, OneEach
  <2> QED
    BY <2>1 DEF Init
<1>3. moved \in [fast : SUBSET Ports, poll : SUBSET Ports]
  BY DEF Init
<1> QED
  BY <1>1, <1>2, <1>3, IdleFits DEF Init, Shape

LEMMA ShapeKept == Shape /\ [Next]_vars => Shape'
<1> SUFFICES ASSUME Shape, [Next]_vars PROVE Shape'
  OBVIOUS
<1> USE DEF Shape
<1>1. ASSUME NEW p \in Ports, Rewire(p) PROVE Shape'
  <2>1. switch' \in [Ports -> Situations]
    BY <1>1 DEF Rewire
  <2>2. moved' \in [fast : SUBSET Ports, poll : SUBSET Ports]
    BY <1>1 DEF Rewire
  <2> QED
    BY <1>1, <2>1, <2>2 DEF Rewire
<1>2. CASE FastTick
  BY <1>2, ColumnFits DEF FastTick
<1>3. CASE StartDeep
  <2>1. job' \in Jobs /\ job'.pc = "read" /\ job'.kind = "deep" /\ job'.before = Deep
    BY <1>3, IdleFits, DeepFits DEF StartDeep, Jobs
  <2> QED
    BY <1>3, <2>1, DeepFits DEF StartDeep
<1>4. CASE StartSlow
  <2>1. job' \in Jobs /\ job'.pc = "read" /\ job'.kind = "slow" /\ job'.before = Slow
    BY <1>4, IdleFits, DeepFits DEF StartSlow, Jobs
  <2> QED
    BY <1>4, <2>1, DeepFits DEF StartSlow
<1> DEFINE b == job.before
<1>5. job.pc = "read" =>
        /\ Head(b) \in ToSet(Deep) /\ Tail(b) \in Seq(ToSet(Deep))
        /\ After(Tail(b)) \in {"read", "apply"}
        /\ After(Tail(b)) = "read" => Tail(b) # <<>>
        /\ After(Tail(b)) = "apply" => Tail(b) = <<>>
  <2>1. b \in Seq(ToSet(Deep))
    BY DEF Jobs
  <2> QED
    BY <2>1, AfterFits
<1>6. CASE Read
  <2> DEFINE h == Head(b)
             seen == [job.seen EXCEPT ![h] = Column(h)]
  <2>1. h \in ToSet(Deep) /\ job.seen \in Readings
    BY <1>5, <1>6 DEF Read, Jobs
  <2>2. seen \in Readings
    <3>1. /\ h = "interfaces" => Column(h) \in Interfaces
          /\ h = "macTable" => Column(h) \in Learned
          /\ h \in {"neighbors", "lldp"} => Column(h) \in Heard
          /\ h = "arp" => Column(h) \in SUBSET Macs
          /\ h = "identity" => Column(h) \in Roots
      BY ColumnFits
    <3> HIDE DEF h
    <3> QED
      BY <2>1, <3>1, ReadingFits
  <2>3. job' = [job EXCEPT !.seen = seen, !.before = Tail(b), !.pc = After(Tail(b))]
    BY <1>6 DEF Read, Jobs
  <2> HIDE DEF seen
  <2>4. job' \in Jobs /\ job'.kind = job.kind /\ job'.before = Tail(b) /\ job'.pc = After(Tail(b))
    BY <1>5, <1>6, <2>2, <2>3 DEF Jobs, Read
  <2> QED
    BY <1>5, <1>6, <2>4 DEF Read, notes
<1>7. CASE Reject
  <2>1. job' \in Jobs /\ job'.kind = job.kind /\ job'.before = Tail(b) /\ job'.pc = After(Tail(b))
    BY <1>5, <1>7 DEF Jobs, Reject
  <2> QED
    BY <1>5, <1>7, <2>1 DEF Reject
<1>8. CASE ReadFails
  <2>1. CASE job.kind = "deep"
    <3>1. job' \in Jobs /\ job'.kind = job.kind /\ job'.before = Tail(b)
          /\ job'.pc = After(Tail(b))
      BY <1>5, <1>8, <2>1 DEF Jobs, ReadFails
    <3> QED
      BY <1>5, <1>8, <3>1 DEF ReadFails
  <2>2. CASE job.kind # "deep"
    <3>1. <<>> \in Seq(ToSet(Deep))
      OBVIOUS
    <3>2. job' \in Jobs /\ job'.kind = job.kind /\ job'.pc = "age"
      BY <1>8, <2>2, <3>1 DEF Jobs, ReadFails
    <3> QED
      BY <1>8, <3>2 DEF ReadFails
  <2> QED
    BY <2>1, <2>2
<1>9. CASE Apply
  <2>1. CASE Unfounded
    BY <1>9, <2>1, IdleFits DEF Apply, notes
  <2>2. CASE ~Unfounded
    <3>1. Store(Root, BuildTopology(Seen), Complete) /\ job.pc = "apply"
          /\ UNCHANGED <<switch, fast, shown, notes>>
      BY <1>9, <2>2 DEF Apply
    <3>2. Complete \in BOOLEAN
      BY DEF Complete
    <3>3. /\ rows' \in [Roots -> [entities : Tables, counted : BOOLEAN]]
          /\ job' \in Jobs /\ job'.pc = "publish" /\ job'.kind = job.kind
      BY <2>2, <3>1, <3>2, SeenFits, StoreFits
    <3> QED
      BY <3>1, <3>3 DEF notes
  <2> QED
    BY <2>1, <2>2
<1>10. CASE ApplyFails
  <2>1. CASE job.kind = "deep"
    <3>1. Bare(Root, BuildTopology(Seen)) \in Topologies
      BY <1>10, SeenFits, BareFits DEF ApplyFails
    <3>2. job' \in Jobs /\ job'.pc = "publish" /\ job'.kind = job.kind
      BY <1>10, <2>1, <3>1 DEF ApplyFails, Jobs
    <3> QED
      BY <1>10, <2>1, <3>2 DEF ApplyFails
  <2>2. CASE job.kind # "deep"
    BY <1>10, <2>2, IdleFits DEF ApplyFails
  <2> QED
    BY <2>1, <2>2
<1>11. CASE Age
  <2>1. CASE shown # None /\ rows[shown.root].counted
    <3>1. Store(shown.root, {}, FALSE) /\ job.pc = "age" /\ shown.root \in Roots
          /\ UNCHANGED <<switch, fast, shown, notes>>
      BY <1>11, <2>1 DEF Age, Topologies
    <3>2. /\ rows' \in [Roots -> [entities : Tables, counted : BOOLEAN]]
          /\ job' \in Jobs /\ job'.pc = "publish" /\ job'.kind = job.kind
      BY <3>1, StoreFits, NobodyIsSighted
    <3> QED
      BY <3>1, <3>2 DEF notes
  <2>2. CASE ~(shown # None /\ rows[shown.root].counted)
    BY <1>11, <2>2, IdleFits DEF Age, notes
  <2> QED
    BY <2>1, <2>2
<1>12. CASE Publish
  <2>1. shown' \in Topologies \cup {None}
    BY <1>12 DEF Publish, Jobs
  <2> QED
    BY <1>12, <2>1, IdleFits DEF Publish, notes
<1>13. CASE Restart
  BY <1>13, IdleFits DEF Restart
<1>14. CASE UNCHANGED vars
  BY <1>14 DEF vars, notes
<1> QED
  BY <1>1, <1>2, <1>3, <1>4, <1>6, <1>7, <1>8, <1>9, <1>10, <1>11, <1>12, <1>13, <1>14
     DEF Next, Step

LEMMA ShapeAlways == Spec => []Shape
BY InitShape, ShapeKept, PTL DEF Spec

\* Everything has its shape and no entity has two rows, whatever sections fail
\* and whatever is rewired meanwhile (discovery_store.py, _DDL).
THEOREM DiscoveryTypeCorrect == Spec => []TypeOK
<1>1. Shape => TypeOK
  <2> SUFFICES ASSUME Shape PROVE TypeOK
    OBVIOUS
  <2>1. ASSUME NEW r \in Roots
        PROVE  /\ \A row \in ToSet(rows[r].entities) : row \in Rows
               /\ OneEach(rows[r].entities)
    BY DEF Shape, Tables, ToSet
  <2>2. \A r \in Roots :
          /\ \A row \in ToSet(rows[r].entities) :
               /\ row.entity \in Entities /\ row.port \in Ports
               /\ row.source \in Sources /\ row.active \in BOOLEAN
               /\ row.was \in Entities \cup {None}
          /\ \A i, j \in DOMAIN rows[r].entities :
               rows[r].entities[i].entity = rows[r].entities[j].entity => i = j
    BY <2>1 DEF Rows, OneEach
  <2>3. /\ switch \in [Ports -> Situations]
        /\ fast \in [Ports -> [status : Statuses, description : Descriptions,
                               trunk : BOOLEAN]] \cup {None}
        /\ shown \in Topologies \cup {None}
        /\ job.kind \in {"none", "deep", "slow"}
        /\ job.pc \in {"rest", "read", "apply", "age", "publish"}
    BY DEF Shape, Jobs, Interfaces
  <2> QED
    BY <2>2, <2>3 DEF TypeOK
<1> QED
  BY <1>1, ShapeAlways, PTL

-----------------------------------------------------------------------------
(* What is shown and what is remembered *)

LEMMA AgreeingKept == Shape /\ Agreeing /\ [Next]_vars => Agreeing'
<1> SUFFICES ASSUME Shape, Agreeing, [Next]_vars PROVE Agreeing'
  OBVIOUS
<1>1. ASSUME job.pc # "publish", job'.pc # "publish", UNCHANGED <<rows, shown>>
      PROVE  Agreeing'
  BY <1>1 DEF Agreeing
<1>2. ASSUME NEW p \in Ports, Rewire(p) PROVE Agreeing'
  BY <1>2 DEF Rewire, Agreeing
<1>3. CASE FastTick
  BY <1>3 DEF FastTick, Agreeing
<1>4. CASE StartDeep \/ StartSlow
  <2>1. job.pc # "publish" /\ job'.pc = "read" /\ UNCHANGED <<rows, shown>>
    BY <1>4, IdleFits DEF StartDeep, StartSlow, Jobs
  <2> QED
    BY <1>1, <2>1
<1>5. CASE Read \/ Reject \/ ReadFails
  <2>1. job.pc = "read" /\ UNCHANGED <<rows, shown>>
    BY <1>5 DEF Read, Reject, ReadFails
  <2>2. job'.pc \in {After(Tail(job.before)), "age"}
    BY <1>5 DEF Read, Reject, ReadFails, Shape, Jobs
  <2> QED
    BY <1>1, <2>1, <2>2 DEF After
<1>6. CASE Apply
  <2>1. CASE Unfounded
    <3>1. job.pc = "apply" /\ job' = Idle /\ UNCHANGED <<rows, shown>>
      BY <1>6, <2>1 DEF Apply
    <3> QED
      BY <1>1, <3>1, IdleFits
  <2>2. CASE ~Unfounded
    <3>1. Store(Root, BuildTopology(Seen), Complete) /\ job.pc = "apply"
      BY <1>6, <2>2 DEF Apply
    <3>2. Complete \in BOOLEAN
      BY DEF Complete
    <3>3. job'.pc = "publish" /\ Agrees(job'.built, rows')
      BY <2>2, <3>1, <3>2, SeenFits, StoreFits
    <3> QED
      BY <3>3 DEF Agreeing
  <2> QED
    BY <2>1, <2>2
<1>7. CASE ApplyFails
  <2>1. CASE job.kind = "deep"
    <3>1. ~Bare(Root, BuildTopology(Seen)).saved
      BY <1>7, SeenFits, BareFits DEF ApplyFails
    <3>2. job'.pc = "publish" /\ job'.built = Bare(Root, BuildTopology(Seen))
      BY <1>7, <2>1 DEF ApplyFails, Shape, Jobs
    <3> QED
      BY <3>1, <3>2 DEF Agreeing, Agrees
  <2>2. CASE job.kind # "deep"
    <3>1. job.pc = "apply" /\ job' = Idle /\ UNCHANGED <<rows, shown>>
      BY <1>7, <2>2 DEF ApplyFails
    <3> QED
      BY <1>1, <3>1, IdleFits
  <2> QED
    BY <2>1, <2>2
<1>8. CASE Age
  <2>1. CASE shown # None /\ rows[shown.root].counted
    <3>1. Store(shown.root, {}, FALSE) /\ shown.root \in Roots
      BY <1>8, <2>1 DEF Age, Shape, Topologies
    <3>2. job'.pc = "publish" /\ Agrees(job'.built, rows')
      BY <3>1, StoreFits, NobodyIsSighted
    <3> QED
      BY <3>2 DEF Agreeing
  <2>2. CASE ~(shown # None /\ rows[shown.root].counted)
    <3>1. job.pc = "age" /\ job' = Idle /\ UNCHANGED <<rows, shown>>
      BY <1>8, <2>2 DEF Age
    <3> QED
      BY <1>1, <3>1, IdleFits
  <2> QED
    BY <2>1, <2>2
<1>9. CASE Publish
  BY <1>9, IdleFits DEF Publish, Agreeing
<1>10. CASE Restart
  BY <1>10, IdleFits DEF Restart, Agreeing, Agrees
<1>11. CASE UNCHANGED vars
  BY <1>11 DEF vars, Agreeing
<1> QED
  BY <1>2, <1>3, <1>4, <1>5, <1>6, <1>7, <1>8, <1>9, <1>10, <1>11 DEF Next, Step

\* Between two polls the topology shown has just the entities that the history
\* calls active, whatever polls, writes or the backend stopped halfway
\* (apply_observation and apply_topology).
THEOREM ShownIsRememberedAlways == Spec => []ShownIsRemembered
<1>1. Init => Agreeing
  BY IdleFits DEF Init, Agreeing, Agrees
<1>2. Agreeing => ShownIsRemembered
  BY IdleFits DEF Agreeing, Agrees, ShownIsRemembered, ActiveIn, Active
<1> QED
  BY <1>1, <1>2, ShapeAlways, AgreeingKept, PTL DEF Spec

-----------------------------------------------------------------------------
(* What stays on its port *)

LEMMA CellFits ==
  ASSUME NEW s \in Tabled, NEW p \in Ports
  PROVE  Column(s)[p] = Cell(switch[p], s)
BY DEF Tabled, Column, Cell

LEMMA InitLasting == Init => Lasting
BY IdleFits DEF Init, Lasting

LEMMA LastingKept == Shape /\ Lasting /\ [Next]_vars => Lasting'
<1> SUFFICES ASSUME Shape, Lasting, [Next]_vars PROVE Lasting'
  OBVIOUS
<1>1. ASSUME job'.pc \notin {"read", "apply"}, job'.kind = "slow" => job'.failed = {},
             UNCHANGED <<switch, fast, moved>>
      PROVE  Lasting'
  BY <1>1 DEF Lasting
<1>2. ASSUME NEW p \in Ports, Rewire(p) PROVE Lasting'
  <2>1. /\ UNCHANGED <<fast, job>>
        /\ moved'.fast = moved.fast \cup {p} /\ moved'.poll = moved.poll \cup {p}
        /\ \A q \in Ports \ {p} : switch'[q] = switch[q]
    BY <1>2 DEF Rewire, Shape
  <2> QED
    BY <2>1 DEF Lasting
<1>3. CASE FastTick
  <2>1. job' = Idle /\ fast' = Column("interfaces") /\ UNCHANGED switch
    BY <1>3 DEF FastTick
  <2>2. \A p \in Ports : Column("interfaces")[p] = Cell(switch[p], "interfaces")
    BY CellFits DEF Tabled
  <2> QED
    BY <2>1, <2>2, IdleFits DEF Lasting
<1>4. CASE StartDeep \/ StartSlow
  <2>1. /\ UNCHANGED <<switch, fast>> /\ moved'.fast = moved.fast /\ job'.failed = {}
        /\ \/ job'.kind = "deep" /\ job'.before = Deep
           \/ job'.kind = "slow" /\ job'.before = Slow
    BY <1>4 DEF StartDeep, StartSlow, Shape, Idle
  <2>2. Answered(job') = {}
    BY <2>1, Sections DEF Answered, Tabled
  <2> QED
    BY <2>1, <2>2 DEF Lasting
<1>5. job.pc = "read" =>
        ToSet(job.before) = {Head(job.before)} \cup ToSet(Tail(job.before))
  <2>1. job.before \in Seq(ToSet(Deep))
    BY DEF Shape, Jobs
  <2> QED
    BY <2>1, AfterFits DEF Shape
<1>6. CASE Read
  <2> DEFINE h == Head(job.before)
  <2>1. /\ job.pc = "read" /\ UNCHANGED <<switch, fast, moved>>
        /\ job'.kind = job.kind /\ job'.failed = job.failed /\ job'.rejected = job.rejected
        /\ job'.before = Tail(job.before)
        /\ job'.seen = [job.seen EXCEPT ![h] = Column(h)]
    BY <1>6 DEF Read, notes, Shape, Jobs
  <2>2. Answered(job') \subseteq Answered(job) \cup {h}
    BY <1>5, <2>1 DEF Answered
  <2>3. ASSUME NEW s \in Answered(job'), NEW p \in Ports \ moved'.poll
        PROVE  job'.seen[s][p] = Cell(switch'[p], s)
    <3>1. s \in Tabled
      BY DEF Answered
    <3>2. s \in DOMAIN job.seen
      BY <3>1 DEF Shape, Jobs, Readings, Tabled
    <3>3. CASE s = h
      <4>1. job'.seen[s] = Column(s)
        BY <2>1, <3>2, <3>3
      <4> QED
        BY <2>1, <3>1, <4>1, CellFits
    <3>4. CASE s # h
      <4>1. job'.seen[s] = job.seen[s]
        BY <2>1, <3>2, <3>4
      <4> QED
        BY <2>1, <2>2, <3>4, <4>1 DEF Lasting
    <3> QED
      BY <3>3, <3>4
  <2> QED
    BY <2>1, <2>3 DEF Lasting
<1>7. CASE Reject
  <2>1. /\ job.pc = "read" /\ UNCHANGED <<switch, fast, moved>>
        /\ job'.kind = job.kind /\ job'.seen = job.seen
        /\ job'.rejected = job.rejected \cup {Head(job.before)}
        /\ job'.before = Tail(job.before)
        /\ job.failed \subseteq job'.failed
        /\ job.kind = "slow" => job'.failed = job.failed
    BY <1>7 DEF Reject, Shape, Jobs
  <2>2. Answered(job') \subseteq Answered(job)
    BY <1>5, <2>1 DEF Answered
  <2> QED
    BY <2>1, <2>2 DEF Lasting
<1>8. CASE ReadFails
  <2>1. CASE job.kind = "deep"
    <3>1. /\ job.pc = "read" /\ UNCHANGED <<switch, fast, moved>>
          /\ job'.kind = job.kind /\ job'.seen = job.seen /\ job'.rejected = job.rejected
          /\ job'.before = Tail(job.before)
          /\ job'.failed = job.failed \cup {Head(job.before)}
      BY <1>8, <2>1 DEF ReadFails, Shape, Jobs
    <3>2. Answered(job') \subseteq Answered(job)
      BY <1>5, <3>1 DEF Answered
    <3> QED
      BY <2>1, <3>1, <3>2 DEF Lasting
  <2>2. CASE job.kind # "deep"
    <3>1. /\ job'.pc = "age" /\ job'.failed = job.failed /\ job'.kind = job.kind
          /\ UNCHANGED <<switch, fast, moved>>
      BY <1>8, <2>2 DEF ReadFails, Shape, Jobs
    <3> QED
      BY <1>1, <3>1 DEF Lasting
  <2> QED
    BY <2>1, <2>2
<1>9. CASE Apply \/ ApplyFails \/ Age \/ Publish
  <2>1. /\ UNCHANGED <<switch, fast, moved>>
        /\ \/ job' = Idle
           \/ job'.pc = "publish" /\ job'.kind = job.kind /\ job'.failed = job.failed
    BY <1>9 DEF Apply, ApplyFails, Age, Publish, Store, notes, Shape, Jobs
  <2> QED
    BY <1>1, <2>1, IdleFits DEF Lasting
<1>10. CASE Restart
  BY <1>10, IdleFits DEF Restart, Lasting
<1>11. CASE UNCHANGED vars
  BY <1>11 DEF vars, notes, Lasting
<1> QED
  BY <1>2, <1>3, <1>4, <1>6, <1>7, <1>8, <1>9, <1>10, <1>11 DEF Next, Step

\* Two readings that agree on a port agree on who is there, if they agree on all
\* ports or nothing on this one is this PC.
LEMMA EntityStays ==
  ASSUME NEW t, NEW u, NEW p \in Ports, \A s \in Tabled : t[s][p] = u[s][p],
         \/ \A q \in Ports : \A s \in Tabled : t[s][q] = u[s][q]
         \/ ThisPc \notin u["macTable"][p]
  PROVE  EntityOf(t, p) = EntityOf(u, p) /\ (Up(t, p) <=> Up(u, p))
<1>1. /\ t.interfaces[p] = u.interfaces[p] /\ t.macTable[p] = u.macTable[p]
      /\ t.neighbors[p] = u.neighbors[p] /\ t.lldp[p] = u.lldp[p]
  BY DEF Tabled
<1>2. LocalPort(t) = p <=> LocalPort(u) = p
  <2>1. CASE \A q \in Ports : \A s \in Tabled : t[s][q] = u[s][q]
    <3>1. \A q \in Ports : t.interfaces[q] = u.interfaces[q] /\ t.macTable[q] = u.macTable[q]
      BY <2>1 DEF Tabled
    <3>2. {q \in Ports : ThisPc \in t.macTable[q]} = {q \in Ports : ThisPc \in u.macTable[q]}
      BY <3>1
    <3>3. LocalPort(t) = LocalPort(u)
      BY <3>1, <3>2 DEF LocalPort, Up
    <3> QED
      BY <3>3
  <2>2. CASE ThisPc \notin u["macTable"][p]
    <3>1. ASSUME NEW v, ThisPc \notin v.macTable[p], LocalPort(v) = p PROVE FALSE
      <4> DEFINE seen == {q \in Ports : ThisPc \in v.macTable[q]}
      <4>1. \E q \in Ports : seen = {q}
        BY <3>1, NoneIsNobody DEF LocalPort
      <4>2. LocalPort(v) = CHOOSE q \in Ports : seen = {q}
        BY <3>1, NoneIsNobody DEF LocalPort
      <4>3. p \in seen
        <5> HIDE DEF seen
        <5>1. seen = {CHOOSE q \in Ports : seen = {q}}
          BY <4>1
        <5> QED
          BY <3>1, <4>2, <5>1
      <4> QED
        BY <3>1, <4>3
    <3>2. ThisPc \notin t.macTable[p] /\ ThisPc \notin u.macTable[p]
      BY <1>1, <2>2
    <3> QED
      BY <3>1, <3>2
  <2> QED
    BY <2>1, <2>2
<1>3. Announced(t, p) = Announced(u, p) /\ (Single(t, p) <=> Single(u, p))
  BY <1>1 DEF Announced, Single
<1>4. Up(t, p) <=> Up(u, p)
  BY <1>1 DEF Up
<1>5. EntityOf(t, p) = EntityOf(u, p)
  BY <1>1, <1>2, <1>3 DEF EntityOf
<1> QED
  BY <1>4, <1>5

Touched == IF job.kind = "slow" THEN moved.fast \cup moved.poll ELSE moved.poll

\* A complete poll has read every port that did not change since as it is.
LEMMA CompleteIsCurrent ==
  ASSUME Shape, Lasting, job.pc = "apply", ~Unfounded, Complete, job.rejected = {},
         NEW s \in Tabled, NEW p \in Ports \ Touched
  PROVE  Seen[s][p] = Now[s][p]
<1>1. Now[s][p] = Cell(switch[p], s)
  <2>1. s \in ToSet(Deep)
    BY Sections DEF Tabled
  <2>2. Now[s] = Column(s)
    BY <2>1 DEF Now
  <2> QED
    BY <2>2, CellFits
<1>2. job.kind \in {"deep", "slow"} /\ job.seen \in Readings /\ job.before = <<>>
  BY DEF Shape, Jobs
<1>3. job.failed \cap Tabled = {} /\ ToSet(job.before) = {}
  BY <1>2 DEF Complete, Core, Tabled, ToSet
<1>4. job.kind = "deep" \/ s # "interfaces" => s \in Answered(job)
  BY <1>2, <1>3 DEF Answered
<1>5. CASE job.kind = "deep"
  BY <1>1, <1>4, <1>5 DEF Seen, Touched, Lasting
<1>6. CASE job.kind = "slow" /\ s = "interfaces"
  <2>1. Seen["interfaces"] = fast
    BY <1>2, <1>6 DEF Seen, Readings
  <2>2. fast # None
    BY <1>6 DEF Unfounded
  <2> QED
    BY <1>1, <1>6, <2>1, <2>2 DEF Touched, Lasting
<1>7. CASE job.kind = "slow" /\ s # "interfaces"
  <2>1. Seen[s] = job.seen[s]
    BY <1>2, <1>7 DEF Seen, Readings, Tabled
  <2> QED
    BY <1>1, <1>4, <1>7, <2>1 DEF Touched, Lasting
<1> QED
  BY <1>2, <1>5, <1>6, <1>7

\* What stays on its port while a poll runs - for a slow poll, since the last
\* fast tick - is never made historical, whatever fails and whatever becomes of
\* other ports (apply_observation and the completeness main.py passes to it).
THEOREM NothingIsForgotten == Spec => NeverForgotten
<1> DEFINE Stays ==
       job.rejected = {} =>
         \A r \in Roots : \A row \in Active(r) :
           (row.entity \notin {x.entity : x \in Active(r)'}) =>
             ~ \E p \in Ports : /\ Untouched(p) /\ Up(Now, p)
                                /\ EntityOf(Now, p) = row.entity
<1>1. ASSUME Shape, Lasting, Next PROVE Stays
  <2> SUFFICES ASSUME job.rejected = {}, NEW r \in Roots, NEW row \in Active(r),
                      row.entity \notin ActiveIn(rows'[r].entities),
                      NEW p \in Ports, Untouched(p), Up(Now, p), EntityOf(Now, p) = row.entity
               PROVE  FALSE
    BY DEF Active, ActiveIn
  <2>1. row.entity \in ActiveIn(rows[r].entities)
    BY DEF Active, ActiveIn
  <2>2. CASE job.pc = "age" /\ Store(shown.root, {}, FALSE) /\ shown.root \in Roots
    <3>1. /\ \A q \in Roots \ {shown.root} : rows'[q] = rows[q]
          /\ ActiveIn(rows[shown.root].entities) \subseteq ActiveIn(rows'[shown.root].entities)
      BY <1>1, <2>2, StoreFits, NobodyIsSighted
    <3> QED
      BY <2>1, <3>1
  <2>3. CASE job.pc = "apply" /\ ~Unfounded /\ Store(Root, BuildTopology(Seen), Complete)
    <3> DEFINE current == BuildTopology(Seen)
    <3>1. Complete \in BOOLEAN /\ Root \in Roots /\ Sighted(current)
      BY <1>1, <2>3, SeenFits DEF Complete
    <3>2. /\ \A q \in Roots \ {Root} : rows'[q] = rows[q]
          /\ ActiveIn(rows'[Root].entities)
               = {e.entity : e \in current}
                 \cup (IF Complete THEN {} ELSE ActiveIn(rows[Root].entities))
      BY <1>1, <2>3, <3>1, StoreFits
    <3> HIDE DEF current
    <3>3. r = Root /\ Complete /\ row.entity \notin {e.entity : e \in current}
      BY <2>1, <3>2
    <3>4. \A s \in Tabled : \A q \in Ports \ Touched : Seen[s][q] = Now[s][q]
      BY <1>1, <2>3, <3>3, CompleteIsCurrent
    <3>5. Now["macTable"][p] = switch[p].macs
      BY Sections DEF Now, Column
    <3>6. p \notin Touched
          /\ (Touched = {} \/ ThisPc \notin Now["macTable"][p])
      BY <3>5 DEF Untouched, Touched
    <3>7. EntityOf(Seen, p) = EntityOf(Now, p) /\ (Up(Seen, p) <=> Up(Now, p))
      BY <3>4, <3>6, EntityStays
    <3>8. Endpoint(Seen, p) \in current /\ Endpoint(Seen, p).entity = row.entity
      BY <3>7 DEF current, BuildTopology, Endpoint
    <3> QED
      BY <3>3, <3>8
  <2>4. CASE UNCHANGED rows
    BY <2>1, <2>4
  <2> QED
    BY <1>1, <2>2, <2>3, <2>4, OnlyStored
<1>2. Shape /\ Lasting /\ [Next]_vars => [Stays]_vars
  BY <1>1
<1> QED
  BY <1>2, InitLasting, LastingKept, ShapeAlways, PTL DEF Spec, NeverForgotten

=============================================================================
