--------------------------- MODULE LabAssuranceProofs ---------------------------
(***************************************************************************)
(* What is proved of LabAssurance for any machines, situations, commands   *)
(* and numbers of requests: its types, that registry and vault agree, that *)
(* a failed command is never taken for an absent feature, and that the     *)
(* conclusions LabGraph draws from one refresh agree with each other.      *)
(***************************************************************************)
EXTENDS LabAssurance, FiniteSetTheorems, SequenceTheorems, TLAPS

Pcs == {"rest", "primary", "list", "collect", "publish", "save", "register", "erase",
        "unregister"}
Refreshing == {"primary", "list", "collect", "publish"}

\* What a machine may show, or a device that does not answer.
Shows == {s[m].shown : s \in Situations, m \in Machines} \cup {Blank}

Observations == [device : Ids \cup {Primary}, ended : [Commands -> CommandStates],
                 shown : Shows]

Jobs == [pc : Pcs, left : Seq(Ids), seen : Seq(Observations), probes : Nat,
         id : Ids \cup {None}, machine : Machines \cup {None}, known : Seq(Ids),
         times : SUBSET Situations]

Shape ==
  /\ lab \in Situations
  /\ registry \in Seq(Ids) /\ IsInjective(registry)
  /\ ToSet(registry) \subseteq used /\ used \subseteq Ids
  /\ vault \in [Ids -> Machines \cup {None}]
  /\ interrupted \subseteq Ids
  /\ probes \in Nat
  /\ job \in [Workers -> Jobs]

\* What a request knows of the device it adds or removes.
Knows(j) ==
  /\ j.id \in used \cup {None}
  /\ j.pc \notin {"register", "erase", "unregister"} => j.id = None
  /\ j.pc \in {"register", "erase", "unregister"} => j.id # None
  /\ j.pc = "save" => j.machine \in Machines
  /\ j.pc = "register" => j.id \notin ToSet(registry) /\ vault[j.id] # None
  /\ j.pc = "unregister" => vault[j.id] = None

\* A device that is being added is nobody else's business.
Apart ==
  \A w, x \in Workers : job[w].pc = "register" /\ job[x].id = job[w].id => w = x

\* Registered exactly if stored, except between the two steps of a request.
Settled(i) == \A w \in Workers : job[w].id = i => job[w].pc = "erase"
Agree == \A i \in Ids \ interrupted : Settled(i) => (i \in ToSet(registry) <=> vault[i] # None)

LabInv == Shape /\ (\A w \in Workers : Knows(job[w])) /\ Apart /\ Agree

-----------------------------------------------------------------------------
(* The assumptions apart, for the provers. *)

LEMMA NoneIsNobody == None \notin Machines /\ None \notin Ids
BY LabAssuranceAssumption

LEMMA PrimaryFits == PrimaryMachine \in Machines
BY LabAssuranceAssumption

LEMMA ConfiguredFit ==
  ASSUME NEW r \in Configured
  PROVE  r \in Seq(Ids) /\ IsInjective(r)
BY LabAssuranceAssumption

LEMMA FragileFits == Fragile \subseteq Commands
BY LabAssuranceAssumption

-----------------------------------------------------------------------------
(* The registry *)

LEMMA AppendOne ==
  ASSUME NEW r \in Seq(Ids), NEW i \in Ids
  PROVE  /\ Append(r, i) \in Seq(Ids)
         /\ ToSet(Append(r, i)) = ToSet(r) \cup {i}
         /\ IsInjective(r) /\ i \notin ToSet(r) => IsInjective(Append(r, i))
<1>1. Append(r, i) \in Seq(Ids) /\ Len(Append(r, i)) = Len(r) + 1
      /\ Append(r, i)[Len(r) + 1] = i
      /\ \A k \in 1..Len(r) : Append(r, i)[k] = r[k]
  OBVIOUS
<1>2. DOMAIN r = 1..Len(r) /\ DOMAIN Append(r, i) = 1..Len(r) + 1 /\ Len(r) \in Nat
  BY <1>1
<1>3. ToSet(Append(r, i)) = ToSet(r) \cup {i}
  BY <1>1, <1>2 DEF ToSet
<1>4. ASSUME IsInjective(r), i \notin ToSet(r) PROVE IsInjective(Append(r, i))
  BY <1>1, <1>2, <1>4 DEF IsInjective, ToSet
<1> QED
  BY <1>1, <1>3, <1>4

\* Without is what it is called, on a registry that has no identifier twice.
LEMMA WithoutFits ==
  ASSUME NEW r \in Seq(Ids), IsInjective(r), NEW i
  PROVE  /\ Without(r, i) \in Seq(Ids) /\ IsInjective(Without(r, i))
         /\ ToSet(Without(r, i)) = ToSet(r) \ {i}
<1>1. CASE i \notin ToSet(r)
  BY <1>1 DEF Without
<1>2. CASE i \in ToSet(r)
  <2> DEFINE k == CHOOSE n \in DOMAIN r : r[n] = i
             t == SubSeq(r, 1, k - 1) \o SubSeq(r, k + 1, Len(r))
  <2>1. k \in 1..Len(r) /\ r[k] = i /\ Len(r) \in Nat /\ DOMAIN r = 1..Len(r)
    BY <1>2 DEF ToSet
  <2>2. Without(r, i) = t
    BY <1>2 DEF Without, RemoveAt
  <2> HIDE DEF k
  <2> DEFINE front == SubSeq(r, 1, k - 1)
             back  == SubSeq(r, k + 1, Len(r))
  <2>3. /\ front \in Seq(Ids) /\ Len(front) = k - 1
        /\ \A n \in 1..k - 1 : front[n] = r[n]
    <3>1. k - 1 \in Int /\ \A n \in 1..k - 1 : r[n] \in Ids
      BY <2>1
    <3>2. /\ front \in Seq(Ids) /\ Len(front) = IF 1 <= k - 1 THEN (k - 1) - 1 + 1 ELSE 0
          /\ \A n \in 1..(k - 1) - 1 + 1 : front[n] = r[1 + n - 1]
      BY <3>1, SubSeqProperties
    <3> QED
      BY <2>1, <3>2
  <2>4. /\ back \in Seq(Ids) /\ Len(back) = Len(r) - k
        /\ \A n \in 1..Len(r) - k : back[n] = r[n + k]
    <3>1. /\ k + 1 \in Int /\ Len(r) \in Int
          /\ \A n \in k + 1..Len(r) : r[n] \in Ids
      BY <2>1
    <3>2. /\ back \in Seq(Ids)
          /\ Len(back) = IF k + 1 <= Len(r) THEN Len(r) - (k + 1) + 1 ELSE 0
          /\ \A n \in 1..Len(r) - (k + 1) + 1 : back[n] = r[(k + 1) + n - 1]
      BY <3>1, SubSeqProperties
    <3> HIDE DEF back
    <3>3. Len(back) = Len(r) - k
      <4>1. k \in Nat /\ Len(r) \in Nat /\ k <= Len(r)
        BY <2>1
      <4>2. CASE k + 1 <= Len(r)
        BY <3>2, <4>1, <4>2
      <4>3. CASE ~(k + 1 <= Len(r))
        BY <3>2, <4>1, <4>3
      <4> QED
        BY <4>2, <4>3
    <3>4. ASSUME NEW n \in 1..Len(r) - k PROVE back[n] = r[n + k]
      <4>1. n \in 1..Len(r) - (k + 1) + 1 /\ (k + 1) + n - 1 = n + k
        BY <2>1
      <4> QED
        BY <3>2, <4>1
    <3> QED
      BY <3>2, <3>3, <3>4
  <2> HIDE DEF front, back
  <2>5. /\ t \in Seq(Ids) /\ Len(t) = Len(r) - 1 /\ DOMAIN t = 1..Len(r) - 1
        /\ \A n \in 1..Len(r) - 1 : t[n] = IF n < k THEN r[n] ELSE r[n + 1]
    <3>0. t = front \o back
      BY DEF front, back
    <3> HIDE DEF t
    <3>1. /\ t \in Seq(Ids) /\ Len(t) = Len(front) + Len(back)
          /\ \A n \in 1..Len(front) + Len(back) :
               t[n] = IF n <= Len(front) THEN front[n] ELSE back[n - Len(front)]
      BY <2>3, <2>4, <3>0, ConcatProperties
    <3>2. Len(front) + Len(back) = Len(r) - 1
      BY <2>1, <2>3, <2>4
    <3>3. DOMAIN t = 1..Len(r) - 1
      BY <3>1, <3>2
    <3>4. ASSUME NEW n \in 1..Len(r) - 1, n < k PROVE t[n] = r[n]
      <4>1. n \in 1..k - 1
        BY <2>1, <3>4
      <4> QED
        BY <2>1, <2>3, <3>1, <3>2, <4>1
    <3>5. ASSUME NEW n \in 1..Len(r) - 1, ~(n < k) PROVE t[n] = r[n + 1]
      <4>1. n - (k - 1) \in 1..Len(r) - k /\ (n - (k - 1)) + k = n + 1 /\ ~(n <= k - 1)
        BY <2>1, <3>5
      <4>2. t[n] = back[n - (k - 1)]
        BY <2>3, <3>1, <3>2, <4>1
      <4>3. back[n - (k - 1)] = r[(n - (k - 1)) + k]
        BY <2>4, <4>1
      <4> QED
        BY <4>1, <4>2, <4>3
    <3> QED
      BY <3>1, <3>2, <3>3, <3>4, <3>5
  <2> HIDE DEF t
  <2> DEFINE At(n) == IF n < k THEN n ELSE n + 1
  <2>a. ASSUME NEW n \in 1..Len(r) - 1
        PROVE  At(n) \in DOMAIN r /\ At(n) # k /\ t[n] = r[At(n)]
    <3>1. CASE n < k
      BY <2>1, <2>5, <3>1
    <3>2. CASE ~(n < k)
      BY <2>1, <2>5, <3>2
    <3> QED
      BY <3>1, <3>2
  <2>b. ASSUME NEW n \in 1..Len(r) - 1, NEW m \in 1..Len(r) - 1, At(n) = At(m) PROVE n = m
    BY <2>1, <2>b
  <2> HIDE DEF At
  <2>6. IsInjective(t)
    <3>1. ASSUME NEW n \in 1..Len(r) - 1, NEW m \in 1..Len(r) - 1, t[n] = t[m] PROVE n = m
      <4>1. At(n) = At(m)
        BY <2>a, <3>1 DEF IsInjective
      <4> QED
        BY <2>b, <4>1
    <3> QED
      BY <2>5, <3>1 DEF IsInjective
  <2>7. ToSet(t) \subseteq ToSet(r) \ {i}
    <3> SUFFICES ASSUME NEW n \in 1..Len(r) - 1 PROVE t[n] \in ToSet(r) \ {i}
      BY <2>5 DEF ToSet
    <3>1. r[At(n)] # r[k] /\ r[At(n)] \in ToSet(r)
      BY <2>1, <2>a DEF IsInjective, ToSet
    <3> QED
      BY <2>1, <2>a, <3>1
  <2>8. ASSUME NEW x \in ToSet(r) \ {i} PROVE x \in ToSet(t)
    <3>1. PICK n \in 1..Len(r) : r[n] = x
      BY <2>1, <2>8 DEF ToSet
    <3>2. n # k
      BY <2>1, <2>8, <3>1
    <3>3. CASE n < k
      <4>1. n \in 1..Len(r) - 1 /\ t[n] = r[n]
        BY <2>1, <2>5, <3>1, <3>3
      <4> QED
        BY <2>5, <3>1, <4>1 DEF ToSet
    <3>4. CASE n > k
      <4>1. n - 1 \in 1..Len(r) - 1 /\ t[n - 1] = r[n]
        BY <2>1, <2>5, <3>1, <3>4
      <4> QED
        BY <2>5, <3>1, <4>1 DEF ToSet
    <3> QED
      BY <2>1, <3>1, <3>2, <3>3, <3>4
  <2> QED
    BY <2>2, <2>5, <2>6, <2>7, <2>8
<1> QED
  BY <1>1, <1>2

-----------------------------------------------------------------------------
(* Observations *)

LEMMA ClassifiedFits ==
  ASSUME NEW shows
  PROVE  Classified(shows) \in CommandStates
BY DEF Classified, CommandStates, Failed

LEMMA EndedFits ==
  ASSUME NEW m
  PROVE  Ended(m) \in [Commands -> CommandStates]
BY ClassifiedFits DEF Ended

LEMMA SpoiledFits ==
  ASSUME NEW m, NEW ended \in Spoiled(m)
  PROVE  /\ ended \in [Commands -> CommandStates]
         /\ \A c \in Commands : ended[c] \in {Ended(m)[c]} \cup (CommandStates \ {"unsupported"})
<1>1. PICK c \in Fragile, end \in Spoilings : ended = [Ended(m) EXCEPT ![c] = end]
  BY DEF Spoiled
<1>2. /\ Classified({"refused", "rows"}) = "authorization_failed"
      /\ Classified({"no such command"}) = "unavailable"
      /\ Classified({"failure", "rows"}) = "command_failed"
  BY DEF Classified
<1>3. end \in CommandStates \ {"unsupported"}
  BY <1>1, <1>2 DEF Spoilings, CommandStates, Failed
<1>4. c \in Commands
  BY FragileFits
<1> QED
  BY <1>1, <1>3, <1>4, EndedFits

LEMMA ObservationFits ==
  ASSUME lab \in Situations, NEW i \in Ids \cup {Primary}, NEW m \in Machines,
         NEW ended \in [Commands -> CommandStates]
  PROVE  Observation(i, m, ended) \in Observations
BY DEF Observation, Observations, Shows

LEMMA UnreachableFits ==
  ASSUME NEW i \in Ids \cup {Primary}
  PROVE  Unreachable(i) \in Observations
<1>1. [c \in Commands |-> "transport_failed"] \in [Commands -> CommandStates]
  BY DEF CommandStates, Failed
<1> QED
  BY <1>1 DEF Unreachable, Observations, Shows

LEMMA NotedFits ==
  ASSUME NEW j \in Jobs, NEW o \in Observations
  PROVE  /\ Noted(j, o) \in Jobs
         /\ Noted(j, o).seen = Append(j.seen, o)
         /\ Noted(j, o).id = j.id /\ Noted(j, o).pc = j.pc /\ Noted(j, o).left = j.left
         /\ Noted(j, o).times = j.times /\ Noted(j, o).machine = j.machine
<1>1. Append(j.seen, o) \in Seq(Observations)
  BY DEF Jobs
<1> QED
  BY <1>1 DEF Noted, Jobs

\* What a refresh adds to its observations when it collects a device.
Gathered(i, m) ==
  {Observation(i, m, ended) : ended \in {Ended(m)} \cup Spoiled(m)} \cup {Unreachable(i)}

LEMMA GatheredFits ==
  ASSUME lab \in Situations, NEW i \in Ids \cup {Primary}, NEW m \in Machines
  PROVE  Gathered(i, m) \subseteq Observations
BY EndedFits, SpoiledFits, ObservationFits, UnreachableFits DEF Gathered

LEMMA CollectGathers ==
  ASSUME NEW w, NEW i, NEW m, NEW rest, Collect(w, i, m, rest)
  PROVE  \E o \in Gathered(i, m) : job' = [job EXCEPT ![w] = Noted(rest, o)]
BY DEF Collect, Gathered

-----------------------------------------------------------------------------
(* The steps of one request that leave registry and vault alone *)

LEMMA InitLab == Init => LabInv
<1> SUFFICES ASSUME Init PROVE LabInv
  OBVIOUS
<1>1. Rest \in Jobs /\ Rest.id = None /\ Rest.pc = "rest"
  BY DEF Rest, Jobs, Pcs
<1>2. registry \in Seq(Ids) /\ IsInjective(registry) /\ ToSet(registry) \subseteq Ids
  BY ConfiguredFit DEF Init, ToSet
<1>3. /\ vault \in [Ids -> Machines \cup {None}]
      /\ \A i \in Ids : vault[i] # None <=> i \in ToSet(registry)
  BY DEF Init
<1>4. Shape
  BY <1>1, <1>2, <1>3 DEF Init, Shape
<1>5. \A w \in Workers : Knows(job[w])
  BY <1>1 DEF Init, Knows
<1>6. Apart /\ Agree
  BY <1>1, <1>3 DEF Init, Apart, Agree
<1> QED
  BY <1>4, <1>5, <1>6 DEF LabInv

\* A step of one request that is neither before nor after a step between the
\* two stores.
LEMMA OneStep ==
  ASSUME LabInv, NEW w \in Workers, NEW j \in Jobs, job' = [job EXCEPT ![w] = j],
         UNCHANGED <<lab, store>>, probes' \in Nat, Knows(j),
         j.id \in {None, job[w].id} \cup ToSet(registry),
         job[w].pc \notin {"register", "unregister"},
         j.pc \notin {"register", "unregister"}
  PROVE  LabInv'
<1>1. job[w] \in Jobs /\ \A x \in Workers : job'[x] = IF x = w THEN j ELSE job[x]
  BY DEF LabInv, Shape
<1>2. UNCHANGED <<lab, registry, vault, used, interrupted>>
  BY DEF store
<1>3. Shape'
  BY <1>2 DEF LabInv, Shape
<1>4. \A x \in Workers : Knows(job[x])'
  BY <1>1, <1>2 DEF LabInv, Knows
<1>5. Apart'
  <2> SUFFICES ASSUME NEW x \in Workers, NEW y \in Workers,
                      job'[x].pc = "register", job'[y].id = job'[x].id
               PROVE  x = y
    BY DEF Apart
  <2>1. x # w /\ job'[x] = job[x]
    BY <1>1
  <2>2. job[x].id \notin ToSet(registry) \cup {None}
    BY <2>1, <1>1 DEF LabInv, Knows
  <2>3. CASE y = w
    BY <1>1, <2>1, <2>2, <2>3 DEF LabInv, Apart
  <2>4. CASE y # w
    BY <1>1, <2>1, <2>4 DEF LabInv, Apart
  <2> QED
    BY <2>3, <2>4
<1>6. Agree'
  <2> SUFFICES ASSUME NEW i \in Ids \ interrupted, Settled(i)'
               PROVE  i \in ToSet(registry) <=> vault[i] # None
    BY <1>2 DEF Agree
  <2>1. Settled(i)
    <3> SUFFICES ASSUME NEW x \in Workers, job[x].id = i PROVE job[x].pc = "erase"
      BY DEF Settled
    <3>1. CASE x = w
      <4>1. i # None
        BY NoneIsNobody
      <4> QED
        BY <3>1, <4>1, <1>1 DEF LabInv, Knows, Jobs, Pcs
    <3>2. CASE x # w
      BY <1>1, <3>2 DEF Settled
    <3> QED
      BY <3>1, <3>2
  <2> QED
    BY <2>1 DEF LabInv, Agree
<1> QED
  BY <1>3, <1>4, <1>5, <1>6 DEF LabInv

LEMMA RestFits == Rest \in Jobs /\ Rest.id = None /\ Rest.pc = "rest" /\ Knows(Rest)
BY DEF Rest, Jobs, Pcs, Knows

LEMMA RefreshKeeps ==
  ASSUME LabInv, NEW w \in Workers,
         \/ Refresh(w) \/ CollectPrimary(w) \/ ListDevices(w) \/ CollectDevice(w)
         \/ CopyProbes(w) \/ Publish(w) \/ Probe(w)
  PROVE  LabInv'
<1>1. job[w] \in Jobs /\ Knows(job[w]) /\ lab \in Situations /\ probes \in Nat
  BY DEF LabInv, Shape
<1> DEFINE Quiet(j) == /\ j \in Jobs /\ j.id = None /\ j.pc \in Refreshing \cup {"rest"}
                       /\ job' = [job EXCEPT ![w] = j]
<1>2. ASSUME NEW j, Quiet(j), UNCHANGED <<lab, store>>, probes' \in Nat,
             job[w].pc \in Refreshing \cup {"rest"}
      PROVE  LabInv'
  <2>1. Knows(j)
    BY <1>2 DEF Knows, Refreshing
  <2> QED
    BY <1>2, <2>1, OneStep DEF Refreshing
<1> HIDE DEF Quiet
<1>3. CASE Refresh(w)
  <2>1. Quiet([Rest EXCEPT !.pc = "primary", !.times = {lab}])
    BY <1>1, <1>3, RestFits DEF Quiet, Refresh, Jobs, Pcs, Refreshing
  <2> QED
    BY <1>1, <1>2, <1>3, <2>1, RestFits DEF Refresh, Asked
<1>4. CASE CollectPrimary(w)
  <2> DEFINE r == [job[w] EXCEPT !.pc = "list"]
  <2>1. r \in Jobs /\ r.id = None /\ r.pc = "list" /\ job[w].pc = "primary"
    BY <1>1, <1>4 DEF CollectPrimary, Knows, Jobs, Pcs
  <2>2. PICK o \in Gathered(Primary, PrimaryMachine) : job' = [job EXCEPT ![w] = Noted(r, o)]
    BY <1>4, CollectGathers DEF CollectPrimary
  <2>3. o \in Observations
    BY <1>1, GatheredFits, PrimaryFits
  <2> HIDE DEF r
  <2>4. Quiet(Noted(r, o))
    BY <2>1, <2>2, <2>3, NotedFits DEF Quiet, Refreshing
  <2> QED
    BY <1>1, <1>2, <1>4, <2>1, <2>4 DEF CollectPrimary, Refreshing
<1>5. CASE ListDevices(w)
  <2>1. PICK l \in {registry, job[w].left} :
          job' = [job EXCEPT ![w] = [job[w] EXCEPT !.pc = "collect", !.left = l]]
    <3>1. [job[w] EXCEPT !.pc = "collect", !.left = job[w].left]
            = [job[w] EXCEPT !.pc = "collect"]
      BY <1>1 DEF Jobs
    <3> QED
      BY <1>5, <3>1 DEF ListDevices
  <2>2. l \in Seq(Ids)
    BY <1>1 DEF LabInv, Shape, Jobs
  <2>3. Quiet([job[w] EXCEPT !.pc = "collect", !.left = l])
    BY <1>1, <1>5, <2>1, <2>2 DEF Quiet, ListDevices, Knows, Jobs, Pcs, Refreshing
  <2> QED
    BY <1>1, <1>2, <1>5, <2>3 DEF ListDevices, Refreshing
<1>6. CASE CollectDevice(w)
  <2> DEFINE i == Head(job[w].left)
             r == [job[w] EXCEPT !.left = Tail(job[w].left)]
  <2>1. job[w].left \in Seq(Ids) /\ job[w].left # <<>> /\ job[w].pc = "collect"
    BY <1>1, <1>6 DEF CollectDevice, Jobs
  <2>2. i \in Ids /\ Tail(job[w].left) \in Seq(Ids)
    BY <2>1
  <2>3. r \in Jobs /\ r.id = None /\ r.pc = "collect"
    BY <1>1, <2>1, <2>2 DEF Knows, Jobs
  <2>4. PICK m \in Machines :
          \E o \in Gathered(i, m) : job' = [job EXCEPT ![w] = Noted(r, o)]
    <3>1. CASE vault[i] = None
      <4>1. Unreachable(i) \in Gathered(i, PrimaryMachine)
        BY DEF Gathered
      <4> QED
        BY <1>6, <3>1, <4>1, PrimaryFits DEF CollectDevice
    <3>2. CASE vault[i] # None
      <4>1. vault[i] \in Machines
        BY <2>2, <3>2 DEF LabInv, Shape
      <4>2. Collect(w, i, vault[i], r)
        BY <1>6, <3>2 DEF CollectDevice
      <4> HIDE DEF i, r
      <4>3. \E o \in Gathered(i, vault[i]) : job' = [job EXCEPT ![w] = Noted(r, o)]
        BY <4>2, CollectGathers
      <4> QED
        BY <4>1, <4>3
    <3> QED
      BY <3>1, <3>2
  <2> HIDE DEF i, r
  <2>5. PICK o \in Gathered(i, m) : job' = [job EXCEPT ![w] = Noted(r, o)]
    BY <2>4
  <2>6. o \in Observations
    BY <1>1, <2>2, GatheredFits
  <2>7. Quiet(Noted(r, o))
    BY <2>3, <2>5, <2>6, NotedFits DEF Quiet, Refreshing
  <2> QED
    BY <1>1, <1>2, <1>6, <2>1, <2>7 DEF CollectDevice, Refreshing
<1>7. CASE CopyProbes(w)
  <2>1. Quiet([job[w] EXCEPT !.pc = "publish", !.probes = probes])
    BY <1>1, <1>7 DEF Quiet, CopyProbes, Knows, Jobs, Pcs, Refreshing
  <2> QED
    BY <1>1, <1>2, <1>7, <2>1 DEF CopyProbes, Refreshing
<1>8. CASE Publish(w)
  <2>1. Quiet(Rest)
    BY <1>8, RestFits DEF Quiet, Publish
  <2> QED
    BY <1>1, <1>2, <1>8, <2>1 DEF Publish, Refreshing
<1>9. CASE Probe(w)
  <2>1. job' = [job EXCEPT ![w] = job[w]] /\ job[w] = Rest
    BY <1>9 DEF Probe, Asked, LabInv, Shape
  <2>2. Quiet(Rest)
    BY <2>1, RestFits DEF Quiet
  <2>3. probes' \in Nat /\ UNCHANGED <<lab, store>>
    BY <1>1, <1>9 DEF Probe
  <2> QED
    BY <1>2, <2>1, <2>2, <2>3, RestFits
<1> QED
  BY <1>3, <1>4, <1>5, <1>6, <1>7, <1>8, <1>9

-----------------------------------------------------------------------------
(* Adding and removing a device *)

LEMMA CheckKeeps ==
  ASSUME LabInv, NEW w \in Workers,
         \/ \E m \in Machines : CheckTarget(w, m)
         \/ \E i \in Ids : CheckRegistered(w, i)
  PROVE  LabInv'
<1>1. job[w] \in Jobs /\ probes \in Nat /\ registry \in Seq(Ids) /\ used \subseteq Ids
      /\ ToSet(registry) \subseteq used
  BY DEF LabInv, Shape
<1>2. ASSUME NEW m \in Machines, CheckTarget(w, m) PROVE LabInv'
  <2> DEFINE j == [Rest EXCEPT !.pc = "save", !.machine = m, !.known = registry]
  <2>1. j \in Jobs /\ j.id = None /\ j.pc = "save" /\ j.machine = m
    BY <1>1, RestFits DEF Rest, Jobs, Pcs
  <2>2. job' = [job EXCEPT ![w] = j] /\ job[w].pc = "rest"
    BY <1>2, RestFits DEF CheckTarget, Asked
  <2> HIDE DEF j
  <2>3. Knows(j)
    BY <2>1 DEF Knows
  <2> QED
    BY <1>1, <1>2, <2>1, <2>2, <2>3, OneStep DEF CheckTarget
<1>3. ASSUME NEW i \in Ids, CheckRegistered(w, i) PROVE LabInv'
  <2> DEFINE j == [Rest EXCEPT !.pc = "erase", !.id = i]
  <2>1. j \in Jobs /\ j.id = i /\ j.pc = "erase"
    BY RestFits DEF Rest, Jobs, Pcs
  <2>2. job' = [job EXCEPT ![w] = j] /\ job[w].pc = "rest" /\ i \in ToSet(registry)
    BY <1>3, RestFits DEF CheckRegistered, Asked
  <2> HIDE DEF j
  <2>3. Knows(j)
    BY <1>1, <2>1, <2>2, NoneIsNobody DEF Knows
  <2> QED
    BY <1>1, <1>3, <2>1, <2>2, <2>3, OneStep DEF CheckRegistered
<1> QED
  BY <1>2, <1>3

LEMMA SaveKeeps ==
  ASSUME LabInv, NEW w \in Workers, SaveCredentials(w)
  PROVE  LabInv'
<1>1. job[w] \in Jobs /\ probes \in Nat /\ job[w].pc = "save" /\ job[w].machine \in Machines
      /\ Knows(job[w])
  BY DEF LabInv, Shape, SaveCredentials, Knows
<1>2. CASE job' = [job EXCEPT ![w] = Rest] /\ UNCHANGED store
  BY <1>1, <1>2, RestFits, OneStep DEF SaveCredentials
<1>3. ASSUME NEW i \in Fresh,
             vault' = [vault EXCEPT ![i] = job[w].machine],
             used' = used \cup {i},
             job' = [job EXCEPT ![w].pc = "register", ![w].id = i],
             UNCHANGED <<registry, interrupted>>
      PROVE  LabInv'
  <2> DEFINE j == [job[w] EXCEPT !.pc = "register", !.id = i]
  <2>1. i \in Ids /\ i \notin used /\ i # None
    BY NoneIsNobody DEF Fresh
  <2>2. j \in Jobs /\ j.pc = "register" /\ j.id = i
    BY <1>1, <2>1 DEF Jobs, Pcs
  <2>3. job' = [job EXCEPT ![w] = j]
    BY <1>3 DEF LabInv, Shape
  <2> HIDE DEF j
  <2>4. \A x \in Workers : job'[x] = IF x = w THEN j ELSE job[x]
    BY <2>3 DEF LabInv, Shape
  <2>5. \A k \in Ids : vault'[k] = IF k = i THEN job[w].machine ELSE vault[k]
    BY <1>3 DEF LabInv, Shape
  <2>6. UNCHANGED <<lab, registry, probes, interrupted>>
    BY <1>3 DEF SaveCredentials
  <2>7. Shape'
    BY <1>1, <1>3, <2>1, <2>2, <2>3, <2>6 DEF LabInv, Shape
  <2>8. \A x \in Workers : x # w => job[x].id # i
    BY <2>1 DEF LabInv, Knows
  <2>9. \A x \in Workers : Knows(job[x])'
    <3> SUFFICES ASSUME NEW x \in Workers PROVE Knows(job[x])'
      OBVIOUS
    <3>1. CASE x = w
      <4>1. i \notin ToSet(registry) /\ vault'[i] # None
        BY <1>1, <2>1, <2>5, NoneIsNobody DEF LabInv, Shape
      <4>2. job'[x] = j /\ i \in used' /\ registry' = registry
        BY <1>3, <2>4, <2>6, <3>1
      <4> QED
        BY <2>1, <2>2, <4>1, <4>2 DEF Knows
    <3>2. CASE x # w
      <4>1. job'[x] = job[x] /\ Knows(job[x]) /\ job[x].id # i /\ used \subseteq Ids
        BY <2>4, <2>8, <3>2 DEF LabInv, Shape
      <4>2. job[x].id # None => vault'[job[x].id] = vault[job[x].id]
        BY <2>5, <4>1 DEF Knows
      <4>3. used \subseteq used' /\ registry' = registry
        BY <1>3, <2>6
      <4> QED
        BY <4>1, <4>2, <4>3 DEF Knows
    <3> QED
      BY <3>1, <3>2
  <2>10. Apart'
    BY <2>2, <2>4, <2>8 DEF LabInv, Apart
  <2>11. Agree'
    <3> SUFFICES ASSUME NEW k \in Ids \ interrupted, Settled(k)'
                 PROVE  k \in ToSet(registry) <=> vault'[k] # None
      BY <2>6 DEF Agree
    <3>1. k # i
      BY <2>2, <2>4 DEF Settled
    <3>2. Settled(k)
      <4> SUFFICES ASSUME NEW x \in Workers, job[x].id = k PROVE job[x].pc = "erase"
        BY DEF Settled
      <4>1. x # w
        BY <1>1, NoneIsNobody DEF Knows
      <4> QED
        BY <2>4, <4>1 DEF Settled
    <3> QED
      BY <2>5, <3>1, <3>2 DEF LabInv, Agree
  <2> QED
    BY <2>7, <2>9, <2>10, <2>11 DEF LabInv
<1> QED
  BY <1>2, <1>3 DEF SaveCredentials

\* The last step of a request that changed both stores, or told the onlooker.
LEMMA LastStep ==
  ASSUME LabInv, NEW w \in Workers, job' = [job EXCEPT ![w] = Rest],
         UNCHANGED <<lab, used, probes>>,
         job[w].pc \in {"register", "unregister"},
         registry' \in Seq(Ids), IsInjective(registry)', ToSet(registry)' \subseteq used,
         vault' \in [Ids -> Machines \cup {None}],
         interrupted \subseteq interrupted', interrupted' \subseteq Ids,
         \A i \in Ids : i # job[w].id => vault'[i] = vault[i],
         \A i \in Ids : i # job[w].id /\ i \notin interrupted' =>
                          (i \in ToSet(registry)' <=> i \in ToSet(registry)),
         ToSet(registry)' \subseteq ToSet(registry) \cup {job[w].id},
         job[w].id \notin interrupted' =>
           (job[w].id \in ToSet(registry)' <=> vault'[job[w].id] # None),
         job[w].pc = "unregister" => vault' = vault
  PROVE  LabInv'
<1>1. job[w] \in Jobs /\ Knows(job[w]) /\ used \subseteq Ids /\ job \in [Workers -> Jobs]
  BY DEF LabInv, Shape
<1>2. \A x \in Workers : job'[x] = IF x = w THEN Rest ELSE job[x]
  BY <1>1
<1>3. Shape'
  BY <1>1, RestFits DEF LabInv, Shape
<1>4. \A x \in Workers : Knows(job[x])'
  <2> SUFFICES ASSUME NEW x \in Workers PROVE Knows(job[x])'
    OBVIOUS
  <2>1. CASE x = w
    BY <1>2, <2>1, RestFits DEF Knows
  <2>2. CASE x # w
    <3>1. job'[x] = job[x] /\ Knows(job[x])
      BY <1>2, <2>2 DEF LabInv
    <3>2. ASSUME job[x].pc = "register"
          PROVE  job[x].id \notin ToSet(registry)' /\ vault'[job[x].id] # None
      <4>1. job[x].id # job[w].id
        BY <2>2, <3>2 DEF LabInv, Apart
      <4> QED
        BY <1>1, <3>1, <3>2, <4>1 DEF Knows
    <3>3. ASSUME job[x].pc = "unregister" PROVE vault'[job[x].id] = None
      <4>1. CASE job[x].id # job[w].id
        BY <1>1, <3>1, <3>3, <4>1 DEF Knows
      <4>2. CASE job[x].id = job[w].id
        <5>1. job[w].pc # "register"
          BY <2>2, <4>2 DEF LabInv, Apart
        <5> QED
          BY <3>1, <3>3, <5>1 DEF Knows
      <4> QED
        BY <4>1, <4>2
    <3> QED
      BY <3>1, <3>2, <3>3 DEF Knows
  <2> QED
    BY <2>1, <2>2
<1>5. Apart'
  BY <1>1, <1>2, RestFits DEF LabInv, Apart, Knows
<1>6. Agree'
  <2> SUFFICES ASSUME NEW i \in Ids, i \notin interrupted', Settled(i)'
               PROVE  i \in ToSet(registry)' <=> vault'[i] # None
    BY DEF Agree
  <2>1. CASE i # job[w].id
    <3>1. Settled(i)
      BY <1>2, <2>1 DEF Settled
    <3> QED
      BY <2>1, <3>1 DEF LabInv, Agree
  <2>2. CASE i = job[w].id
    BY <2>2
  <2> QED
    BY <2>1, <2>2
<1> QED
  BY <1>3, <1>4, <1>5, <1>6 DEF LabInv

LEMMA RegisterKeeps ==
  ASSUME LabInv, NEW w \in Workers, Register(w)
  PROVE  LabInv'
<1> DEFINE i == job[w].id
<1>1. /\ Knows(job[w]) /\ job[w].pc = "register" /\ i \in used /\ used \subseteq Ids /\ i \in Ids
      /\ i \notin ToSet(registry) /\ vault[i] # None
  BY DEF LabInv, Shape, Knows, Register
<1>2. /\ registry \in Seq(Ids) /\ IsInjective(registry) /\ ToSet(registry) \subseteq used
      /\ vault \in [Ids -> Machines \cup {None}] /\ interrupted \subseteq Ids
  BY DEF LabInv, Shape
<1>3. job' = [job EXCEPT ![w] = Rest] /\ UNCHANGED <<lab, used, probes>>
  BY DEF Register
<1> HIDE DEF i
<1>4. CASE registry' = Registered(w) /\ UNCHANGED <<vault, interrupted>>
  <2>1. registry' = Append(registry, i)
    BY <1>4 DEF Registered, i
  <2>2. /\ registry' \in Seq(Ids) /\ IsInjective(registry') /\ ToSet(registry') = ToSet(registry) \cup {i}
    BY <1>1, <1>2, <2>1, AppendOne
  <2> QED
    BY <1>1, <1>2, <1>3, <1>4, <2>2, LastStep DEF i
<1>5. CASE /\ registry' = <<i>> /\ interrupted' = interrupted \cup ToSet(registry)
           /\ UNCHANGED vault
  <2>1. registry' \in Seq(Ids) /\ IsInjective(registry') /\ ToSet(registry') = {i}
    BY <1>1, <1>5 DEF IsInjective, ToSet
  <2> QED
    BY <1>1, <1>2, <1>3, <1>5, <2>1, LastStep DEF i
<1>6. CASE vault' = [vault EXCEPT ![i] = None] /\ UNCHANGED <<registry, interrupted>>
  <2>1. /\ vault' \in [Ids -> Machines \cup {None}]
        /\ \A k \in Ids : vault'[k] = IF k = i THEN None ELSE vault[k]
    BY <1>1, <1>2, <1>6
  <2> QED
    BY <1>1, <1>2, <1>3, <1>6, <2>1, LastStep DEF i
<1>7. CASE interrupted' = interrupted \cup {i} /\ UNCHANGED <<registry, vault>>
  BY <1>1, <1>2, <1>3, <1>7, LastStep DEF i
<1> QED
  BY <1>4, <1>5, <1>6, <1>7 DEF Register, i

LEMMA UnregisterKeeps ==
  ASSUME LabInv, NEW w \in Workers, Unregister(w)
  PROVE  LabInv'
<1> DEFINE i == job[w].id
<1>1. /\ job[w].pc = "unregister" /\ used \subseteq Ids /\ i \in Ids /\ vault[i] = None
  BY DEF LabInv, Shape, Knows, Unregister
<1>2. /\ registry \in Seq(Ids) /\ IsInjective(registry) /\ ToSet(registry) \subseteq used
      /\ vault \in [Ids -> Machines \cup {None}] /\ interrupted \subseteq Ids
  BY DEF LabInv, Shape
<1>3. job' = [job EXCEPT ![w] = Rest] /\ UNCHANGED <<lab, used, probes, vault>>
  BY DEF Unregister
<1> HIDE DEF i
<1>4. CASE registry' = Without(registry, i) /\ UNCHANGED interrupted
  <2>1. /\ registry' \in Seq(Ids) /\ IsInjective(registry') /\ ToSet(registry') = ToSet(registry) \ {i}
    BY <1>2, <1>4, WithoutFits
  <2> QED
    BY <1>1, <1>2, <1>3, <1>4, <2>1, LastStep DEF i
<1>5. CASE registry' = <<>> /\ interrupted' = interrupted \cup ToSet(registry)
  <2>1. registry' \in Seq(Ids) /\ IsInjective(registry') /\ ToSet(registry') = {}
    BY <1>1, <1>5 DEF IsInjective, ToSet
  <2> QED
    BY <1>1, <1>2, <1>3, <1>5, <2>1, LastStep DEF i
<1>6. CASE interrupted' = interrupted \cup {i} /\ UNCHANGED registry
  BY <1>1, <1>2, <1>3, <1>6, LastStep DEF i
<1> QED
  BY <1>4, <1>5, <1>6 DEF Unregister, i

LEMMA EraseKeeps ==
  ASSUME LabInv, NEW w \in Workers, EraseCredentials(w)
  PROVE  LabInv'
<1> DEFINE i == job[w].id
<1>1. /\ job[w] \in Jobs /\ Knows(job[w]) /\ job[w].pc = "erase" /\ i \in used
      /\ used \subseteq Ids /\ i \in Ids /\ i # None /\ probes \in Nat
  BY DEF LabInv, Shape, Knows, EraseCredentials
<1>2. CASE job' = [job EXCEPT ![w] = Rest] /\ UNCHANGED vault
  BY <1>1, <1>2, RestFits, OneStep DEF EraseCredentials, store
<1>3. CASE /\ vault' = [vault EXCEPT ![i] = None]
           /\ job' = [job EXCEPT ![w].pc = "unregister"]
  <2> DEFINE j == [job[w] EXCEPT !.pc = "unregister"]
  <2>1. j \in Jobs /\ j.pc = "unregister" /\ j.id = i
    BY <1>1 DEF Jobs, Pcs
  <2>2. job' = [job EXCEPT ![w] = j]
    BY <1>3 DEF LabInv, Shape
  <2> HIDE DEF j, i
  <2>3. \A x \in Workers : job'[x] = IF x = w THEN j ELSE job[x]
    BY <2>2 DEF LabInv, Shape
  <2>4. /\ vault' \in [Ids -> Machines \cup {None}]
        /\ \A k \in Ids : vault'[k] = IF k = i THEN None ELSE vault[k]
    BY <1>1, <1>3 DEF LabInv, Shape
  <2>5. UNCHANGED <<lab, registry, used, interrupted, probes>>
    BY DEF EraseCredentials
  <2>6. Shape'
    BY <2>1, <2>2, <2>4, <2>5 DEF LabInv, Shape
  <2>7. \A x \in Workers : job[x].pc = "register" => job[x].id # i
    BY <1>1 DEF LabInv, Apart, i
  <2>8. \A x \in Workers : Knows(job[x])'
    <3> SUFFICES ASSUME NEW x \in Workers PROVE Knows(job[x])'
      OBVIOUS
    <3>1. CASE x = w
      BY <1>1, <2>1, <2>3, <2>4, <2>5, <3>1 DEF Knows
    <3>2. CASE x # w
      <4>1. job'[x] = job[x] /\ Knows(job[x]) /\ used' = used /\ registry' = registry
        BY <2>3, <2>5, <3>2 DEF LabInv
      <4>2. job[x].id \in Ids => vault'[job[x].id] = IF job[x].id = i THEN None ELSE vault[job[x].id]
        BY <2>4
      <4> QED
        BY <1>1, <2>7, <4>1, <4>2 DEF Knows
    <3> QED
      BY <3>1, <3>2
  <2>9. Apart'
    BY <1>1, <2>1, <2>3, <2>7 DEF LabInv, Apart
  <2>10. Agree'
    <3> SUFFICES ASSUME NEW k \in Ids \ interrupted, Settled(k)'
                 PROVE  k \in ToSet(registry) <=> vault'[k] # None
      BY <2>5 DEF Agree
    <3>1. k # i
      BY <2>1, <2>3 DEF Settled
    <3>2. Settled(k)
      BY <1>1, <2>3, <3>1 DEF Settled, i
    <3> QED
      BY <2>4, <3>1, <3>2 DEF LabInv, Agree
  <2> QED
    BY <2>6, <2>8, <2>9, <2>10 DEF LabInv
<1> QED
  BY <1>2, <1>3 DEF EraseCredentials, i

-----------------------------------------------------------------------------
(* The lab and the backend *)

LEMMA MoveKeeps == LabInv /\ Move => LabInv'
<1> SUFFICES ASSUME LabInv, Move PROVE LabInv'
  OBVIOUS
<1>1. lab' \in Situations /\ UNCHANGED <<registry, vault, used, interrupted, probes>>
  BY DEF Move, store
<1>2. \A w \in Workers : /\ job'[w] \in Jobs
                         /\ job'[w].pc = job[w].pc /\ job'[w].id = job[w].id
                         /\ job'[w].machine = job[w].machine
  <2> SUFFICES ASSUME NEW w \in Workers
               PROVE  /\ job'[w] \in Jobs
                      /\ job'[w].pc = job[w].pc /\ job'[w].id = job[w].id
                      /\ job'[w].machine = job[w].machine
    OBVIOUS
  <2>1. job[w] \in Jobs
    BY DEF LabInv, Shape
  <2>2. job'[w] = job[w] \/ job'[w] = [job[w] EXCEPT !.times = job[w].times \cup {lab'}]
    BY DEF Move
  <2> QED
    BY <1>1, <2>1, <2>2 DEF Jobs
<1>3. job' \in [Workers -> Jobs]
  BY <1>2 DEF Move
<1>4. Shape'
  BY <1>1, <1>3 DEF LabInv, Shape
<1>5. \A w \in Workers : Knows(job[w])'
  BY <1>1, <1>2 DEF LabInv, Knows
<1>6. Apart' /\ Agree'
  BY <1>1, <1>2 DEF LabInv, Apart, Agree, Settled
<1> QED
  BY <1>4, <1>5, <1>6 DEF LabInv

LEMMA RestartKeeps == LabInv /\ Restart => LabInv'
<1> SUFFICES ASSUME LabInv, Restart PROVE LabInv'
  OBVIOUS
<1> DEFINE cut == {job[w].id : w \in {x \in Workers : job[x].pc \in {"register", "unregister"}}}
<1>1. /\ UNCHANGED <<lab, registry, vault, used>> /\ probes' = 0
      /\ interrupted' = interrupted \cup cut /\ job' = [w \in Workers |-> Rest]
  BY DEF Restart
<1>2. cut \subseteq Ids
  BY DEF LabInv, Shape, Knows
<1>3. Shape'
  BY <1>1, <1>2, RestFits DEF LabInv, Shape
<1>4. (\A w \in Workers : Knows(job[w])') /\ Apart'
  BY <1>1, RestFits DEF Knows, Apart
<1>5. Agree'
  <2> SUFFICES ASSUME NEW i \in Ids, i \notin interrupted, i \notin cut
               PROVE  i \in ToSet(registry) <=> vault[i] # None
    BY <1>1 DEF Agree
  <2>1. \A w \in Workers : job[w].id = i => job[w].pc \notin {"register", "unregister"}
    OBVIOUS
  <2>2. Settled(i)
    <3> SUFFICES ASSUME NEW w \in Workers, job[w].id = i PROVE job[w].pc = "erase"
      BY DEF Settled
    <3>1. job[w].pc \in {"register", "erase", "unregister"}
      BY NoneIsNobody DEF LabInv, Knows
    <3> QED
      BY <2>1, <3>1
  <2> QED
    BY <2>2 DEF LabInv, Agree
<1> QED
  BY <1>3, <1>4, <1>5 DEF LabInv

LEMMA StutterKeeps == LabInv /\ UNCHANGED vars => LabInv'
BY DEF LabInv, Shape, Knows, Apart, Agree, Settled, vars, store

LEMMA LabKept == LabInv /\ [Next]_vars => LabInv'
BY MoveKeeps, RestartKeeps, RefreshKeeps, CheckKeeps, SaveKeeps, RegisterKeeps, EraseKeeps,
   UnregisterKeeps, StutterKeeps DEF Next

LEMMA LabAlways == Spec => []LabInv
BY InitLab, LabKept, PTL DEF Spec

\* Whatever fails between the two stores of adding and removing a device, and
\* however requests overlap, no identifier is registered twice and everything
\* keeps its shape (add and remove of lab_device_store.py).
THEOREM LabTypeCorrect == Spec => []TypeOK
<1>1. LabInv => TypeOK
  BY DEF LabInv, Shape, Knows, Jobs, Pcs, TypeOK
<1> QED
  BY <1>1, LabAlways, PTL

\* For any number of requests at once: a device that nobody is adding or
\* removing is registered exactly if its credentials are stored, unless a crash
\* or a store that could not be read or written came between.
THEOREM RegistryKeepsToVault == Spec => []RegistryIsVault
<1>1. LabInv => RegistryIsVault
  BY DEF LabInv, Agree, Settled, RegistryIsVault
<1> QED
  BY <1>1, LabAlways, PTL

-----------------------------------------------------------------------------
(* What is observed was so *)

\* With v stored in the vault: an observation shows what its machine showed at
\* one of the times, and calls a command unsupported only if it was; or the
\* device did not answer.
Witnessed(o, times, v) ==
  \/ \A c \in Commands : o.ended[c] = "transport_failed"
  \/ \E m \in Machines : \E t \in times :
       /\ o.device = Primary => m = PrimaryMachine
       /\ o.device # Primary => v[o.device] \in {m, None}
       /\ o.shown = t[m].shown
       /\ \A c \in Commands : o.ended[c] = "unsupported" => c \in t[m].unsupported

\* What a job has observed is true, u being the identifiers that were given and
\* l what the machines show.
Truthful(j, u, v, l) ==
  /\ ToSet(j.left) \subseteq u
  /\ \A k \in DOMAIN j.seen : /\ j.seen[k].device \in u \cup {Primary}
                             /\ Witnessed(j.seen[k], j.times, v)
  /\ j.pc \in Refreshing => l \in j.times

SeenInv == \A w \in Workers : Truthful(job[w], used, vault, lab)

\* An identifier that was given never names another machine.
Narrows(u, v, u2, v2) == u \subseteq u2 /\ \A i \in u : v2[i] \in {v[i], None}

LEMMA VaultNarrows == LabInv /\ [Next]_vars => Narrows(used, vault, used', vault')
<1> SUFFICES ASSUME LabInv, [Next]_vars PROVE Narrows(used, vault, used', vault')
  OBVIOUS
<1>1. vault \in [Ids -> Machines \cup {None}] /\ used \subseteq Ids
  BY DEF LabInv, Shape
<1>2. CASE UNCHANGED <<vault, used>>
  BY <1>2 DEF Narrows
<1>3. ASSUME NEW w \in Workers, SaveCredentials(w) PROVE Narrows(used, vault, used', vault')
  <2>1. CASE UNCHANGED store
    BY <1>2, <2>1 DEF store
  <2>2. ASSUME NEW i \in Fresh, vault' = [vault EXCEPT ![i] = job[w].machine],
               used' = used \cup {i}
        PROVE  Narrows(used, vault, used', vault')
    BY <1>1, <2>2 DEF Fresh, Narrows
  <2> QED
    BY <1>3, <2>1, <2>2 DEF SaveCredentials
<1>4. ASSUME NEW w \in Workers, Register(w) \/ EraseCredentials(w) PROVE Narrows(used, vault, used', vault')
  <2>1. used' = used /\ (vault' = vault \/ vault' = [vault EXCEPT ![job[w].id] = None])
    BY <1>4 DEF Register, EraseCredentials
  <2> QED
    BY <1>1, <2>1 DEF Narrows
<1> QED
  BY <1>2, <1>3, <1>4 DEF Next, vars, store, Move, Restart, Refresh, CollectPrimary, ListDevices,
     CollectDevice, CopyProbes, Publish, Probe, CheckTarget, CheckRegistered, Unregister

\* What was observed stays so, whatever is done to registry, vault and lab.
LEMMA TruthStays ==
  ASSUME NEW u, NEW v, NEW u2, NEW v2, Narrows(u, v, u2, v2), NEW l, NEW l2,
         NEW j, Truthful(j, u, v, l), NEW i,
         i.seen = j.seen, j.times \subseteq i.times, ToSet(i.left) \subseteq u2,
         i.pc \in Refreshing => l2 \in i.times
  PROVE  Truthful(i, u2, v2, l2)
<1> SUFFICES ASSUME NEW k \in DOMAIN i.seen
             PROVE  /\ i.seen[k].device \in u2 \cup {Primary}
                    /\ Witnessed(i.seen[k], i.times, v2)
  BY DEF Truthful
<1> DEFINE o == j.seen[k]
<1>1. i.seen[k] = o /\ o.device \in u \cup {Primary} /\ Witnessed(o, j.times, v)
  BY DEF Truthful
<1> HIDE DEF o
<1>2. o.device # Primary => v2[o.device] \in {v[o.device], None}
  BY <1>1 DEF Narrows
<1>3. Witnessed(o, i.times, v2)
  BY <1>1, <1>2 DEF Witnessed
<1> QED
  BY <1>1, <1>3 DEF Narrows

LEMMA RestIsTruthful ==
  ASSUME NEW u, NEW v, NEW l
  PROVE  Truthful(Rest, u, v, l)
BY DEF Truthful, Rest, Refreshing, ToSet

LEMMA SeenStep ==
  ASSUME LabInv, SeenInv, Narrows(used, vault, used', vault'), NEW w \in Workers, NEW j,
         Truthful(j, used', vault', lab'), job' = [job EXCEPT ![w] = j], lab' = lab
  PROVE  SeenInv'
<1> SUFFICES ASSUME NEW x \in Workers PROVE Truthful(job'[x], used', vault', lab')
  BY DEF SeenInv
<1>1. job'[x] = IF x = w THEN j ELSE job[x]
  BY DEF LabInv, Shape
<1>2. Truthful(job[x], used, vault, lab)
  BY DEF SeenInv
<1>3. ToSet(job[x].left) \subseteq used' /\ (job[x].pc \in Refreshing => lab' \in job[x].times)
  BY <1>2 DEF Truthful, Narrows
<1>4. Truthful(job[x], used', vault', lab')
  BY <1>2, <1>3, TruthStays
<1> QED
  BY <1>1, <1>4

\* A command that is not supported is told from every other by its end.
LEMMA UnsupportedIsTold ==
  ASSUME NEW m, NEW ended \in {Ended(m)} \cup Spoiled(m), NEW c \in Commands,
         ended[c] = "unsupported"
  PROVE  c \in lab[m].unsupported
<1>1. Classified({"rows"}) = "observed"
  BY DEF Classified
<1>2. Ended(m)[c] = "unsupported" => c \in lab[m].unsupported
  BY <1>1 DEF Ended
<1> QED
  BY <1>2, SpoiledFits

LEMMA GatheredIsWitnessed ==
  ASSUME NEW m \in Machines, NEW i, NEW o \in Gathered(i, m),
         i = Primary => m = PrimaryMachine,
         i # Primary => vault[i] \in {m, None},
         NEW times, lab \in times
  PROVE  o.device = i /\ Witnessed(o, times, vault)
<1>1. CASE o = Unreachable(i)
  BY <1>1 DEF Unreachable, Witnessed
<1>2. ASSUME NEW ended \in {Ended(m)} \cup Spoiled(m), o = Observation(i, m, ended)
      PROVE  o.device = i /\ Witnessed(o, times, vault)
  <2>1. o.device = i /\ o.ended = ended /\ o.shown = lab[m].shown
    BY <1>2 DEF Observation
  <2>2. \A c \in Commands : o.ended[c] = "unsupported" => c \in lab[m].unsupported
    BY <2>1, UnsupportedIsTold
  <2> QED
    BY <2>1, <2>2 DEF Witnessed
<1> QED
  BY <1>1, <1>2 DEF Gathered

\* A job that noted one more observation that is true is still truthful.
LEMMA NotedIsTruthful ==
  ASSUME NEW j \in Jobs, NEW r \in Jobs, NEW o \in Observations,
         Truthful(j, used, vault, lab), r.seen = j.seen, r.times = j.times,
         ToSet(r.left) \subseteq used, lab \in j.times,
         o.device \in used \cup {Primary}, Witnessed(o, j.times, vault)
  PROVE  Truthful(Noted(r, o), used, vault, lab)
<1> DEFINE n == Noted(r, o)
<1>1. n.seen = Append(j.seen, o) /\ n.times = j.times /\ n.left = r.left
  BY NotedFits
<1>2. j.seen \in Seq(Observations)
  BY DEF Jobs
<1> HIDE DEF n
<1>3. /\ DOMAIN Append(j.seen, o) = 1..Len(j.seen) + 1 /\ DOMAIN j.seen = 1..Len(j.seen)
      /\ Len(j.seen) \in Nat /\ Append(j.seen, o)[Len(j.seen) + 1] = o
      /\ \A k \in 1..Len(j.seen) : Append(j.seen, o)[k] = j.seen[k]
  BY <1>2, AppendProperties
<1>4. ASSUME NEW k \in DOMAIN Append(j.seen, o)
      PROVE  \/ Append(j.seen, o)[k] = o
             \/ k \in DOMAIN j.seen /\ Append(j.seen, o)[k] = j.seen[k]
  <2>1. k = Len(j.seen) + 1 \/ k \in 1..Len(j.seen)
    BY <1>3
  <2> QED
    BY <1>3, <2>1
<1>5. ASSUME NEW k \in DOMAIN n.seen
      PROVE  n.seen[k].device \in used \cup {Primary} /\ Witnessed(n.seen[k], n.times, vault)
  <2>1. \/ n.seen[k] = o
        \/ k \in DOMAIN j.seen /\ n.seen[k] = j.seen[k]
    BY <1>1, <1>4
  <2> QED
    BY <1>1, <2>1 DEF Truthful
<1>6. Truthful(n, used, vault, lab)
  BY <1>1, <1>5 DEF Truthful
<1> QED
  BY <1>6 DEF n

LEMMA CollectedIsTruthful ==
  ASSUME LabInv, SeenInv, NEW w \in Workers, CollectPrimary(w) \/ CollectDevice(w)
  PROVE  \E j : Truthful(j, used, vault, lab) /\ job' = [job EXCEPT ![w] = j]
<1>1. job[w] \in Jobs /\ Truthful(job[w], used, vault, lab) /\ lab \in Situations
      /\ used \subseteq Ids /\ vault \in [Ids -> Machines \cup {None}]
  BY DEF LabInv, Shape, SeenInv
<1>2. lab \in job[w].times
  BY <1>1 DEF Truthful, Refreshing, CollectPrimary, CollectDevice
<1>3. CASE CollectPrimary(w)
  <2> DEFINE r == [job[w] EXCEPT !.pc = "list"]
  <2>1. r \in Jobs /\ r.seen = job[w].seen /\ r.times = job[w].times /\ r.left = job[w].left
    BY <1>1 DEF Jobs, Pcs
  <2>2. PICK o \in Gathered(Primary, PrimaryMachine) : job' = [job EXCEPT ![w] = Noted(r, o)]
    BY <1>3, CollectGathers DEF CollectPrimary
  <2> HIDE DEF r
  <2>3. o \in Observations /\ o.device = Primary /\ Witnessed(o, job[w].times, vault)
    BY <1>1, <1>2, PrimaryFits, GatheredFits, GatheredIsWitnessed
  <2>4. ToSet(r.left) \subseteq used
    BY <1>1, <2>1 DEF Truthful
  <2>5. Truthful(Noted(r, o), used, vault, lab)
    BY <1>1, <1>2, <2>1, <2>3, <2>4, NotedIsTruthful
  <2> QED
    BY <2>2, <2>5
<1>4. CASE CollectDevice(w)
  <2> DEFINE i == Head(job[w].left)
             r == [job[w] EXCEPT !.left = Tail(job[w].left)]
  <2>1. job[w].left \in Seq(Ids) /\ job[w].left # <<>> /\ ToSet(job[w].left) \subseteq used
    BY <1>1, <1>4 DEF CollectDevice, Jobs, Truthful
  <2>2. i \in used /\ ToSet(Tail(job[w].left)) \subseteq used /\ Tail(job[w].left) \in Seq(Ids)
    BY <2>1 DEF ToSet
  <2>3. i \in Ids /\ i # Primary
    BY <1>1, <2>2, LabGraphAssumption
  <2>4. r \in Jobs /\ r.seen = job[w].seen /\ r.times = job[w].times /\ ToSet(r.left) \subseteq used
    BY <1>1, <2>2 DEF Jobs
  <2>5. \E m \in Machines : /\ vault[i] \in {m, None}
                           /\ \E o \in Gathered(i, m) : job' = [job EXCEPT ![w] = Noted(r, o)]
    <3>1. CASE vault[i] = None
      <4>1. Unreachable(i) \in Gathered(i, PrimaryMachine)
        BY DEF Gathered
      <4> QED
        BY <1>4, <3>1, <4>1, PrimaryFits DEF CollectDevice
    <3>2. CASE vault[i] # None
      <4>1. vault[i] \in Machines
        BY <1>1, <2>3, <3>2
      <4>2. Collect(w, i, vault[i], r)
        BY <1>4, <3>2 DEF CollectDevice
      <4> HIDE DEF i, r
      <4>3. \E o \in Gathered(i, vault[i]) : job' = [job EXCEPT ![w] = Noted(r, o)]
        BY <4>2, CollectGathers
      <4> QED
        BY <4>1, <4>3
    <3> QED
      BY <3>1, <3>2
  <2> HIDE DEF i, r
  <2>6. PICK m \in Machines : /\ vault[i] \in {m, None}
                            /\ \E o \in Gathered(i, m) : job' = [job EXCEPT ![w] = Noted(r, o)]
    BY <2>5
  <2>7. PICK o \in Gathered(i, m) : job' = [job EXCEPT ![w] = Noted(r, o)]
    BY <2>6
  <2>8. o \in Observations /\ o.device = i /\ Witnessed(o, job[w].times, vault)
    BY <1>1, <1>2, <2>3, <2>6, GatheredFits, GatheredIsWitnessed
  <2>9. Truthful(Noted(r, o), used, vault, lab)
    BY <1>1, <1>2, <2>2, <2>4, <2>8, NotedIsTruthful
  <2> QED
    BY <2>7, <2>9
<1> QED
  BY <1>3, <1>4

\* A job of which only the step, the identifier or the list changed.
LEMMA GoesOn ==
  ASSUME LabInv, SeenInv, Narrows(used, vault, used', vault'), NEW w \in Workers, NEW i,
         job' = [job EXCEPT ![w] = i], lab' = lab, i.seen = job[w].seen,
         i.times = job[w].times, i.left \in {registry, job[w].left},
         i.pc \in Refreshing => job[w].pc \in Refreshing
  PROVE  SeenInv'
<1>1. Truthful(job[w], used, vault, lab) /\ ToSet(registry) \subseteq used
  BY DEF LabInv, Shape, SeenInv
<1>2. ToSet(i.left) \subseteq used' /\ (i.pc \in Refreshing => lab' \in i.times)
  BY <1>1 DEF Truthful, Narrows
<1>3. Truthful(i, used', vault', lab')
  BY <1>1, <1>2, TruthStays
<1> QED
  BY <1>3, SeenStep

LEMMA SeenKept == LabInv /\ SeenInv /\ [Next]_vars => SeenInv'
<1> SUFFICES ASSUME LabInv, SeenInv, [Next]_vars PROVE SeenInv'
  OBVIOUS
<1>1. Narrows(used, vault, used', vault')
  BY VaultNarrows
<1>2. job \in [Workers -> Jobs]
  BY DEF LabInv, Shape
<1>3. ASSUME NEW w \in Workers, job' = [job EXCEPT ![w] = Rest], lab' = lab PROVE SeenInv'
  BY <1>1, <1>3, RestIsTruthful, SeenStep
<1>4. ASSUME NEW w \in Workers, Refresh(w) PROVE SeenInv'
  <2> DEFINE j == [Rest EXCEPT !.pc = "primary", !.times = {lab}]
  <2>1. j.left = <<>> /\ j.seen = <<>> /\ j.times = {lab}
    BY DEF Rest
  <2>2. job' = [job EXCEPT ![w] = j] /\ UNCHANGED <<lab, used, vault>>
    BY <1>4 DEF Refresh, store
  <2> HIDE DEF j
  <2>3. Truthful(j, used', vault', lab')
    BY <2>1, <2>2 DEF Truthful, ToSet
  <2> QED
    BY <1>1, <2>2, <2>3, SeenStep
<1>5. ASSUME NEW w \in Workers, CollectPrimary(w) \/ CollectDevice(w) PROVE SeenInv'
  <2>1. PICK j : Truthful(j, used, vault, lab) /\ job' = [job EXCEPT ![w] = j]
    BY <1>5, CollectedIsTruthful
  <2>2. UNCHANGED <<lab, used, vault>>
    BY <1>5 DEF CollectPrimary, CollectDevice, store
  <2> QED
    BY <1>1, <2>1, <2>2, SeenStep
<1>6. ASSUME NEW w \in Workers, ListDevices(w) PROVE SeenInv'
  <2>1. PICK l \in {registry, job[w].left} :
          job' = [job EXCEPT ![w] = [job[w] EXCEPT !.pc = "collect", !.left = l]]
    <3>1. [job[w] EXCEPT !.pc = "collect", !.left = job[w].left]
            = [job[w] EXCEPT !.pc = "collect"]
      BY <1>2 DEF Jobs
    <3> QED
      BY <1>6, <3>1 DEF ListDevices
  <2> DEFINE j == [job[w] EXCEPT !.pc = "collect", !.left = l]
  <2>2. j.left = l /\ j.seen = job[w].seen /\ j.times = job[w].times
    BY <1>2 DEF Jobs
  <2>3. lab' = lab /\ job[w].pc \in Refreshing
    BY <1>6 DEF ListDevices, Refreshing
  <2>4. job' = [job EXCEPT ![w] = j]
    BY <2>1
  <2> HIDE DEF j
  <2> QED
    BY <1>1, <2>2, <2>3, <2>4, GoesOn
<1>7. ASSUME NEW w \in Workers, CopyProbes(w) PROVE SeenInv'
  <2> DEFINE j == [job[w] EXCEPT !.pc = "publish", !.probes = probes]
  <2>1. j.left = job[w].left /\ j.seen = job[w].seen /\ j.times = job[w].times
    BY <1>2 DEF Jobs
  <2>2. job' = [job EXCEPT ![w] = j] /\ lab' = lab /\ job[w].pc \in Refreshing
    BY <1>2, <1>7 DEF CopyProbes, Refreshing
  <2> HIDE DEF j
  <2> QED
    BY <1>1, <2>1, <2>2, GoesOn
<1>8. ASSUME NEW w \in Workers, (\E m \in Machines : CheckTarget(w, m))
                              \/ (\E i \in Ids : CheckRegistered(w, i))
      PROVE  SeenInv'
  <2>1. PICK j : /\ job' = [job EXCEPT ![w] = j]
                 /\ \/ \E m \in Machines : j = [Rest EXCEPT !.pc = "save", !.machine = m,
                                                           !.known = registry]
                    \/ \E i \in Ids : j = [Rest EXCEPT !.pc = "erase", !.id = i]
    BY <1>8 DEF CheckTarget, CheckRegistered
  <2>2. /\ j.left = Rest.left /\ j.seen = Rest.seen /\ j.times = Rest.times
        /\ j.pc \notin Refreshing
    BY <2>1 DEF Rest, Refreshing
  <2>3. lab' = lab /\ job[w] = Rest
    BY <1>8 DEF CheckTarget, CheckRegistered, Asked
  <2> QED
    BY <1>1, <2>1, <2>2, <2>3, GoesOn
<1>9. ASSUME NEW w \in Workers, NEW i, job' = [job EXCEPT ![w].pc = "register", ![w].id = i],
             lab' = lab
      PROVE  SeenInv'
  <2> DEFINE j == [job[w] EXCEPT !.pc = "register", !.id = i]
  <2>1. /\ j.left = job[w].left /\ j.seen = job[w].seen /\ j.times = job[w].times
        /\ j.pc \notin Refreshing
    BY <1>2 DEF Jobs, Refreshing
  <2>2. job' = [job EXCEPT ![w] = j]
    BY <1>2, <1>9
  <2> HIDE DEF j
  <2> QED
    BY <1>1, <1>9, <2>1, <2>2, GoesOn
<1>10. ASSUME NEW w \in Workers, job' = [job EXCEPT ![w].pc = "unregister"], lab' = lab
       PROVE  SeenInv'
  <2> DEFINE j == [job[w] EXCEPT !.pc = "unregister"]
  <2>1. /\ j.left = job[w].left /\ j.seen = job[w].seen /\ j.times = job[w].times
        /\ j.pc \notin Refreshing
    BY <1>2 DEF Jobs, Refreshing
  <2>2. job' = [job EXCEPT ![w] = j]
    BY <1>2, <1>10
  <2> HIDE DEF j
  <2> QED
    BY <1>1, <1>10, <2>1, <2>2, GoesOn
<1>11. CASE Restart
  BY <1>11, RestIsTruthful DEF Restart, SeenInv
<1>12. CASE Move
  <2> SUFFICES ASSUME NEW w \in Workers PROVE Truthful(job'[w], used', vault', lab')
    BY DEF SeenInv
  <2>1. job[w] \in Jobs /\ Truthful(job[w], used, vault, lab)
    BY <1>2 DEF SeenInv
  <2>2. job'[w] = IF job[w].times = {} THEN job[w]
                  ELSE [job[w] EXCEPT !.times = job[w].times \cup {lab'}]
    BY <1>12 DEF Move
  <2>3. /\ job'[w].left = job[w].left /\ job'[w].seen = job[w].seen
        /\ job[w].times \subseteq job'[w].times /\ job'[w].pc = job[w].pc
        /\ job[w].times # {} => lab' \in job'[w].times
    BY <2>1, <2>2 DEF Jobs
  <2>4. job[w].pc \in Refreshing => job[w].times # {}
    BY <2>1 DEF Truthful
  <2>5. ToSet(job'[w].left) \subseteq used'
    BY <1>1, <2>1, <2>3 DEF Truthful, Narrows
  <2> QED
    BY <1>1, <2>1, <2>3, <2>4, <2>5, TruthStays
<1>13. CASE UNCHANGED <<lab, used, vault, job>>
  BY <1>13 DEF SeenInv
<1> QED
  BY <1>3, <1>4, <1>5, <1>6, <1>7, <1>8, <1>9, <1>10, <1>11, <1>12, <1>13
  DEF Next, vars, store, Publish, Probe, SaveCredentials, Register, EraseCredentials, Unregister

\* Only a refresh that ends replaces the observations of the state.
LEMMA OnlyPublishReplaces ==
  ASSUME Next
  PROVE  \/ \E w \in Workers : Publish(w)
         \/ published'.observations \in {<<>>, published.observations}
<1>1. ASSUME NEW w \in Workers, Probe(w) PROVE published'.observations = published.observations
  BY <1>1 DEF Probe
<1>2. Restart => published'.observations = <<>>
  BY DEF Restart
<1>3. \/ published' = published \/ Restart
      \/ \E w \in Workers : Probe(w) \/ Publish(w)
  BY DEF Next, Move, Refresh, CollectPrimary, ListDevices, CollectDevice, CopyProbes,
     CheckTarget, CheckRegistered, SaveCredentials, Register, EraseCredentials, Unregister
<1> QED
  BY <1>1, <1>2, <1>3

\* Whatever commands fail, and whatever changes on the machines and in the
\* registry while a refresh collects them: a feature is called unsupported, or
\* a protection absent, only if it was at some time of that refresh
\* (classify_command_output, _capabilities, _findings).
THEOREM AbsenceIsObserved == Spec => FailureIsNotAbsence
<1> DEFINE Absent ==
       published'.observations \notin {<<>>, published.observations} =>
         \A k \in DOMAIN published'.observations :
           LET o == published'.observations[k]
               m == IF o.device = Primary THEN PrimaryMachine ELSE vault[o.device]
           IN m # None =>
                /\ \A c \in Capabilities(o) : c.state = "UNSUPPORTED" =>
                     \E t \in published'.times : c.name \in t[m].unsupported
                /\ \A f \in ProtectionFindings(o) :
                     \E t \in published'.times : f.about \notin t[m].shown.config.features
<1>1. ASSUME LabInv, SeenInv, Next PROVE Absent
  <2>1. ASSUME NEW o, NEW times, o.device \in Ids \cup {Primary}, Witnessed(o, times, vault),
               NEW m, m = IF o.device = Primary THEN PrimaryMachine ELSE vault[o.device],
               m # None
        PROVE  /\ \A c \in Capabilities(o) : c.state = "UNSUPPORTED" =>
                    \E t \in times : c.name \in t[m].unsupported
               /\ \A f \in ProtectionFindings(o) :
                    \E t \in times : f.about \notin t[m].shown.config.features
    <3>1. CASE \A c \in Commands : o.ended[c] = "transport_failed"
      <4>1. ProtectionFindings(o) = {}
        BY <3>1 DEF ProtectionFindings, Commands
      <4>2. \A c \in Capabilities(o) : c.state # "UNSUPPORTED"
        <5>1. \A c \in CapabilityCommands : CapabilityState(o, c) # "UNSUPPORTED"
          BY <3>1 DEF CapabilityState, CapabilityCommands, Commands
        <5> QED
          BY <5>1 DEF Capabilities
      <4> QED
        BY <4>1, <4>2
    <3>2. ASSUME NEW t \in times, o.shown = t[m].shown,
                 \A c \in Commands : o.ended[c] = "unsupported" => c \in t[m].unsupported
          PROVE  /\ \A c \in Capabilities(o) : c.state = "UNSUPPORTED" =>
                      c.name \in t[m].unsupported
                 /\ \A f \in ProtectionFindings(o) : f.about \notin t[m].shown.config.features
      <4>1. \A c \in CapabilityCommands :
              CapabilityState(o, c) = "UNSUPPORTED" => c \in t[m].unsupported
        BY <3>2 DEF CapabilityState, CapabilityCommands, Commands
      <4>2. \A c \in Capabilities(o) : c.state = "UNSUPPORTED" => c.name \in t[m].unsupported
        BY <4>1 DEF Capabilities
      <4>3. o.ended["config"] = "observed" => Part(o, "config") = t[m].shown["config"]
        BY <3>2 DEF Part
      <4>4. \A f \in ProtectionFindings(o) : f.about \notin t[m].shown.config.features
        BY <4>3 DEF ProtectionFindings
      <4> QED
        BY <4>2, <4>4
    <3> QED
      BY <2>1, <3>1, <3>2 DEF Witnessed
  <2>2. ASSUME NEW w \in Workers, Publish(w) PROVE Absent
    <3>1. published'.observations = job[w].seen /\ published'.times = job[w].times
      BY <2>2 DEF Publish
    <3>2. \A k \in DOMAIN job[w].seen : /\ job[w].seen[k].device \in Ids \cup {Primary}
                                        /\ Witnessed(job[w].seen[k], job[w].times, vault)
      BY <1>1 DEF SeenInv, Truthful, LabInv, Shape
    <3> QED
      BY <2>1, <3>1, <3>2
  <2>3. ASSUME published'.observations \in {<<>>, published.observations} PROVE Absent
    BY <2>3
  <2> HIDE DEF Absent
  <2> QED
    BY <1>1, <2>2, <2>3, OnlyPublishReplaces
<1>2. LabInv /\ SeenInv /\ [Next]_vars => [Absent]_vars
  BY <1>1
<1>3. Init => SeenInv
  BY RestIsTruthful DEF Init, SeenInv
<1> QED
  BY <1>2, <1>3, SeenKept, LabKept, InitLab, PTL DEF Spec, FailureIsNotAbsence

-----------------------------------------------------------------------------
(* Induction, with sets for the operators that the provers cannot take *)

LEMMA Least ==
  ASSUME NEW T \in SUBSET Nat, T # {}
  PROVE  \E n \in T : \A m \in T : ~(m < n)
<1>1. PICK n \in T : \A m \in T : <<m, n>> \notin OpToRel(<, Nat)
  BY NatLessThanWellFounded, WFMin
<1> QED
  BY <1>1 DEF OpToRel

LEMMA Induction ==
  ASSUME NEW S, 0 \in S, \A n \in Nat : n \in S => n + 1 \in S
  PROVE  Nat \subseteq S
<1> SUFFICES ASSUME Nat \ S # {} PROVE FALSE
  OBVIOUS
<1>1. PICK n \in Nat \ S : \A m \in Nat \ S : ~(m < n)
  BY Least
<1>2. n # 0 /\ n - 1 \in Nat /\ n - 1 < n /\ (n - 1) + 1 = n
  BY <1>1
<1>3. n - 1 \in S
  BY <1>1, <1>2
<1> QED
  BY <1>1, <1>2, <1>3

LEMMA Most ==
  ASSUME NEW n \in Nat, NEW T \in SUBSET (1..n), T # {}
  PROVE  \E m \in T : \A k \in T : k <= m
<1> DEFINE D == {d \in Nat : n - d \in T}
<1>1. ASSUME NEW k \in T PROVE n - k \in D /\ k \in 1..n
  <2>1. k \in 1..n
    OBVIOUS
  <2>2. n - k \in Nat /\ n - (n - k) = k
    BY <2>1
  <2> QED
    BY <2>1, <2>2
<1>2. D # {}
  BY <1>1
<1>3. PICK d \in D : \A e \in D : ~(e < d)
  BY <1>2, Least
<1>4. ASSUME NEW k \in T PROVE k <= n - d
  <2>1. n - k \in D /\ k \in 1..n /\ ~(n - k < d)
    BY <1>1, <1>3
  <2> QED
    BY <2>1
<1> QED
  BY <1>4

-----------------------------------------------------------------------------
(* What can be reached *)

Nearing(near, start, edges, N) ==
  near = [n \in 0..N |-> IF n = 0 THEN {start}
                         ELSE near[n - 1] \cup Neighbours(near[n - 1], edges)]

\* The recursion of Within has a solution.
LEMMA NearExists ==
  ASSUME NEW start, NEW edges, NEW N \in Nat
  PROVE  \E near : Nearing(near, start, edges, N)
<1> DEFINE S == {m \in Nat : \E g : Nearing(g, start, edges, m)}
<1>1. 0 \in S
  <2> DEFINE g == [n \in 0..0 |-> {start}]
  <2>1. Nearing(g, start, edges, 0)
    BY DEF Nearing
  <2> QED
    BY <2>1
<1>2. ASSUME NEW m \in Nat, m \in S PROVE m + 1 \in S
  <2>1. PICK g : Nearing(g, start, edges, m)
    BY <1>2
  <2> DEFINE h == [n \in 0..m + 1 |-> IF n = m + 1 THEN g[m] \cup Neighbours(g[m], edges)
                                      ELSE g[n]]
  <2>2. ASSUME NEW n \in 0..m + 1
        PROVE  h[n] = IF n = 0 THEN {start} ELSE h[n - 1] \cup Neighbours(h[n - 1], edges)
    <3>1. CASE n = m + 1
      <4>1. h[n] = g[m] \cup Neighbours(g[m], edges) /\ n # 0 /\ n - 1 = m
        BY <3>1
      <4>2. h[m] = g[m]
        OBVIOUS
      <4> QED
        BY <4>1, <4>2
    <3>2. CASE n # m + 1
      <4>1. n \in 0..m /\ h[n] = g[n] /\ (n # 0 => n - 1 \in 0..m /\ h[n - 1] = g[n - 1])
        BY <3>2
      <4>2. g[n] = IF n = 0 THEN {start} ELSE g[n - 1] \cup Neighbours(g[n - 1], edges)
        BY <2>1, <4>1 DEF Nearing
      <4> QED
        BY <4>1, <4>2
    <3> QED
      BY <3>1, <3>2
  <2>3. h = [n \in 0..m + 1 |-> h[n]]
    OBVIOUS
  <2> HIDE DEF h
  <2>4. Nearing(h, start, edges, m + 1)
    BY <2>2, <2>3 DEF Nearing
  <2> QED
    BY <2>4
<1> HIDE DEF S
<1>3. N \in S
  BY <1>1, <1>2, Induction
<1> QED
  BY <1>3 DEF S

LEMMA WithinFits ==
  ASSUME NEW start, NEW edges, IsFiniteSet(edges)
  PROVE  /\ Cardinality(edges) \in Nat
         /\ DOMAIN Within(start, edges) = 0..Cardinality(edges)
         /\ Within(start, edges)[0] = {start}
         /\ \A n \in 1..Cardinality(edges) :
              Within(start, edges)[n]
                = Within(start, edges)[n - 1] \cup Neighbours(Within(start, edges)[n - 1], edges)
<1> DEFINE N == Cardinality(edges)
           W == Within(start, edges)
<1>1. N \in Nat
  BY FS_CardinalityType
<1>2. Nearing(W, start, edges, N)
  <2>1. \E near : Nearing(near, start, edges, N)
    BY <1>1, NearExists
  <2>2. W = CHOOSE near : Nearing(near, start, edges, N)
    BY DEF Within, Nearing
  <2> HIDE DEF N, W
  <2> QED
    BY <2>1, <2>2, Zenon
<1> HIDE DEF N, W
<1>3. DOMAIN W = 0..N /\ W[0] = {start}
  BY <1>1, <1>2 DEF Nearing
<1>4. ASSUME NEW n \in 1..N PROVE W[n] = W[n - 1] \cup Neighbours(W[n - 1], edges)
  <2>1. n \in 0..N /\ n # 0
    BY <1>1
  <2> QED
    BY <1>2, <2>1 DEF Nearing
<1> QED
  BY <1>1, <1>3, <1>4 DEF N, W

LEMMA NearGrows ==
  ASSUME NEW start, NEW edges, IsFiniteSet(edges),
         NEW n \in 0..Cardinality(edges), NEW m \in 0..Cardinality(edges), n <= m
  PROVE  Within(start, edges)[n] \subseteq Within(start, edges)[m]
<1> DEFINE N == Cardinality(edges)
           W == Within(start, edges)
           S == {d \in Nat : n + d <= N => W[n] \subseteq W[n + d]}
<1>1. N \in Nat /\ \A k \in 1..N : W[k] = W[k - 1] \cup Neighbours(W[k - 1], edges)
  BY WithinFits
<1>2. n \in Nat /\ m \in Nat /\ m <= N /\ n <= N
  BY <1>1
<1> HIDE DEF N, W
<1>3. 0 \in S
  BY <1>2
<1>4. ASSUME NEW d \in Nat, d \in S PROVE d + 1 \in S
  <2> SUFFICES ASSUME n + (d + 1) <= N PROVE W[n] \subseteq W[n + (d + 1)]
    OBVIOUS
  <2>1. n + (d + 1) \in 1..N /\ (n + (d + 1)) - 1 = n + d /\ n + d <= N
    BY <1>1, <1>2
  <2>2. W[n + (d + 1)] = W[n + d] \cup Neighbours(W[n + d], edges)
    BY <1>1, <2>1
  <2> QED
    BY <1>4, <2>1, <2>2
<1> HIDE DEF S
<1>5. m - n \in S
  BY <1>2, <1>3, <1>4, Induction
<1>6. n + (m - n) = m
  BY <1>2
<1> QED
  BY <1>2, <1>5, <1>6 DEF S, N, W

\* One end of an edge is in a set and the other is not.
Escapes(S, e) == (e.from \in S \/ e.to \in S) /\ ~(e.from \in S /\ e.to \in S)

LEMMA NobodyEscapes ==
  ASSUME NEW S, NEW edges
  PROVE  (Neighbours(S, edges) \subseteq S) <=> ~ \E e \in edges : Escapes(S, e)
BY DEF Neighbours, Escapes

\* Within as many steps as there are edges everything is reached: as long as
\* something is not, every step takes in an edge that no step before did.
LEMMA ReachableIsClosed ==
  ASSUME NEW start, NEW edges, IsFiniteSet(edges)
  PROVE  /\ start \in Reachable(start, edges)
         /\ Neighbours(Reachable(start, edges), edges) \subseteq Reachable(start, edges)
<1> DEFINE N == Cardinality(edges)
           W == Within(start, edges)
<1>1. /\ N \in Nat /\ W[0] = {start}
      /\ \A k \in 1..N : W[k] = W[k - 1] \cup Neighbours(W[k - 1], edges)
  BY WithinFits
<1>2. \A n, m \in 0..N : n <= m => W[n] \subseteq W[m]
  BY NearGrows
<1>3. Reachable(start, edges) = W[N]
  BY DEF Reachable
<1> HIDE DEF N, W
<1>4. start \in W[N]
  <2>1. 0 \in 0..N /\ N \in 0..N /\ 0 <= N
    BY <1>1
  <2> QED
    BY <1>1, <1>2, <2>1
<1>5. ASSUME ~(Neighbours(W[N], edges) \subseteq W[N]) PROVE FALSE
  <2>1. ASSUME NEW n \in 0..N PROVE \E e \in edges : Escapes(W[n], e)
    <3> SUFFICES ASSUME Neighbours(W[n], edges) \subseteq W[n] PROVE FALSE
      BY NobodyEscapes
    <3> DEFINE S == {d \in Nat : n + d <= N => W[n + d] = W[n]}
    <3>1. n \in Nat /\ n <= N
      BY <1>1
    <3>2. 0 \in S
      BY <3>1
    <3>3. ASSUME NEW d \in Nat, d \in S PROVE d + 1 \in S
      <4> SUFFICES ASSUME n + (d + 1) <= N PROVE W[n + (d + 1)] = W[n]
        OBVIOUS
      <4>1. n + (d + 1) \in 1..N /\ (n + (d + 1)) - 1 = n + d /\ n + d <= N
        BY <1>1, <3>1
      <4>2. W[n + (d + 1)] = W[n + d] \cup Neighbours(W[n + d], edges)
        BY <1>1, <4>1
      <4>3. W[n + d] = W[n]
        BY <3>3, <4>1
      <4> QED
        BY <4>2, <4>3
    <3> HIDE DEF S
    <3>4. N - n \in S
      BY <1>1, <3>1, <3>2, <3>3, Induction
    <3>5. n + (N - n) = N
      BY <1>1, <3>1
    <3>6. W[N] = W[n]
      BY <1>1, <3>4, <3>5 DEF S
    <3> QED
      BY <1>5, <3>6
  <2> DEFINE f == [n \in 0..N |-> CHOOSE e \in edges : Escapes(W[n], e)]
  <2>2. ASSUME NEW n \in 0..N PROVE f[n] \in edges /\ Escapes(W[n], f[n])
    <3> HIDE DEF Escapes
    <3>1. (CHOOSE e \in edges : Escapes(W[n], e)) \in edges
          /\ Escapes(W[n], CHOOSE e \in edges : Escapes(W[n], e))
      BY <2>1, Zenon
    <3> QED
      BY <3>1
  <2>3. f \in [0..N -> edges]
    BY <2>2
  <2>4. Cardinality(edges) < Cardinality(0..N) /\ IsFiniteSet(0..N)
    <3>1. 0 \in Int /\ N \in Int
      BY <1>1
    <3>2. IsFiniteSet(0..N) /\ Cardinality(0..N) = IF 0 > N THEN 0 ELSE N - 0 + 1
      BY <3>1, FS_Interval
    <3> QED
      BY <1>1, <3>2 DEF N
  <2> HIDE DEF f
  <2>5. PICK n \in 0..N, m \in 0..N : n # m /\ f[n] = f[m]
    BY <2>3, <2>4, FS_PigeonHole
  <2>6. ASSUME NEW k \in 0..N, NEW l \in 0..N, k < l, f[k] = f[l] PROVE FALSE
    <3>1. k + 1 \in 1..N /\ (k + 1) - 1 = k /\ k + 1 \in 0..N /\ k + 1 <= l
      BY <1>1, <2>6
    <3>2. W[k + 1] = W[k] \cup Neighbours(W[k], edges)
      BY <1>1, <3>1
    <3>3. f[k].from \in W[k + 1] /\ f[k].to \in W[k + 1]
      BY <2>2, <3>2 DEF Escapes, Neighbours
    <3>4. W[k + 1] \subseteq W[l]
      BY <1>2, <3>1
    <3> QED
      BY <2>2, <2>6, <3>3, <3>4 DEF Escapes
  <2> QED
    BY <1>1, <2>5, <2>6
<1> QED
  BY <1>3, <1>4, <1>5

-----------------------------------------------------------------------------
(* The search of _paths *)

Start(g) == [x \in {g.root} |-> [nodes |-> {x}, edges |-> {}]]
Round(g, t, ways) == IF t \in DOMAIN ways THEN ways ELSE Further(g, ways)

Searching(found, g, t, N) ==
  found = [n \in 0..N |-> IF n = 0 THEN Start(g) ELSE Round(g, t, found[n - 1])]

\* The recursion of Search has a solution.
LEMMA SearchExists ==
  ASSUME NEW g, NEW t, NEW N \in Nat
  PROVE  \E found : Searching(found, g, t, N)
<1> DEFINE S == {m \in Nat : \E f : Searching(f, g, t, m)}
<1>1. 0 \in S
  <2> DEFINE f == [n \in 0..0 |-> Start(g)]
  <2>1. Searching(f, g, t, 0)
    BY DEF Searching
  <2> QED
    BY <2>1
<1>2. ASSUME NEW m \in Nat, m \in S PROVE m + 1 \in S
  <2>1. PICK f : Searching(f, g, t, m)
    BY <1>2
  <2> DEFINE h == [n \in 0..m + 1 |-> IF n = m + 1 THEN Round(g, t, f[m]) ELSE f[n]]
  <2>2. ASSUME NEW n \in 0..m + 1
        PROVE  h[n] = IF n = 0 THEN Start(g) ELSE Round(g, t, h[n - 1])
    <3>1. CASE n = m + 1
      <4>1. h[n] = Round(g, t, f[m]) /\ n # 0 /\ n - 1 = m
        BY <3>1
      <4>2. h[m] = f[m]
        OBVIOUS
      <4> QED
        BY <4>1, <4>2
    <3>2. CASE n # m + 1
      <4>1. n \in 0..m /\ h[n] = f[n] /\ (n # 0 => n - 1 \in 0..m /\ h[n - 1] = f[n - 1])
        BY <3>2
      <4>2. f[n] = IF n = 0 THEN Start(g) ELSE Round(g, t, f[n - 1])
        BY <2>1, <4>1 DEF Searching
      <4> QED
        BY <4>1, <4>2
    <3> QED
      BY <3>1, <3>2
  <2>3. h = [n \in 0..m + 1 |-> h[n]]
    OBVIOUS
  <2> HIDE DEF h
  <2>4. Searching(h, g, t, m + 1)
    BY <2>2, <2>3 DEF Searching
  <2> QED
    BY <2>4
<1> HIDE DEF S
<1>3. N \in S
  BY <1>1, <1>2, Induction
<1> QED
  BY <1>3 DEF S

LEMMA SearchFits ==
  ASSUME NEW g, NEW t, NEW N \in Nat, N = Cardinality(Linking(g))
  PROVE  \E found : /\ found[0] = Start(g)
                    /\ \A n \in 1..N : found[n] = Round(g, t, found[n - 1])
                    /\ Search(g, t) = found[N]
<1> DEFINE F == CHOOSE f : Searching(f, g, t, N)
<1>1. Searching(F, g, t, N)
  <2>1. \E f : Searching(f, g, t, N)
    BY SearchExists
  <2> QED
    BY <2>1, Zenon
<1>2. Search(g, t) = F[N]
  BY DEF Search, Searching, Start, Round
<1> HIDE DEF F
<1>3. F[0] = Start(g)
  BY <1>1 DEF Searching
<1>4. ASSUME NEW n \in 1..N PROVE F[n] = Round(g, t, F[n - 1])
  <2>1. n \in 0..N /\ n # 0
    OBVIOUS
  <2> QED
    BY <1>1, <2>1 DEF Searching
<1> QED
  BY <1>2, <1>3, <1>4

\* A round keeps what was found and adds all that is next to it, each over an
\* edge from something that was found.
Extends(g, further, ways) ==
  /\ DOMAIN further = DOMAIN ways \cup Neighbours(DOMAIN ways, Linking(g))
  /\ \A x \in DOMAIN ways : further[x] = ways[x]
  /\ \A x \in DOMAIN further \ DOMAIN ways :
       \E e \in Linking(g), y \in DOMAIN ways :
         /\ (e.from = y /\ e.to = x) \/ (e.from = x /\ e.to = y)
         /\ further[x] = [nodes |-> ways[y].nodes \cup {x},
                          edges |-> ways[y].edges \cup {e}]

LEMMA FurtherFits ==
  ASSUME NEW g, NEW ways
  PROVE  Extends(g, Further(g, ways), ways)
<1> DEFINE D == DOMAIN ways
           hops == {h \in Hops(g) : h.from \in D /\ h.to \notin D}
           Leads(h, x) == h.to = x
           Hop(x) == CHOOSE h \in hops : Leads(h, x)
           New(x) == [nodes |-> ways[Hop(x).from].nodes \cup {x},
                      edges |-> ways[Hop(x).from].edges \cup {Hop(x).over}]
           further == Further(g, ways)
<1>1. further = [x \in D \cup {h.to : h \in hops} |-> IF x \in D THEN ways[x] ELSE New(x)]
  BY DEF Further
<1>2. ASSUME NEW h \in hops
      PROVE  /\ h.from \in D /\ h.to \notin D /\ h.over \in Linking(g)
             /\ \/ h.over.from = h.from /\ h.over.to = h.to
                \/ h.over.from = h.to /\ h.over.to = h.from
  BY DEF Hops
<1>3. ASSUME NEW e \in Linking(g), NEW y \in D, NEW x, x \notin D,
             (e.from = y /\ e.to = x) \/ (e.from = x /\ e.to = y)
      PROVE  [from |-> y, to |-> x, over |-> e] \in hops
  BY <1>3 DEF Hops
<1> HIDE DEF hops, New
<1>4. {h.to : h \in hops} = Neighbours(D, Linking(g)) \ D
  <2>1. ASSUME NEW h \in hops PROVE h.to \in Neighbours(D, Linking(g)) \ D
    BY <1>2 DEF Neighbours
  <2>2. ASSUME NEW x \in Neighbours(D, Linking(g)), x \notin D
        PROVE  \E h \in hops : h.to = x
    <3>1. PICK e \in Linking(g) : (e.from \in D /\ e.to = x) \/ (e.to \in D /\ e.from = x)
      BY DEF Neighbours
    <3>2. CASE e.from \in D /\ e.to = x
      <4>1. [from |-> e.from, to |-> x, over |-> e] \in hops
        BY <1>3, <2>2, <3>2
      <4> QED
        BY <4>1
    <3>3. CASE e.to \in D /\ e.from = x
      <4>1. [from |-> e.to, to |-> x, over |-> e] \in hops
        BY <1>3, <2>2, <3>3
      <4> QED
        BY <4>1
    <3> QED
      BY <3>1, <3>2, <3>3
  <2> QED
    BY <2>1, <2>2
<1>5. DOMAIN further = D \cup Neighbours(D, Linking(g)) /\ \A x \in D : further[x] = ways[x]
  BY <1>1, <1>4
<1>6. ASSUME NEW x \in DOMAIN further \ D
      PROVE  \E e \in Linking(g), y \in D :
               /\ (e.from = y /\ e.to = x) \/ (e.from = x /\ e.to = y)
               /\ further[x] = [nodes |-> ways[y].nodes \cup {x},
                                edges |-> ways[y].edges \cup {e}]
  <2>1. \E h \in hops : Leads(h, x)
    BY <1>1
  <2>2. Hop(x) \in hops /\ Leads(Hop(x), x)
    <3> HIDE DEF Leads
    <3> QED
      BY <2>1, Zenon
  <2> HIDE DEF Hop
  <2>3. further[x] = [nodes |-> ways[Hop(x).from].nodes \cup {x},
                      edges |-> ways[Hop(x).from].edges \cup {Hop(x).over}]
    BY <1>1 DEF New
  <2>4. /\ Hop(x).from \in D /\ Hop(x).over \in Linking(g) /\ Hop(x).to = x
        /\ \/ Hop(x).over.from = Hop(x).from /\ Hop(x).over.to = Hop(x).to
           \/ Hop(x).over.from = Hop(x).to /\ Hop(x).over.to = Hop(x).from
    BY <1>2, <2>2
  <2> QED
    BY <2>3, <2>4
<1> HIDE DEF further
<1>7. Extends(g, further, ways)
  BY <1>5, <1>6 DEF Extends
<1> QED
  BY <1>7 DEF further

\* Every way leads from the root to the node it is of: its edges have their ends
\* on it, and whatever has the root and is closed under them has the node.
Sound(g, ways) ==
  \A x \in DOMAIN ways :
    /\ x \in ways[x].nodes
    /\ ways[x].edges \subseteq Linking(g)
    /\ \A e \in ways[x].edges : e.from \in ways[x].nodes /\ e.to \in ways[x].nodes
    /\ \A S : g.root \in S /\ Neighbours(S, ways[x].edges) \subseteq S => x \in S

LEMMA StartIsSound ==
  ASSUME NEW g
  PROVE  Sound(g, Start(g)) /\ DOMAIN Start(g) = {g.root}
BY DEF Sound, Start

LEMMA FurtherIsSound ==
  ASSUME NEW g, NEW ways, Sound(g, ways)
  PROVE  Sound(g, Further(g, ways))
<1>0. PICK further : further = Further(g, ways)
  OBVIOUS
<1>1. Extends(g, further, ways)
  BY <1>0, FurtherFits
<1> SUFFICES ASSUME NEW x \in DOMAIN further
             PROVE  /\ x \in further[x].nodes
                    /\ further[x].edges \subseteq Linking(g)
                    /\ \A e \in further[x].edges :
                         e.from \in further[x].nodes /\ e.to \in further[x].nodes
                    /\ \A S : g.root \in S /\ Neighbours(S, further[x].edges) \subseteq S
                                => x \in S
  BY <1>0 DEF Sound
<1>2. CASE x \in DOMAIN ways
  BY <1>1, <1>2 DEF Sound, Extends
<1>3. CASE x \notin DOMAIN ways
  <2>1. PICK e \in Linking(g), y \in DOMAIN ways :
          /\ (e.from = y /\ e.to = x) \/ (e.from = x /\ e.to = y)
          /\ further[x] = [nodes |-> ways[y].nodes \cup {x}, edges |-> ways[y].edges \cup {e}]
    BY <1>1, <1>3 DEF Extends
  <2>2. further[x].nodes = ways[y].nodes \cup {x} /\ further[x].edges = ways[y].edges \cup {e}
    BY <2>1
  <2>3. /\ y \in ways[y].nodes
        /\ ways[y].edges \subseteq Linking(g)
        /\ \A d \in ways[y].edges : d.from \in ways[y].nodes /\ d.to \in ways[y].nodes
        /\ \A S : g.root \in S /\ Neighbours(S, ways[y].edges) \subseteq S => y \in S
    BY DEF Sound
  <2>4. ASSUME NEW S, g.root \in S, Neighbours(S, further[x].edges) \subseteq S PROVE x \in S
    <3>1. Neighbours(S, ways[y].edges) \subseteq Neighbours(S, further[x].edges)
      BY <2>2 DEF Neighbours
    <3>2. y \in S
      BY <2>3, <2>4, <3>1
    <3>3. x \in Neighbours(S, further[x].edges)
      BY <2>1, <2>2, <3>2 DEF Neighbours
    <3> QED
      BY <2>4, <3>3
  <2>5. \A d \in further[x].edges : d.from \in further[x].nodes /\ d.to \in further[x].nodes
    BY <2>1, <2>2, <2>3
  <2> QED
    BY <2>2, <2>3, <2>4, <2>5
<1> QED
  BY <1>2, <1>3

\* The search of _paths finds what that of _reachable finds, and the ways to it.
LEMMA SearchFinds ==
  ASSUME NEW g, NEW t, IsFiniteSet(Linking(g))
  PROVE  /\ Sound(g, Search(g, t))
         /\ t \in Reachable(g.root, Linking(g)) => t \in DOMAIN Search(g, t)
<1> DEFINE N == Cardinality(Linking(g))
           W == Within(g.root, Linking(g))
<1>1. /\ N \in Nat /\ W[0] = {g.root}
      /\ \A k \in 1..N : W[k] = W[k - 1] \cup Neighbours(W[k - 1], Linking(g))
  BY WithinFits
<1>2. Reachable(g.root, Linking(g)) = W[N]
  BY DEF Reachable
<1>3. PICK found : /\ found[0] = Start(g)
                   /\ \A n \in 1..N : found[n] = Round(g, t, found[n - 1])
                   /\ Search(g, t) = found[N]
  BY <1>1, SearchFits
<1> HIDE DEF N, W
<1> DEFINE Good(n) == /\ Sound(g, found[n])
                      /\ t \in DOMAIN found[n] \/ W[n] \subseteq DOMAIN found[n]
           S == {n \in Nat : n <= N => Good(n)}
<1>4. 0 \in S
  BY <1>1, <1>3, StartIsSound
<1>5. ASSUME NEW n \in Nat, n \in S PROVE n + 1 \in S
  <2> SUFFICES ASSUME n + 1 <= N PROVE Good(n + 1)
    OBVIOUS
  <2>1. n + 1 \in 1..N /\ (n + 1) - 1 = n /\ n <= N
    BY <1>1
  <2>2. Good(n)
    BY <1>5, <2>1
  <2>3. found[n + 1] = Round(g, t, found[n])
    BY <1>3, <2>1
  <2>4. W[n + 1] = W[n] \cup Neighbours(W[n], Linking(g))
    BY <1>1, <2>1
  <2>5. CASE t \in DOMAIN found[n]
    BY <2>2, <2>3, <2>5 DEF Round
  <2>6. CASE t \notin DOMAIN found[n]
    <3>1. found[n + 1] = Further(g, found[n])
      BY <2>3, <2>6 DEF Round
    <3>2. Sound(g, found[n + 1])
      BY <2>2, <3>1, FurtherIsSound
    <3>3. DOMAIN found[n + 1]
            = DOMAIN found[n] \cup Neighbours(DOMAIN found[n], Linking(g))
      BY <3>1, FurtherFits DEF Extends
    <3>4. W[n] \subseteq DOMAIN found[n]
      BY <2>2, <2>6
    <3>5. Neighbours(W[n], Linking(g)) \subseteq Neighbours(DOMAIN found[n], Linking(g))
      BY <3>4 DEF Neighbours
    <3> QED
      BY <2>4, <3>2, <3>3, <3>4, <3>5
  <2> QED
    BY <2>5, <2>6
<1> HIDE DEF S
<1>6. N \in S
  BY <1>1, <1>4, <1>5, Induction
<1>7. Good(N)
  BY <1>1, <1>6 DEF S
<1> QED
  BY <1>2, <1>3, <1>7

\* A node is reached over any edges that its way keeps to.
LEMMA WayIsReached ==
  ASSUME NEW g, NEW ways, Sound(g, ways), NEW x \in DOMAIN ways,
         NEW edges, IsFiniteSet(edges), ways[x].edges \subseteq edges
  PROVE  x \in Reachable(g.root, edges)
<1> DEFINE R == Reachable(g.root, edges)
<1>1. g.root \in R /\ Neighbours(R, edges) \subseteq R
  BY ReachableIsClosed
<1> HIDE DEF R
<1>2. Neighbours(R, ways[x].edges) \subseteq Neighbours(R, edges)
  BY DEF Neighbours
<1>3. x \in R
  BY <1>1, <1>2 DEF Sound
<1> QED
  BY <1>3 DEF R

\* The way to another node than the root has an edge at it.
LEMMA WayHasLastEdge ==
  ASSUME NEW g, NEW ways, Sound(g, ways), NEW x \in DOMAIN ways, x # g.root
  PROVE  \E e \in ways[x].edges : x \in {e.from, e.to}
<1> SUFFICES ASSUME \A e \in ways[x].edges : x \notin {e.from, e.to} PROVE FALSE
  OBVIOUS
<1> DEFINE S == (ways[x].nodes \ {x}) \cup {g.root}
<1>1. Neighbours(S, ways[x].edges) \subseteq S
  BY DEF Neighbours, Sound
<1>2. g.root \in S /\ x \notin S
  OBVIOUS
<1> HIDE DEF S
<1> QED
  BY <1>1, <1>2 DEF Sound

\* A path is called proven only if every hop is.
LEMMA WeakestIsProven ==
  ASSUME NEW states \in SUBSET {"PROVEN", "INFERRED", "UNKNOWN"}, states # {},
         Weakest(states) = "PROVEN"
  PROVE  states = {"PROVEN"}
<1> DEFINE Weak(s) == \A r \in states : Weakness(r) <= Weakness(s)
<1>1. \E s \in states : Weak(s)
  <2>1. CASE "UNKNOWN" \in states
    BY <2>1 DEF Weakness
  <2>2. CASE "UNKNOWN" \notin states /\ "INFERRED" \in states
    <3>1. Weak("INFERRED")
      BY <2>2 DEF Weakness
    <3> QED
      BY <2>2, <3>1
  <2>3. CASE states = {"PROVEN"}
    <3>1. Weak("PROVEN")
      BY <2>3 DEF Weakness
    <3> QED
      BY <2>3, <3>1
  <2> QED
    BY <2>1, <2>2, <2>3
<1>2. Weakest(states) = CHOOSE s \in states : Weak(s)
  BY DEF Weakest
<1> HIDE DEF Weak
<1>3. Weakest(states) \in states /\ Weak(Weakest(states))
  BY <1>1, <1>2, Zenon
<1> USE DEF Weak
<1>4. ASSUME NEW r \in states PROVE r = "PROVEN"
  <2>1. Weakness(r) <= Weakness("PROVEN")
    BY <1>3
  <2>2. r \in {"PROVEN", "INFERRED", "UNKNOWN"}
    OBVIOUS
  <2> QED
    BY <2>1, <2>2 DEF Weakness
<1> QED
  BY <1>4

\* What is inferred behind an interface hangs on the device of the interface.
Hanging(g) ==
  \A i \in g.interfaces : \A x \in InterfaceLoss(g, i) :
    /\ x # g.root
    /\ \A e \in Linking(g) : x \in {e.from, e.to} => e.from = <<"device", i.device>>

\* Paths and failure scenarios agree, in every graph of finitely many edges.
LEMMA PathsAgree ==
  ASSUME NEW g, IsFiniteSet(Linking(g)), Hanging(g),
         \A e \in g.edges : /\ e.state \in {"PROVEN", "INFERRED", "UNKNOWN"}
                            /\ e.kind # "EXPECTED",
         NEW path \in Paths(g)
  PROVE  PathAgrees(g, path)
<1> DEFINE L == Linking(g)
<1>1. {e \in g.edges : Carries(e)} = L
  BY DEF Carries, Linking
<1>2. PICK t \in IdsOf(g) \ {g.root} : path = Path(g, t)
  BY DEF Paths
<1> DEFINE ways == Search(g, t)
<1>3. Sound(g, ways) /\ (t \in Reachable(g.root, L) => t \in DOMAIN ways)
  BY SearchFinds
<1>4. CASE t \notin DOMAIN ways
  <2>1. path = [to |-> t, nodes |-> {}, edges |-> {}, state |-> "UNKNOWN"]
    BY <1>2, <1>4 DEF Path
  <2>2. path.to = t /\ path.nodes = {} /\ path.state = "UNKNOWN"
    BY <2>1
  <2> HIDE DEF ways, L
  <2> QED
    BY <1>1, <1>3, <1>4, <2>2 DEF PathAgrees
<1>5. CASE t \in DOMAIN ways
  <2>1. path = [to |-> t, nodes |-> ways[t].nodes, edges |-> ways[t].edges,
                state |-> Weakest({e.state : e \in ways[t].edges})]
    BY <1>2, <1>5 DEF Path
  <2>2. /\ path.to = t /\ path.nodes = ways[t].nodes /\ path.edges = ways[t].edges
        /\ path.state = Weakest({e.state : e \in path.edges})
    BY <2>1
  <2> HIDE DEF ways, L
  <2>3. /\ t \in path.nodes /\ path.edges \subseteq L
        /\ \A e \in path.edges : e.from \in path.nodes /\ e.to \in path.nodes
    BY <1>3, <1>5, <2>2 DEF Sound, L
  <2>4. ASSUME NEW edges \in SUBSET L, path.edges \subseteq edges
        PROVE  t \in Reachable(g.root, edges)
    <3>1. IsFiniteSet(edges)
      BY FS_Subset DEF L
    <3> QED
      BY <1>3, <1>5, <2>2, <2>4, <3>1, WayIsReached
  <2>5. t \in Reachable(g.root, L)
    BY <2>3, <2>4
  <2>6. PICK last \in path.edges : t \in {last.from, last.to}
    BY <1>2, <1>3, <1>5, <2>2, WayHasLastEdge
  <2>7. ASSUME path.state = "PROVEN"
        PROVE  t \in Reachable(g.root, {e \in L : e.state = "PROVEN"})
    <3> DEFINE states == {e.state : e \in path.edges}
    <3>1. states \subseteq {"PROVEN", "INFERRED", "UNKNOWN"} /\ states # {}
      BY <2>3, <2>6 DEF L, Linking
    <3>2. states = {"PROVEN"}
      <4> HIDE DEF states
      <4>1. Weakest(states) = "PROVEN"
        BY <2>2, <2>7 DEF states
      <4> QED
        BY <3>1, <4>1, WeakestIsProven
    <3>3. path.edges \subseteq {e \in L : e.state = "PROVEN"}
      BY <2>3, <3>2
    <3> QED
      BY <2>4, <3>3
  <2>8. ASSUME NEW f \in DeviceFailures(g), t \in f.affected PROVE f.of \in path.nodes
    <3> DEFINE D == {x \in g.edges : Carries(x) /\ f.of \notin {x.from, x.to}}
    <3>1. t \notin Reachable(g.root, D)
      BY <2>8 DEF DeviceFailures, DeviceLoss
    <3>2. D \subseteq L
      BY <1>1
    <3>3. ASSUME f.of \notin path.nodes PROVE path.edges \subseteq D
      <4> SUFFICES ASSUME NEW e \in path.edges PROVE e \in D
        OBVIOUS
      <4>1. e \in g.edges /\ Carries(e)
        BY <1>1, <2>3
      <4> QED
        BY <2>3, <3>3, <4>1
    <3> HIDE DEF D
    <3> QED
      BY <2>4, <3>1, <3>2, <3>3
  <2>9. ASSUME NEW f \in EdgeFailures(g), t \in f.affected PROVE f.of \in path.edges
    <3> DEFINE D == {x \in g.edges : Carries(x)} \ {f.of}
    <3>1. t \notin Reachable(g.root, D)
      BY <2>9 DEF EdgeFailures, EdgeLoss
    <3>2. D \subseteq L
      BY <1>1
    <3>3. f.of \notin path.edges => path.edges \subseteq D
      BY <1>1, <2>3
    <3> HIDE DEF D
    <3> QED
      BY <2>4, <3>1, <3>2, <3>3
  <2>10. ASSUME NEW f \in InterfaceFailures(g), t \in f.affected
         PROVE  <<"device", f.of[2][1]>> \in path.nodes
    <3>1. PICK i \in g.interfaces : /\ f.of = <<"interface", <<i.device, i.port>>>>
                                    /\ f.affected = InterfaceLoss(g, i)
      BY DEF InterfaceFailures
    <3>2. f.of[2][1] = i.device
      BY <3>1
    <3>3. last.from = <<"device", i.device>>
      BY <2>3, <2>6, <2>10, <3>1 DEF Hanging, L
    <3> QED
      BY <2>3, <3>2, <3>3
  <2> QED
    BY <1>1, <2>2, <2>3, <2>5, <2>7, <2>8, <2>9, <2>10 DEF PathAgrees
<1> QED
  BY <1>4, <1>5

-----------------------------------------------------------------------------
(* The graph of a refresh *)

\* An image of a finite set, and a union of finitely many finite sets, is finite.
LEMMA ImageIsFinite ==
  ASSUME NEW f, IsFiniteSet(DOMAIN f)
  PROVE  IsFiniteSet({f[x] : x \in DOMAIN f})
<1> DEFINE S == DOMAIN f
           T == {f[x] : x \in DOMAIN f}
           h == [x \in S |-> f[x]]
<1>1. h \in Surjection(S, T)
  BY DEF Surjection
<1> QED
  BY <1>1, FS_Surjection

LEMMA UnionIsFinite ==
  ASSUME NEW n \in Nat, NEW f, \A i \in 1..n : IsFiniteSet(f[i])
  PROVE  IsFiniteSet(UNION {f[i] : i \in 1..n})
<1> DEFINE h == [i \in 1..n |-> f[i]]
<1>1. IsFiniteSet(DOMAIN h)
  <2>1. IsFiniteSet(1..n)
    <3>1. 1 \in Int /\ n \in Int
      OBVIOUS
    <3> QED
      BY <3>1, FS_Interval
  <2> QED
    BY <2>1
<1>2. IsFiniteSet({h[i] : i \in DOMAIN h})
  BY <1>1, ImageIsFinite
<1>3. {h[i] : i \in DOMAIN h} = {f[i] : i \in 1..n}
  OBVIOUS
<1>4. \A T \in {f[i] : i \in 1..n} : IsFiniteSet(T)
  OBVIOUS
<1> QED
  BY <1>2, <1>3, <1>4, FS_UNION

\* Only tables of finitely many rows are read.
LEMMA PartIsFinite ==
  ASSUME NEW o, Tabular(o.shown)
  PROVE  /\ IsFiniteSet(DOMAIN Part(o, "status"))
         /\ IsFiniteSet(Part(o, "routing"))
         /\ Part(o, "cdp") \in Seq(Heard) /\ Part(o, "lldp") \in Seq(Heard)
<1>1. IsFiniteSet({})
  BY FS_EmptySet
<1>2. DOMAIN Blank.status = {} /\ Blank["cdp"] = <<>> /\ Blank["lldp"] = <<>> /\ Blank["routing"] = {}
  BY DEF Blank
<1>3. IsFiniteSet(DOMAIN Part(o, "status"))
  BY <1>1, <1>2 DEF Part, Tabular
<1>4. IsFiniteSet(Part(o, "routing"))
  BY <1>1, <1>2 DEF Part, Tabular
<1>5. ASSUME NEW c \in {"cdp", "lldp"} PROVE Part(o, c) \in Seq(Heard)
  <2>1. <<>> \in Seq(Heard)
    OBVIOUS
  <2>2. Blank[c] = <<>> /\ o.shown[c] \in Seq(Heard)
    BY <1>2 DEF Tabular
  <2> QED
    BY <2>1, <2>2 DEF Part
<1> QED
  BY <1>3, <1>4, <1>5

LEMMA AnnouncedIsFinite ==
  ASSUME NEW o, Tabular(o.shown)
  PROVE  IsFiniteSet(Announced(o))
<1> DEFINE heard == Part(o, "cdp") \o Part(o, "lldp")
<1>1. heard \in Seq(Heard)
  BY PartIsFinite
<1>2. Announced(o) \subseteq {heard[k] : k \in DOMAIN heard}
  BY DEF Announced
<1> HIDE DEF heard
<1>3. IsFiniteSet(DOMAIN heard)
  <2>1. DOMAIN heard = 1..Len(heard) /\ Len(heard) \in Nat
    BY <1>1
  <2>2. 1 \in Int /\ Len(heard) \in Int
    BY <2>1
  <2> QED
    BY <2>1, <2>2, FS_Interval
<1>4. IsFiniteSet({heard[k] : k \in DOMAIN heard})
  BY <1>3, ImageIsFinite
<1> QED
  BY <1>2, <1>4, FS_Subset

LEMMA PendingIsFinite ==
  ASSUME NEW n \in Nat, NEW os, DOMAIN os = 1..n, \A i \in 1..n : Tabular(os[i].shown)
  PROVE  IsFiniteSet(Pending(os))
<1> DEFINE Entry(i, h) == [source |-> <<"device", os[i].device>>, target |-> Target(os, h),
                           local |-> h.port, remote |-> h.remote, order |-> i]
           f == [i \in 1..n |-> {Entry(i, h) : h \in Announced(os[i])}]
<1> HIDE DEF Entry
<1>1. ASSUME NEW i \in 1..n PROVE IsFiniteSet(f[i])
  <2>4. IsFiniteSet(Announced(os[i]))
    BY AnnouncedIsFinite
  <2> DEFINE g == [h \in Announced(os[i]) |-> Entry(i, h)]
  <2>5. DOMAIN g = Announced(os[i]) /\ {g[h] : h \in DOMAIN g} = f[i]
    OBVIOUS
  <2> HIDE DEF g
  <2> QED
    BY <2>4, <2>5, ImageIsFinite
<1>2. IsFiniteSet(UNION {f[i] : i \in 1..n})
  <2> HIDE DEF f
  <2> QED
    BY <1>1, UnionIsFinite
<1>3. Pending(os) = UNION {f[i] : i \in 1..n}
  <2>1. Pending(os) = UNION {{Entry(i, h) : h \in Announced(os[i])} : i \in DOMAIN os}
    BY DEF Pending, Entry
  <2>2. {{Entry(i, h) : h \in Announced(os[i])} : i \in DOMAIN os} = {f[i] : i \in 1..n}
    OBVIOUS
  <2> QED
    BY <2>1, <2>2
<1> QED
  BY <1>2, <1>3

LEMMA InterfacesAreFinite ==
  ASSUME NEW n \in Nat, NEW os, DOMAIN os = 1..n, \A i \in 1..n : Tabular(os[i].shown)
  PROVE  IsFiniteSet(Interfaces(os))
<1> DEFINE Entry(i, p) ==
             [device |-> os[i].device, port |-> p,
              up     |-> Part(os[i], "status")[p].link = "connected",
              admin  |-> Part(os[i], "status")[p].link # "disabled",
              mode   |-> Mode(os[i], p),
              native |-> Native(os[i], p),
              learned |-> Part(os[i], "macs")[p],
              errors |-> p \in Part(os[i], "counters")]
           f == [i \in 1..n |-> {Entry(i, p) : p \in DOMAIN Part(os[i], "status")}]
<1> HIDE DEF Entry
<1>1. ASSUME NEW i \in 1..n PROVE IsFiniteSet(f[i])
  <2>1. IsFiniteSet(DOMAIN Part(os[i], "status"))
    BY PartIsFinite
  <2> DEFINE g == [p \in DOMAIN Part(os[i], "status") |-> Entry(i, p)]
  <2>2. DOMAIN g = DOMAIN Part(os[i], "status") /\ {g[p] : p \in DOMAIN g} = f[i]
    OBVIOUS
  <2> HIDE DEF g
  <2> QED
    BY <2>1, <2>2, ImageIsFinite
<1>2. IsFiniteSet(UNION {f[i] : i \in 1..n})
  <2> HIDE DEF f
  <2> QED
    BY <1>1, UnionIsFinite
<1>3. Interfaces(os) = UNION {f[i] : i \in 1..n}
  <2>1. Interfaces(os)
          = UNION {{Entry(i, p) : p \in DOMAIN Part(os[i], "status")} : i \in DOMAIN os}
    BY DEF Interfaces, Entry
  <2>2. {{Entry(i, p) : p \in DOMAIN Part(os[i], "status")} : i \in DOMAIN os}
          = {f[i] : i \in 1..n}
    OBVIOUS
  <2> QED
    BY <2>1, <2>2
<1> QED
  BY <1>2, <1>3

LEMMA LinkingIsFinite ==
  ASSUME NEW n \in Nat, NEW os, DOMAIN os = 1..n, \A i \in 1..n : Tabular(os[i].shown)
  PROVE  IsFiniteSet(Linking(Graph(os)))
<1>1. IsFiniteSet(Physical(os))
  <2> DEFINE Cable(e) == [kind |-> "PHYSICAL", from |-> e.source, to |-> e.target, via |-> e.local,
                          back |-> e.remote, state |-> "PROVEN",
                          confidence |-> IF Reciprocal(os, e) THEN "CONFIRMED" ELSE "HIGH"]
             S == {x \in Pending(os) : ~ \E y \in Pending(os) : SameKey(x, y) /\ y.order < x.order}
             f == [e \in S |-> Cable(e)]
  <2>1. Physical(os) = {Cable(e) : e \in S}
    BY DEF Physical
  <2>2. IsFiniteSet(S)
    <3>1. S \subseteq Pending(os)
      OBVIOUS
    <3> QED
      BY <3>1, PendingIsFinite, FS_Subset
  <2> HIDE DEF Cable, S
  <2>3. DOMAIN f = S /\ {f[x] : x \in DOMAIN f} = Physical(os)
    BY <2>1
  <2> HIDE DEF f
  <2> QED
    BY <2>2, <2>3, ImageIsFinite
<1>2. IsFiniteSet(Attachments(os))
  <2> DEFINE Behind(i) == [kind |-> "L2_MEMBERSHIP", from |-> <<"device", i.device>>,
                           to |-> <<"endpoint", <<i.device, i.port>>>>, via |-> i.port,
                           back |-> None, state |-> "INFERRED", confidence |-> "HIGH"]
             S == {x \in Interfaces(os) : x.learned # {} /\ x.mode # "TRUNK"}
             f == [i \in S |-> Behind(i)]
  <2>1. Attachments(os) = {Behind(i) : i \in S}
    BY DEF Attachments
  <2>2. IsFiniteSet(S)
    <3>1. S \subseteq Interfaces(os)
      OBVIOUS
    <3> QED
      BY <3>1, InterfacesAreFinite, FS_Subset
  <2> HIDE DEF Behind, S
  <2>3. DOMAIN f = S /\ {f[x] : x \in DOMAIN f} = Attachments(os)
    BY <2>1
  <2> HIDE DEF f
  <2> QED
    BY <2>2, <2>3, ImageIsFinite
<1>3. IsFiniteSet(GatewayEdges(os))
  <2> DEFINE S == {x \in DOMAIN os : GatewayOf(os[x]) # None}
             f == [i \in S |-> GatewayEdge(os[i], GatewayOf(os[i]))]
  <2>1. IsFiniteSet(S)
    <3>1. S \subseteq 1..n /\ 1 \in Int /\ n \in Int
      OBVIOUS
    <3>2. IsFiniteSet(1..n)
      BY <3>1, FS_Interval
    <3> QED
      BY <3>1, <3>2, FS_Subset
  <2>2. GatewayEdges(os) = {GatewayEdge(os[i], GatewayOf(os[i])) : i \in S}
    BY DEF GatewayEdges
  <2> HIDE DEF S
  <2>3. DOMAIN f = S /\ {f[x] : x \in DOMAIN f} = GatewayEdges(os)
    BY <2>2
  <2> HIDE DEF f
  <2> QED
    BY <2>1, <2>3, ImageIsFinite
<1>4. IsFiniteSet(Adjacencies(os))
  <2> DEFINE Link(i, r) == [kind |-> "ROUTING_ADJACENCY", from |-> <<"device", os[i].device>>,
                            to |-> <<"peer", r>>, via |-> None, back |-> None,
                            state |-> "PROVEN", confidence |-> "HIGH"]
             f == [i \in 1..n |-> {Link(i, r) : r \in Part(os[i], "routing")}]
  <2> HIDE DEF Link
  <2>1. ASSUME NEW i \in 1..n PROVE IsFiniteSet(f[i])
    <3>1. IsFiniteSet(Part(os[i], "routing"))
      BY PartIsFinite
    <3> DEFINE g == [r \in Part(os[i], "routing") |-> Link(i, r)]
    <3>2. DOMAIN g = Part(os[i], "routing") /\ {g[r] : r \in DOMAIN g} = f[i]
      OBVIOUS
    <3> HIDE DEF g
    <3> QED
      BY <3>1, <3>2, ImageIsFinite
  <2>2. IsFiniteSet(UNION {f[i] : i \in 1..n})
    <3> HIDE DEF f
    <3> QED
      BY <2>1, UnionIsFinite
  <2>3. Adjacencies(os) = UNION {{Link(i, r) : r \in Part(os[i], "routing")} : i \in DOMAIN os}
    BY DEF Adjacencies, Link
  <2>4. {{Link(i, r) : r \in Part(os[i], "routing")} : i \in DOMAIN os} = {f[i] : i \in 1..n}
    OBVIOUS
  <2> QED
    BY <2>2, <2>3, <2>4
<1> DEFINE T == Physical(os) \cup Attachments(os) \cup GatewayEdges(os) \cup Adjacencies(os)
<1>5. IsFiniteSet(T)
  BY <1>1, <1>2, <1>3, <1>4, FS_Union
<1>6. Linking(Graph(os)) \subseteq T
  <2>1. \A e \in Memberships(os) : e.kind = "PORT_CHANNEL_MEMBER"
    BY DEF Memberships
  <2> QED
    BY <2>1 DEF Linking, Graph, Edges
<1> QED
  BY <1>5, <1>6, FS_Subset

LEMMA EdgeStates ==
  ASSUME NEW os, NEW e \in Edges(os)
  PROVE  e.state \in {"PROVEN", "INFERRED", "UNKNOWN"} /\ e.kind # "EXPECTED"
BY DEF Edges, Physical, Attachments, GatewayEdges, GatewayEdge, Memberships, Adjacencies

\* What every kind of edge joins.
LEMMA EdgeEnds ==
  ASSUME NEW os, NEW e \in Edges(os), e.kind # "PORT_CHANNEL_MEMBER"
  PROVE  \E d : /\ e.from = <<"device", d>>
                /\ \/ /\ e.kind = "L2_MEMBERSHIP"
                      /\ \E p : e.to = <<"endpoint", <<d, p>>>>
                   \/ /\ e.kind = "L3_GATEWAY"
                      /\ \E a : e.to = <<"gateway", <<d, a>>>>
                   \/ /\ e.kind = "PHYSICAL"
                      /\ \E x : e.to = <<"device", x>> \/ e.to = <<"discovered", x>>
                   \/ /\ e.kind = "ROUTING_ADJACENCY"
                      /\ \E x : e.to = <<"peer", x>>
<1>1. CASE e \in Physical(os)
  <2>1. PICK x \in Pending(os) : /\ e.kind = "PHYSICAL"
                                 /\ e.from = x.source /\ e.to = x.target
    BY <1>1 DEF Physical
  <2>2. PICK i \in DOMAIN os : \E h \in Announced(os[i]) :
          x.source = <<"device", os[i].device>> /\ x.target = Target(os, h)
    BY DEF Pending
  <2>3. PICK h \in Announced(os[i]) :
          x.source = <<"device", os[i].device>> /\ x.target = Target(os, h)
    BY <2>2
  <2>4. \E y : Target(os, h) = <<"device", y>> \/ Target(os, h) = <<"discovered", y>>
    BY DEF Target
  <2> QED
    BY <2>1, <2>3, <2>4
<1>2. CASE e \in Attachments(os)
  BY <1>2 DEF Attachments
<1>3. CASE e \in GatewayEdges(os)
  BY <1>3 DEF GatewayEdges, GatewayEdge
<1>4. CASE e \in Adjacencies(os)
  BY <1>4 DEF Adjacencies
<1>5. e \notin Memberships(os)
  BY DEF Memberships
<1> QED
  BY <1>1, <1>2, <1>3, <1>4, <1>5 DEF Edges

LEMMA GraphHangs ==
  ASSUME NEW os
  PROVE  Hanging(Graph(os))
<1> DEFINE g == Graph(os)
<1> SUFFICES ASSUME NEW i \in g.interfaces, NEW x \in InterfaceLoss(g, i)
             PROVE  /\ x # g.root
                    /\ \A e \in Linking(g) :
                         x \in {e.from, e.to} => e.from = <<"device", i.device>>
  BY DEF Hanging
<1>1. PICK l \in Edges(os) : /\ l.kind \in {"L2_MEMBERSHIP", "L3_GATEWAY"}
                             /\ l.from = <<"device", i.device>> /\ l.to = x
  BY DEF InterfaceLoss, Graph
<1>2. \E a : x = <<"endpoint", <<i.device, a>>>> \/ x = <<"gateway", <<i.device, a>>>>
  BY <1>1, EdgeEnds
<1>3. x # g.root
  BY <1>2 DEF Graph
<1>4. ASSUME NEW e \in Linking(g), x \in {e.from, e.to} PROVE e.from = <<"device", i.device>>
  <2>1. e \in Edges(os) /\ e.kind # "PORT_CHANNEL_MEMBER"
    BY DEF Linking, Graph
  <2>2. PICK d : /\ e.from = <<"device", d>>
                 /\ \/ \E p : e.to = <<"endpoint", <<d, p>>>>
                    \/ \E a : e.to = <<"gateway", <<d, a>>>>
                    \/ \E y : e.to = <<"device", y>> \/ e.to = <<"discovered", y>>
                    \/ \E y : e.to = <<"peer", y>>
    BY <2>1, EdgeEnds
  <2>3. x # e.from
    BY <1>2, <2>2
  <2>4. d = i.device
    BY <1>2, <1>4, <2>2, <2>3
  <2> QED
    BY <2>2, <2>4
<1> QED
  BY <1>3, <1>4

\* A name is resolved to an observed device.
LEMMA NamedIsObserved ==
  ASSUME NEW n \in Nat, NEW os, DOMAIN os = 1..n, NEW name, Named(os, name) # None
  PROVE  \E i \in 1..n : Named(os, name) = os[i].device
<1> DEFINE at == {i \in DOMAIN os : NameOf(os[i]) = name}
           Latest(i) == \A j \in at : j <= i
<1>1. at # {} /\ Named(os, name) = os[CHOOSE i \in at : Latest(i)].device
  BY DEF Named
<1>2. at \in SUBSET (1..n)
  OBVIOUS
<1> HIDE DEF at
<1>3. \E i \in at : Latest(i)
  BY <1>1, <1>2, Most
<1> HIDE DEF Latest
<1>4. (CHOOSE i \in at : Latest(i)) \in at
  BY <1>3, Zenon
<1> QED
  BY <1>1, <1>2, <1>4

\* Both ends of an edge are nodes.
LEMMA EdgesHaveEnds ==
  ASSUME NEW n \in Nat, NEW os, DOMAIN os = 1..n, NEW e \in Edges(os),
         e.kind # "PORT_CHANNEL_MEMBER"
  PROVE  {e.from, e.to} \subseteq IdsOf(Graph(os))
<1> DEFINE I == IdsOf(Graph(os))
<1>1. \A i \in 1..n : <<"device", os[i].device>> \in I
  <2> TAKE i \in 1..n
  <2>1. [id |-> <<"device", os[i].device>>, role |-> "SWITCH",
         collection |-> CollectionState(os[i])] \in Nodes(os)
    BY DEF Nodes
  <2> QED
    BY <2>1 DEF IdsOf, Graph
<1>2. ASSUME Head(e.to) \in {"discovered", "endpoint", "gateway", "peer"}
      PROVE  e.to \in I
  <2>1. \E x \in Nodes(os) : x.id = e.to
    <3> DEFINE RoleAt(x) == CASE Head(x.to) = "discovered" -> RoleOf[x.to[2][1]]
                              [] Head(x.to) = "endpoint"   -> "ENDPOINT"
                              [] Head(x.to) = "gateway"    -> "GATEWAY"
                              [] OTHER                     -> "ROUTER"
               Told(x) == Head(x.to) \in {"discovered", "endpoint", "gateway", "peer"}
               Others == {[id |-> x.to, collection |-> "NOT_COLLECTED", role |-> RoleAt(x)] :
                            x \in {y \in Edges(os) : Told(y)}}
    <3>1. Others \subseteq Nodes(os)
      BY DEF Nodes
    <3>2. Told(e)
      BY <1>2
    <3> HIDE DEF RoleAt, Told
    <3>3. [id |-> e.to, collection |-> "NOT_COLLECTED", role |-> RoleAt(e)] \in Others
      BY <3>2
    <3> HIDE DEF Others
    <3> QED
      BY <3>1, <3>3
  <2> QED
    BY <2>1 DEF IdsOf, Graph
<1>3. CASE e \in Physical(os)
  <2>1. PICK x \in Pending(os) : e.from = x.source /\ e.to = x.target
    BY <1>3 DEF Physical
  <2>2. PICK i \in 1..n : \E h \in Announced(os[i]) :
           x.source = <<"device", os[i].device>> /\ x.target = Target(os, h)
    BY DEF Pending
  <2>3. PICK h \in Announced(os[i]) :
           x.source = <<"device", os[i].device>> /\ x.target = Target(os, h)
    BY <2>2
  <2>4. e.from \in I
    BY <1>1, <2>1, <2>3
  <2>5. CASE Named(os, h.name) # None
    <3>1. PICK j \in 1..n : Named(os, h.name) = os[j].device
      BY <2>5, NamedIsObserved
    <3>2. e.to = <<"device", os[j].device>>
      BY <2>1, <2>3, <2>5, <3>1 DEF Target
    <3> QED
      BY <1>1, <2>4, <3>2
  <2>6. CASE Named(os, h.name) = None
    <3>1. e.to = <<"discovered", <<h.name, h.address>>>>
      BY <2>1, <2>3, <2>6 DEF Target
    <3>2. Head(e.to) = "discovered"
      BY <3>1
    <3> QED
      BY <1>2, <2>4, <3>2
  <2> QED
    BY <2>5, <2>6
<1>4. CASE e \in Attachments(os)
  <2>1. PICK i \in Interfaces(os) : /\ e.from = <<"device", i.device>>
                                    /\ e.to = <<"endpoint", <<i.device, i.port>>>>
    BY <1>4 DEF Attachments
  <2>2. \E j \in 1..n : i.device = os[j].device
    BY DEF Interfaces
  <2>3. Head(e.to) = "endpoint"
    BY <2>1
  <2> QED
    BY <1>1, <1>2, <2>1, <2>2, <2>3
<1>5. CASE e \in GatewayEdges(os)
  <2>1. PICK i \in 1..n : e = GatewayEdge(os[i], GatewayOf(os[i]))
    BY <1>5 DEF GatewayEdges
  <2>2. /\ e.from = <<"device", os[i].device>>
        /\ e.to = <<"gateway", <<os[i].device, GatewayOf(os[i])>>>>
    BY <2>1 DEF GatewayEdge
  <2>3. Head(e.to) = "gateway"
    BY <2>2
  <2> QED
    BY <1>1, <1>2, <2>2, <2>3
<1>6. CASE e \in Adjacencies(os)
  <2>1. PICK i \in 1..n : \E r \in Part(os[i], "routing") :
           e.from = <<"device", os[i].device>> /\ e.to = <<"peer", r>>
    BY <1>6 DEF Adjacencies
  <2>2. Head(e.to) = "peer"
    BY <2>1
  <2> QED
    BY <1>1, <1>2, <2>1, <2>2
<1>7. e \notin Memberships(os)
  BY DEF Memberships
<1> QED
  BY <1>3, <1>4, <1>5, <1>6, <1>7 DEF Edges

\* What is called current was collected without a failure.
LEMMA CurrentIsComplete ==
  ASSUME NEW n \in Nat, NEW os, DOMAIN os = 1..n, Overall(os) = "CURRENT",
         NEW i \in 1..n, NEW e \in Evidence(os[i])
  PROVE  e.current
<1>1. CollectionState(os[i]) = "CURRENT"
  BY DEF Overall
<1>2. \A c \in Commands : os[i].ended[c] \notin Failed
  <2> SUFFICES ASSUME NEW c \in Commands, os[i].ended[c] \in Failed PROVE FALSE
    OBVIOUS
  <2> HIDE DEF Commands, Failed
  <2>1. CASE \A d \in Commands : os[i].ended[d] \in Failed
    BY <1>1, <2>1 DEF CollectionState
  <2>2. CASE \E d \in Commands : os[i].ended[d] \notin Failed
    <3>1. CollectionState(os[i]) = "PARTIAL"
      BY <2>2 DEF CollectionState
    <3> QED
      BY <1>1, <3>1
  <2> QED
    BY <2>1, <2>2
<1>3. PICK c \in Commands : e.current = (os[i].ended[c] \notin Failed)
  <2> HIDE DEF Commands, Failed
  <2> QED
    BY DEF Evidence
<1> QED
  BY <1>2, <1>3

LEMMA GraphIsWellFormed ==
  ASSUME NEW n \in Nat, NEW os, DOMAIN os = 1..n
  PROVE  WellFormed(os, Graph(os))
<1> DEFINE g == Graph(os)
<1>1. g.edges = Edges(os) /\ g.interfaces = Interfaces(os) /\ g.nodes = Nodes(os)
  BY DEF Graph
<1>2. Overall(os) = "CURRENT" => \A i \in DOMAIN os : \A e \in Evidence(os[i]) : e.current
  BY CurrentIsComplete
<1>3. \A e \in g.edges : e.kind = "PORT_CHANNEL_MEMBER" \/ {e.from, e.to} \subseteq IdsOf(g)
  <2> TAKE e \in g.edges
  <2>1. e \in Edges(os)
    BY <1>1
  <2> QED
    BY <2>1, EdgesHaveEnds
<1>4. \A i \in 1..n : <<"device", os[i].device>> \in IdsOf(g)
  <2> TAKE i \in 1..n
  <2>1. [id |-> <<"device", os[i].device>>, role |-> "SWITCH",
         collection |-> CollectionState(os[i])] \in Nodes(os)
    BY DEF Nodes
  <2> QED
    BY <1>1, <2>1 DEF IdsOf
<1> HIDE DEF g
<1>5. \A f \in EdgeFailures(g) : f.affected \subseteq IdsOf(g)
  <2> TAKE f \in EdgeFailures(g)
  <2>1. \E e : f.affected = EdgeLoss(g, e)
    BY DEF EdgeFailures
  <2> QED
    BY <2>1 DEF EdgeLoss
<1>6. \A f \in DeviceFailures(g) \cup InterfaceFailures(g) : f.affected \subseteq IdsOf(g)
  <2>1. \A f \in DeviceFailures(g) : f.affected \subseteq IdsOf(g)
    <3> TAKE f \in DeviceFailures(g)
    <3>1. \E d : f.affected = DeviceLoss(g, d)
      BY DEF DeviceFailures
    <3> QED
      BY <3>1 DEF DeviceLoss
  <2>2. ASSUME NEW i \in g.interfaces PROVE InterfaceLoss(g, i) \subseteq IdsOf(g)
    BY <1>3 DEF InterfaceLoss
  <2>3. \A f \in InterfaceFailures(g) : f.affected \subseteq IdsOf(g)
    BY <2>2 DEF InterfaceFailures
  <2> QED
    BY <2>1, <2>3
<1>8. \A f \in MemberFailures(g) :
        f.affected \subseteq {<<"port", <<i.device, i.port>>>> : i \in g.interfaces}
  <2> TAKE f \in MemberFailures(g)
  <2>1. PICK e \in Edges(os) : e.kind = "PORT_CHANNEL_MEMBER" /\ f.affected = {e.from}
    BY <1>1 DEF MemberFailures
  <2>2. e \in Memberships(os)
    BY <2>1 DEF Edges, Physical, Attachments, GatewayEdges, GatewayEdge, Adjacencies
  <2>3. PICK i \in 1..n : \E p \in DOMAIN Part(os[i], "status") :
          e.from = <<"port", <<os[i].device, p>>>>
    BY <2>2 DEF Memberships
  <2>4. PICK p \in DOMAIN Part(os[i], "status") : e.from = <<"port", <<os[i].device, p>>>>
    BY <2>3
  <2>5. \E x \in Interfaces(os) : x.device = os[i].device /\ x.port = p
    <3> DEFINE Row(k, q) ==
                 [device |-> os[k].device, port |-> q,
                  up     |-> Part(os[k], "status")[q].link = "connected",
                  admin  |-> Part(os[k], "status")[q].link # "disabled",
                  mode   |-> Mode(os[k], q),
                  native |-> Native(os[k], q),
                  learned |-> Part(os[k], "macs")[q],
                  errors |-> q \in Part(os[k], "counters")]
               Rows(k) == {Row(k, q) : q \in DOMAIN Part(os[k], "status")}
    <3>0. Interfaces(os) = UNION {Rows(k) : k \in DOMAIN os}
      BY DEF Interfaces
    <3>2. Row(i, p).device = os[i].device /\ Row(i, p).port = p
      OBVIOUS
    <3> HIDE DEF Row
    <3>3. Row(i, p) \in Rows(i)
      OBVIOUS
    <3> HIDE DEF Rows
    <3>1. Row(i, p) \in Interfaces(os)
      BY <3>0, <3>3
    <3> QED
      BY <3>1, <3>2
  <2> QED
    BY <1>1, <2>1, <2>4, <2>5
<1> DEFINE Here == IdsOf(g) \cup {<<i.device, i.port>> : i \in g.interfaces}
<1>7. \A f \in Findings(os, g) : f.about # "unbundled" => f.at \subseteq Here
  <2>1. \A f \in UplinkFindings(g) : f.at \subseteq Here
    BY DEF UplinkFindings, IdsOf
  <2>2. \A f \in PortFindings(g) : f.at \subseteq Here
    BY DEF PortFindings
  <2>3. \A f \in MismatchFindings(g) : f.at \subseteq Here
    <3> TAKE f \in MismatchFindings(g)
    <3>1. \E e : f.at = {<<i.device, i.port>> : i \in Ends(g, e)}
      BY DEF MismatchFindings
    <3>2. \A e : Ends(g, e) \subseteq g.interfaces
      BY DEF Ends
    <3> QED
      BY <3>1, <3>2
  <2>4. ASSUME NEW i \in DOMAIN os, NEW f \in ProtectionFindings(os[i])
        PROVE  f.at \subseteq Here
    <3>1. f.at = {<<"device", os[i].device>>}
      BY DEF ProtectionFindings
    <3> QED
      BY <1>4, <3>1
  <2>5. ASSUME NEW i \in DOMAIN os, NEW f \in BundleFindings(os[i])
        PROVE  f.about = "unbundled"
    BY DEF BundleFindings
  <2> HIDE DEF Here
  <2> QED
    BY <2>1, <2>2, <2>3, <2>4, <2>5 DEF Findings
<1> QED
  BY <1>2, <1>3, <1>5, <1>6, <1>7, <1>8 DEF WellFormed, g

\* What a refresh concludes agrees, whatever was observed.
ConclusionsOf(os, g) ==
  WellFormed(os, g) /\ \A path \in Paths(g) : PathAgrees(g, path)

LEMMA GraphAgrees ==
  ASSUME NEW n \in Nat, NEW os, DOMAIN os = 1..n, \A i \in 1..n : Tabular(os[i].shown)
  PROVE  ConclusionsOf(os, Graph(os))
<1> DEFINE g == Graph(os)
<1>1. WellFormed(os, g)
  BY GraphIsWellFormed
<1>2. IsFiniteSet(Linking(g)) /\ Hanging(g)
  BY LinkingIsFinite, GraphHangs
<1>3. \A e \in g.edges : e.state \in {"PROVEN", "INFERRED", "UNKNOWN"} /\ e.kind # "EXPECTED"
  BY EdgeStates DEF Graph
<1> HIDE DEF g
<1>4. \A path \in Paths(g) : PathAgrees(g, path)
  BY <1>2, <1>3, PathsAgree
<1> QED
  BY <1>1, <1>4 DEF ConclusionsOf, g

LEMMA ShowsAreTabular ==
  ASSUME NEW shown \in Shows
  PROVE  Tabular(shown)
<1>1. CASE shown = Blank
  <2>1. IsFiniteSet({})
    BY FS_EmptySet
  <2>2. /\ DOMAIN Blank.status = {} /\ Blank.routing = {}
        /\ \A c \in {"cdp", "lldp"} : Blank[c] = <<>>
    BY DEF Blank
  <2>3. <<>> \in Seq(Heard)
    OBVIOUS
  <2> QED
    BY <1>1, <2>1, <2>2, <2>3 DEF Tabular
<1>2. CASE shown # Blank
  <2>1. PICK s \in Situations, m \in Machines : shown = s[m].shown
    BY <1>2 DEF Shows
  <2> QED
    BY <2>1, FiniteTables
<1> QED
  BY <1>1, <1>2

\* Whatever was observed, of however many devices, and in whatever order
\* requests and failures came: of every state that is published, the conclusions
\* concern what is in it, and the two searches agree - a path is shown exactly
\* to what can be reached, is proven only over proven edges, and goes through
\* every device, edge and interface whose loss is said to take its end away
\* (_paths, _reachable, _failures, _findings).
THEOREM ConclusionsAgreeAlways == Spec => ConclusionsAgree
<1> DEFINE Agreeing ==
       published'.observations \notin {<<>>, published.observations} =>
         \A g \in {Graph(published'.observations)} :
           /\ WellFormed(published'.observations, g)
           /\ \A path \in Paths(g) : PathAgrees(g, path)
<1>1. ASSUME LabInv, Next PROVE Agreeing
  <2> SUFFICES ASSUME published'.observations \notin {<<>>, published.observations}
               PROVE  ConclusionsOf(published'.observations, Graph(published'.observations))
    BY DEF ConclusionsOf
  <2>1. PICK w \in Workers : Publish(w)
    BY <1>1, OnlyPublishReplaces
  <2>2. published'.observations = job[w].seen
    BY <2>1 DEF Publish
  <2>3. job[w].seen \in Seq(Observations)
    BY <1>1 DEF LabInv, Shape, Jobs
  <2> DEFINE os == job[w].seen
  <2>4. Len(os) \in Nat /\ DOMAIN os = 1..Len(os) /\ \A i \in 1..Len(os) : os[i] \in Observations
    BY <2>3
  <2>5. \A i \in 1..Len(os) : Tabular(os[i].shown)
    <3> TAKE i \in 1..Len(os)
    <3>1. os[i].shown \in Shows
      BY <2>4 DEF Observations
    <3> QED
      BY <3>1, ShowsAreTabular
  <2> HIDE DEF os
  <2>6. ConclusionsOf(os, Graph(os))
    BY <2>4, <2>5, GraphAgrees
  <2> QED
    BY <2>2, <2>6 DEF os
<1>2. LabInv /\ [Next]_vars => [Agreeing]_vars
  BY <1>1
<1> QED
  BY <1>2, LabKept, InitLab, PTL DEF Spec, ConclusionsAgree

=============================================================================
