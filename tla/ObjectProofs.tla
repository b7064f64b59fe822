---------------------------- MODULE ObjectProofs ----------------------------
(* Data objects in the hands of a careful application: for any objects,      *)
(* delays and nodes, a parameter is what it was set to, its delays being     *)
(* aged by hand or after executions, an object lives as long as something    *)
(* holds it, and is counted as often, and user nodes are initialised and     *)
(* deinitialised in turns; for any images, a map keeps what was written      *)
(* through it until it is unmapped.                                          *)
EXTENDS References, ImageMemory, Integers, FiniteSetTheorems, SequenceTheorems, TLAPS
-----------------------------------------------------------------------------
(* Sequences of whatever: appending, changing one element and removing one.  *)

IsSeq(s) == s \in Seq(ToSet(s))

LEMMA SeqFacts ==
  ASSUME NEW s, IsSeq(s)
  PROVE  Len(s) \in Nat /\ DOMAIN s = 1..Len(s)
BY DEF IsSeq

LEMMA IsSeqOf == ASSUME NEW S, NEW s \in Seq(S) PROVE IsSeq(s)
<1>1. s \in [1..Len(s) -> ToSet(s)] /\ Len(s) \in Nat
  BY DEF ToSet
<1> QED
  BY <1>1 DEF IsSeq

LEMMA AppendIsSeq ==
  ASSUME NEW s, IsSeq(s), NEW x
  PROVE  /\ IsSeq(Append(s, x)) /\ Len(Append(s, x)) = Len(s) + 1
         /\ DOMAIN Append(s, x) = DOMAIN s \cup {Len(s) + 1}
         /\ \A i \in DOMAIN s : Append(s, x)[i] = s[i] /\ i # Len(s) + 1 /\ i < Len(s) + 1
         /\ Append(s, x)[Len(s) + 1] = x
<1> DEFINE S == ToSet(s) \cup {x}
<1>1. s \in Seq(S) /\ x \in S
  BY DEF IsSeq
<1> HIDE DEF S
<1>2. Append(s, x) \in Seq(S)
  BY <1>1
<1>3. IsSeq(Append(s, x))
  BY <1>2, IsSeqOf
<1> QED
  BY <1>1, <1>3

LEMMA ChangeIsSeq ==
  ASSUME NEW s, IsSeq(s), NEW i \in DOMAIN s, NEW x
  PROVE  /\ IsSeq([s EXCEPT ![i] = x]) /\ DOMAIN [s EXCEPT ![i] = x] = DOMAIN s
         /\ \A k \in DOMAIN s : [s EXCEPT ![i] = x][k] = IF k = i THEN x ELSE s[k]
<1> DEFINE S == ToSet(s) \cup {x}
<1>1. s \in Seq(S) /\ x \in S
  BY DEF IsSeq
<1> HIDE DEF S
<1>2. [s EXCEPT ![i] = x] \in Seq(S)
  BY <1>1
<1>3. IsSeq([s EXCEPT ![i] = x])
  BY <1>2, IsSeqOf
<1> QED
  BY <1>1, <1>3

(* What is left when one element is taken out.                               *)
LEMMA RemovedAt ==
  ASSUME NEW S, NEW s \in Seq(S), NEW i \in DOMAIN s
  PROVE  /\ RemoveAt(s, i) \in Seq(S) /\ Len(RemoveAt(s, i)) = Len(s) - 1
         /\ DOMAIN RemoveAt(s, i) = 1..(Len(s) - 1)
         /\ \A j \in 1..(Len(s) - 1) : RemoveAt(s, i)[j] = IF j < i THEN s[j] ELSE s[j + 1]
<1> DEFINE r == RemoveAt(s, i)
           l == Len(s)
           a == SubSeq(s, 1, i - 1)
           b == SubSeq(s, i + 1, l)
<1>1. l \in Nat /\ i \in 1..l /\ DOMAIN s = 1..l /\ \A j \in 1..l : s[j] \in S
  OBVIOUS
<1>2. a \in Seq(S) /\ Len(a) = i - 1 /\ \A j \in 1..(i - 1) : a[j] = s[j]
  BY <1>1
<1>3. b \in Seq(S) /\ Len(b) = l - i /\ \A j \in 1..(l - i) : b[j] = s[i + j]
  <2>1. /\ b \in Seq(S) /\ Len(b) = IF i + 1 <= l THEN l - (i + 1) + 1 ELSE 0
        /\ \A j \in 1..(l - (i + 1) + 1) : b[j] = s[(i + 1) + j - 1]
    BY <1>1, SubSeqProperties
  <2> HIDE DEF b, l
  <2>2. Len(b) = l - i
    BY <1>1, <2>1
  <2>3. ASSUME NEW j \in 1..(l - i) PROVE b[j] = s[i + j]
    <3>1. j \in 1..(l - (i + 1) + 1) /\ (i + 1) + j - 1 = i + j
      BY <1>1
    <3> QED
      BY <2>1, <3>1
  <2> QED
    BY <2>1, <2>2, <2>3
<1>4. r = a \o b
  BY DEF RemoveAt
<1> HIDE DEF a, b, l, r
<1>5. /\ a \o b \in Seq(S) /\ Len(a \o b) = Len(a) + Len(b)
      /\ \A j \in 1..(Len(a) + Len(b)) : (a \o b)[j] = IF j <= Len(a) THEN a[j] ELSE b[j - Len(a)]
  BY <1>2, <1>3, ConcatProperties
<1>6. r \in Seq(S) /\ Len(r) = l - 1
  BY <1>1, <1>2, <1>3, <1>4, <1>5
<1>7. ASSUME NEW j \in 1..(l - 1) PROVE r[j] = IF j < i THEN s[j] ELSE s[j + 1]
  <2>1. r[j] = IF j <= i - 1 THEN a[j] ELSE b[j - (i - 1)]
    <3>1. j \in 1..(Len(a) + Len(b)) /\ Len(a) = i - 1
      BY <1>1, <1>2, <1>3
    <3> QED
      BY <1>4, <1>5, <3>1
  <2>2. CASE j < i
    BY <1>1, <1>2, <2>1, <2>2
  <2>3. CASE j >= i
    <3>1. j - (i - 1) \in 1..(l - i) /\ i + (j - (i - 1)) = j + 1 /\ ~(j <= i - 1) /\ ~(j < i)
      BY <1>1, <2>3
    <3> QED
      BY <1>3, <2>1, <3>1
  <2> QED
    BY <1>1, <2>2, <2>3
<1> QED
  BY <1>6, <1>7 DEF r, l
-----------------------------------------------------------------------------
Values == Objects \cup {None}

(* The list is that of the nodes there are.                                  *)
ListInv ==
    /\ DOMAIN nodes \subseteq Nodes
    /\ list = None => DOMAIN nodes = {}
    /\ list # None => /\ list \in Seq(Nodes) /\ IsInjective(list)
                      /\ ToSet(list) = DOMAIN nodes

TypeInv ==
    /\ \A n \in DOMAIN nodes : DOMAIN nodes[n] = 1..Params
    /\ wanted \in [Nodes -> [1..Params -> Values \cup Ties]]
    /\ delays \in [Delays -> Nat \cup {None}]
    /\ aged \subseteq {d \in Delays : delays[d] # None}
    /\ delay_params \subseteq {t \in Ties : t.level = 0}
    /\ level_params \subseteq {t \in Ties : t.level # 0}

(* What a parameter is tied to is in the one registry or the other, and what *)
(* the registries say of the nodes there are is what was asked for last.     *)
Registry(t) == IF t.level = 0 THEN delay_params ELSE level_params

WantedInv ==
    \A n \in DOMAIN nodes : \A k \in 1..Params : wanted[n][k] \in Ties =>
        LET w == wanted[n][k]
        IN  /\ w \in Registry(w) /\ w.node = n /\ w.param = k
            /\ delays[w.delay] # None
            /\ w.level # 0 => \E o \in ToSet(Slots[w.delay]) : w.level \in DOMAIN Levels[o]

RegistryInv ==
    \A t \in delay_params \cup level_params :
        t.node \in DOMAIN nodes => wanted[t.node][t.param] = t

TiesInv == ListInv /\ TypeInv /\ WantedInv /\ RegistryInv /\ ParametersAsSet
-----------------------------------------------------------------------------
LEMMA ConstantFacts ==
    /\ IsFiniteSet(Nodes) /\ Params \in Nat \ {0}
    /\ None \notin Objects /\ None \notin Nat /\ None \notin Ties /\ None \notin Seq(Nodes)
    /\ \A o \in Objects : o \notin Ties
    /\ \A o \in Objects : Levels[o] \in Seq(Objects)
    /\ \A d \in Delays : Slots[d] \in Seq(Objects) /\ Len(Slots[d]) \in Nat /\ Len(Slots[d]) > 0
    /\ AutoLocal \subseteq UserNodes /\ UserNodes \subseteq Nodes
<1>1. \A d \in Delays : Slots[d] \in Seq(Objects) /\ Slots[d] # <<>>
  BY ReferencesAssumption
<1>2. \A d \in Delays : Len(Slots[d]) \in Nat /\ Len(Slots[d]) > 0
  BY <1>1
<1> QED
  BY <1>1, <1>2, ReferencesAssumption

LEMMA SameLevels ==
  ASSUME NEW d \in Delays, NEW a \in ToSet(Slots[d]), NEW b \in ToSet(Slots[d])
  PROVE  DOMAIN Levels[a] = DOMAIN Levels[b]
<1>1. a \in Objects /\ b \in Objects
  BY ConstantFacts DEF ToSet
<1>2. Levels[a] \in Seq(Objects) /\ Levels[b] \in Seq(Objects) /\ Len(Levels[a]) = Len(Levels[b])
  BY <1>1, ReferencesAssumption
<1> QED
  BY <1>2

(* Taking a node out of the list takes it out of the set of nodes.           *)
LEMMA RemovedFromList ==
  ASSUME NEW s \in Seq(Nodes), IsInjective(s), NEW i \in DOMAIN s
  PROVE  /\ RemoveAt(s, i) \in Seq(Nodes) /\ IsInjective(RemoveAt(s, i))
         /\ ToSet(RemoveAt(s, i)) = ToSet(s) \ {s[i]}
<1> DEFINE r == RemoveAt(s, i)
           l == Len(s)
<1>1. l \in Nat /\ i \in 1..l /\ DOMAIN s = 1..l /\ \A j \in 1..l : s[j] \in Nodes
  OBVIOUS
<1>2. /\ r \in Seq(Nodes) /\ Len(r) = l - 1 /\ DOMAIN r = 1..(l - 1)
      /\ \A j \in 1..(l - 1) : r[j] = IF j < i THEN s[j] ELSE s[j + 1]
  BY <1>1, RemovedAt
<1> HIDE DEF r, l
<1>3. \A a, b \in 1..l : s[a] = s[b] => a = b
  BY <1>1 DEF IsInjective
<1>4. IsInjective(r)
  BY <1>1, <1>2, <1>3 DEF IsInjective
<1>5. ASSUME NEW j \in 1..(l - 1) PROVE r[j] \in ToSet(s) \ {s[i]}
  BY <1>1, <1>2, <1>3 DEF ToSet
<1>6. ASSUME NEW j \in 1..l, j # i PROVE s[j] \in ToSet(r)
  <2>1. CASE j < i
    <3>1. j \in 1..(l - 1) /\ r[j] = s[j]
      BY <1>1, <1>2, <2>1
    <3> QED
      BY <1>2, <3>1 DEF ToSet
  <2>2. CASE j > i
    <3>1. j - 1 \in 1..(l - 1) /\ r[j - 1] = s[j]
      BY <1>1, <1>2, <2>2
    <3> QED
      BY <1>2, <3>1 DEF ToSet
  <2> QED
    BY <1>1, <1>6, <2>1, <2>2
<1>7. ToSet(r) = ToSet(s) \ {s[i]}
  BY <1>1, <1>2, <1>5, <1>6 DEF ToSet
<1> QED
  BY <1>2, <1>4, <1>7 DEF r

LEMMA InitList ==
  ASSUME NEW s \in [1..Cardinality(Nodes) -> Nodes]
  PROVE  s \in Seq(Nodes)
BY ConstantFacts, FS_CardinalityType

LEMMA SlotIsOneOf ==
  ASSUME NEW current, NEW d \in Delays, NEW age \in Nat, current[d] \in Nat
  PROVE  Slot(current, d, age) \in ToSet(Slots[d]) /\ Slot(current, d, age) \in Objects
<1> DEFINE count == Len(Slots[d])
           place == (current[d] + count - (age % count)) % count
<1>1. count \in Nat /\ count > 0 /\ Slots[d] \in Seq(Objects) /\ DOMAIN Slots[d] = 1..count
  BY ConstantFacts
<1> HIDE DEF count
<1>2. place + 1 \in 1..count
  <2>1. \A x \in Int : x % count \in 0..(count - 1)
    BY <1>1
  <2>2. current[d] + count - (age % count) \in Int
    BY <1>1, <2>1
  <2>3. place \in 0..(count - 1)
    BY <2>1, <2>2
  <2> QED
    BY <1>1, <2>3
<1> HIDE DEF place
<1>3. Slots[d][place + 1] \in ToSet(Slots[d]) /\ Slots[d][place + 1] \in Objects
  BY <1>1, <1>2 DEF ToSet
<1> QED
  BY <1>3 DEF Slot, place, count

(* What a tie leads to is in a slot of the delay, or a level of what is.     *)
LEMMA TiedIsOwned ==
  ASSUME NEW current, NEW t \in Ties, current[t.delay] \in Nat,
         t.level # 0 => \E o \in ToSet(Slots[t.delay]) : t.level \in DOMAIN Levels[o]
  PROVE  Tied(current, t) \in AllSlots \cup AllLevels
<1> DEFINE o == Slot(current, t.delay, t.age)
<1>1. t.delay \in Delays /\ t.age \in Nat
  BY DEF Ties
<1>2. o \in ToSet(Slots[t.delay]) /\ o \in Objects
  BY <1>1, SlotIsOneOf
<1> HIDE DEF o
<1>3. o \in AllSlots
  BY <1>1, <1>2 DEF AllSlots
<1>4. t.level # 0 => Levels[o][t.level] \in AllLevels
  <2>1. t.level # 0 => t.level \in DOMAIN Levels[o]
    BY <1>1, <1>2, SameLevels
  <2> QED
    BY <1>2, <2>1 DEF AllLevels, ToSet
<1>5. Tied(current, t) = IF t.level = 0 THEN o ELSE Levels[o][t.level]
  BY DEF Tied, o
<1> QED
  BY <1>3, <1>4, <1>5
-----------------------------------------------------------------------------
(* The two passes of resolve_delay_params_for_graph give every parameter of  *)
(* the graph that should follow a delay what it should follow.               *)
LEMMA OneTie ==
  ASSUME TiesInv, NEW n \in DOMAIN nodes, NEW k \in 1..Params
  PROVE  /\ wanted[n][k] \in Ties /\ wanted[n][k].level = 0 =>
              TieOf(delay_params, n, k) = {wanted[n][k]} /\ TieOf(level_params, n, k) = {}
         /\ wanted[n][k] \in Ties /\ wanted[n][k].level # 0 =>
              TieOf(delay_params, n, k) = {} /\ TieOf(level_params, n, k) = {wanted[n][k]}
         /\ wanted[n][k] \notin Ties =>
              TieOf(delay_params, n, k) = {} /\ TieOf(level_params, n, k) = {}
<1> DEFINE w == wanted[n][k]
<1>1. /\ \A t \in TieOf(delay_params, n, k) : t = w /\ t \in Ties /\ t.level = 0
      /\ \A t \in TieOf(level_params, n, k) : t = w /\ t \in Ties /\ t.level # 0
  BY DEF TiesInv, TypeInv, RegistryInv, TieOf
<1>2. w \in Ties => w \in Registry(w) /\ w.node = n /\ w.param = k
  BY DEF TiesInv, WantedInv
<1>3. w \in Ties => IF w.level = 0 THEN w \in TieOf(delay_params, n, k)
                                   ELSE w \in TieOf(level_params, n, k)
  BY <1>2 DEF Registry, TieOf
<1> HIDE DEF w
<1>4. /\ w \in Ties /\ w.level = 0 =>
              TieOf(delay_params, n, k) = {w} /\ TieOf(level_params, n, k) = {}
      /\ w \in Ties /\ w.level # 0 =>
              TieOf(delay_params, n, k) = {} /\ TieOf(level_params, n, k) = {w}
      /\ w \notin Ties => TieOf(delay_params, n, k) = {} /\ TieOf(level_params, n, k) = {}
  BY <1>1, <1>3
<1> QED
  BY <1>4 DEF w

LEMMA FollowsWanted ==
  ASSUME TiesInv, NEW current, NEW n \in DOMAIN nodes, NEW k \in 1..Params
  PROVE  Follow(current, level_params, Follow(current, delay_params, nodes))[n][k] =
           IF wanted[n][k] \in Ties THEN Tied(current, wanted[n][k]) ELSE nodes[n][k]
<1> DEFINE first == Follow(current, delay_params, nodes)
           both  == Follow(current, level_params, first)
           of(ties_) == CHOOSE t \in TieOf(ties_, n, k) : TRUE
<1>1. Listed(n)
  BY DEF Listed, TiesInv, ListInv
<1>2. /\ DOMAIN first = DOMAIN nodes
      /\ first[n][k] = IF TieOf(delay_params, n, k) # {}
                         THEN Tied(current, of(delay_params)) ELSE nodes[n][k]
  BY <1>1 DEF Follow
<1> HIDE DEF first
<1>3. both[n][k] = IF TieOf(level_params, n, k) # {}
                     THEN Tied(current, of(level_params)) ELSE first[n][k]
  BY <1>1, <1>2 DEF Follow
<1>4. \A ties_ : TieOf(ties_, n, k) = {wanted[n][k]} => of(ties_) = wanted[n][k]
  OBVIOUS
<1> HIDE DEF both, of
<1>5. CASE wanted[n][k] \in Ties /\ wanted[n][k].level = 0
  <2>1. TieOf(delay_params, n, k) = {wanted[n][k]} /\ TieOf(level_params, n, k) = {}
    BY <1>5, OneTie
  <2> QED
    BY <1>2, <1>3, <1>4, <1>5, <2>1 DEF both, first
<1>6. CASE wanted[n][k] \in Ties /\ wanted[n][k].level # 0
  <2>1. TieOf(level_params, n, k) = {wanted[n][k]}
    BY <1>6, OneTie
  <2> QED
    BY <1>3, <1>4, <1>6, <2>1 DEF both, first
<1>7. CASE wanted[n][k] \notin Ties
  <2>1. TieOf(delay_params, n, k) = {} /\ TieOf(level_params, n, k) = {}
    BY <1>7, OneTie
  <2> QED
    BY <1>2, <1>3, <1>7, <2>1 DEF both, first
<1> QED
  BY <1>5, <1>6, <1>7

(* The values of a parameter that the application may have asked for.        *)
LEMMA WantedKinds ==
  ASSUME TiesInv, NEW n \in DOMAIN nodes, NEW k \in 1..Params
  PROVE  /\ n \in Nodes
         /\ wanted[n][k] \in Ties \/ wanted[n][k] = None \/ wanted[n][k] \in Objects
         /\ wanted[n][k] \in Ties => wanted[n][k] # None /\ wanted[n][k] \notin Objects
                                     /\ wanted[n][k].delay \in Delays
                                     /\ nodes[n][k] = Tied(delays, wanted[n][k])
         /\ wanted[n][k] \notin Ties => nodes[n][k] = wanted[n][k]
<1>1. n \in Nodes
  BY DEF TiesInv, ListInv
<1>2. wanted[n][k] \in Values \cup Ties
  <2>1. wanted \in [Nodes -> [1..Params -> Values \cup Ties]]
    BY DEF TiesInv, TypeInv
  <2> QED
    BY <1>1, <2>1
<1>3. wanted[n][k] \in Ties => wanted[n][k] # None /\ wanted[n][k] \notin Objects
                               /\ wanted[n][k].delay \in Delays
  BY ConstantFacts DEF Ties
<1>4. wanted[n][k] \in Ties => delays[wanted[n][k].delay] # None
  BY DEF TiesInv, WantedInv
<1> QED
  BY <1>1, <1>2, <1>3, <1>4 DEF TiesInv, ParametersAsSet, Values

LEMMA ResolveKeepsTies ==
  ASSUME TiesInv, NEW current, resolve_delay_params_for_graph(current), delays' = current,
         current \in [Delays -> Nat \cup {None}],
         \A d \in Delays : current[d] = None <=> delays[d] = None,
         UNCHANGED <<list, aged, delay_params, level_params, wanted>>
  PROVE  TiesInv'
<1>1. /\ DOMAIN nodes' = DOMAIN nodes
      /\ \A n \in DOMAIN nodes : DOMAIN nodes'[n] = 1..Params
  BY DEF resolve_delay_params_for_graph, Follow
<1>2. \A n \in DOMAIN nodes, k \in 1..Params :
        nodes'[n][k] = IF wanted[n][k] \in Ties THEN Tied(current, wanted[n][k]) ELSE nodes[n][k]
  BY FollowsWanted DEF resolve_delay_params_for_graph
<1>3. ListInv' /\ TypeInv' /\ RegistryInv'
  BY <1>1 DEF TiesInv, ListInv, TypeInv, RegistryInv
<1>4. WantedInv'
  <2> SUFFICES ASSUME NEW n \in DOMAIN nodes, NEW k \in 1..Params, wanted[n][k] \in Ties
               PROVE  current[wanted[n][k].delay] # None
    BY <1>1 DEF WantedInv, TiesInv, Registry
  <2> QED
    BY WantedKinds DEF TiesInv, WantedInv
<1>5. ParametersAsSet'
  <2> SUFFICES ASSUME NEW n \in DOMAIN nodes, NEW k \in 1..Params
               PROVE  nodes'[n][k] =
                        IF wanted[n][k] = None \/ wanted[n][k] \in Objects THEN wanted[n][k]
                        ELSE IF current[wanted[n][k].delay] = None THEN None
                        ELSE Tied(current, wanted[n][k])
    BY <1>1 DEF ParametersAsSet
  <2>1. CASE wanted[n][k] \in Ties
    BY <1>2, <2>1, WantedKinds DEF TiesInv, WantedInv
  <2>2. CASE wanted[n][k] \notin Ties
    BY <1>2, <2>2, WantedKinds
  <2> QED
    BY <2>1, <2>2
<1> QED
  BY <1>3, <1>4, <1>5 DEF TiesInv
-----------------------------------------------------------------------------
(* Setting a parameter to an object, or to what a delay has at some age.     *)
LEMMA TiedAreNotNamed ==
  ASSUME TiesInv, NEW t \in delay_params \cup level_params, t.node \in DOMAIN nodes
  PROVE  /\ t \in Ties /\ t.param \in 1..Params
         /\ nodes[t.node][t.param] \in AllSlots \cup AllLevels
<1>1. t \in Ties /\ t.param \in 1..Params /\ t.delay \in Delays
  BY DEF TiesInv, TypeInv, Ties
<1>2. wanted[t.node][t.param] = t
  BY DEF TiesInv, RegistryInv
<1>3. /\ delays[t.delay] # None /\ nodes[t.node][t.param] = Tied(delays, t)
      /\ t.level # 0 => \E o \in ToSet(Slots[t.delay]) : t.level \in DOMAIN Levels[o]
  BY <1>1, <1>2, WantedKinds DEF TiesInv, WantedInv
<1>4. delays[t.delay] \in Nat
  BY <1>1, <1>3 DEF TiesInv, TypeInv
<1> QED
  BY <1>1, <1>3, <1>4, TiedIsOwned

LEMMA SetKeepsTies ==
  ASSUME TiesInv, NEW n \in DOMAIN nodes, NEW k \in 1..Params, NEW o \in Objects,
         ~IsTied(n, k), Assign(n, k, o), wanted' = [wanted EXCEPT ![n][k] = o],
         UNCHANGED <<list, delays, aged, delay_params, level_params>>
  PROVE  TiesInv'
<1>1. /\ n \in Nodes /\ wanted[n] \in [1..Params -> Values \cup Ties]
      /\ \A m \in DOMAIN nodes : m \in Nodes /\ DOMAIN nodes[m] = 1..Params
  BY DEF TiesInv, ListInv, TypeInv
<1>2. /\ DOMAIN nodes' = DOMAIN nodes /\ \A m \in DOMAIN nodes : DOMAIN nodes'[m] = 1..Params
      /\ nodes'[n][k] = o
      /\ \A m \in DOMAIN nodes, j \in 1..Params : m # n \/ j # k => nodes'[m][j] = nodes[m][j]
  BY <1>1 DEF Assign
<1>3. /\ wanted' \in [Nodes -> [1..Params -> Values \cup Ties]] /\ wanted'[n][k] = o
      /\ \A m \in Nodes, j \in 1..Params : m # n \/ j # k => wanted'[m][j] = wanted[m][j]
  BY <1>1 DEF TiesInv, TypeInv, Values
<1>4. ListInv' /\ TypeInv'
  BY <1>2, <1>3 DEF TiesInv, ListInv, TypeInv
<1>5. WantedInv'
  <2> SUFFICES ASSUME NEW m \in DOMAIN nodes, NEW j \in 1..Params, wanted'[m][j] \in Ties
               PROVE  (m # n \/ j # k) /\ wanted'[m][j] = wanted[m][j]
    BY <1>2 DEF TiesInv, WantedInv, Registry
  <2> QED
    BY <1>1, <1>3, ConstantFacts
<1>6. RegistryInv'
  <2> SUFFICES ASSUME NEW t \in delay_params \cup level_params, t.node \in DOMAIN nodes
               PROVE  wanted'[t.node][t.param] = t
    BY <1>2 DEF RegistryInv
  <2>1. t.param \in 1..Params /\ wanted[t.node][t.param] = t
    BY TiedAreNotNamed DEF TiesInv, RegistryInv
  <2>2. t.node # n \/ t.param # k
    BY DEF IsTied
  <2> QED
    BY <1>1, <1>3, <2>1, <2>2
<1>7. ParametersAsSet'
  <2> SUFFICES ASSUME NEW m \in DOMAIN nodes, NEW j \in 1..Params
               PROVE  nodes'[m][j] =
                        IF wanted'[m][j] = None \/ wanted'[m][j] \in Objects THEN wanted'[m][j]
                        ELSE IF delays[wanted'[m][j].delay] = None THEN None
                        ELSE Tied(delays, wanted'[m][j])
    BY <1>2 DEF ParametersAsSet
  <2>1. CASE m = n /\ j = k
    BY <1>2, <1>3, <2>1
  <2>2. CASE m # n \/ j # k
    BY <1>1, <1>2, <1>3, <2>2 DEF TiesInv, ParametersAsSet
  <2> QED
    BY <2>1, <2>2
<1> QED
  BY <1>4, <1>5, <1>6, <1>7 DEF TiesInv

GoodTie(n, k, w, slotTies, levelTies) ==
    /\ w \in IF w.level = 0 THEN slotTies ELSE levelTies
    /\ w.node = n /\ w.param = k
    /\ w.level # 0 => \E o \in ToSet(Slots[w.delay]) : w.level \in DOMAIN Levels[o]

LEMMA FollowKeepsTies ==
  ASSUME TiesInv, ~Anything, NEW n \in Nodes, NEW k \in 1..Params, NEW d \in Delays,
         NEW age \in Nat, NEW level \in Nat, SetFromDelay(n, k, d, age, level)
  PROVE  TiesInv'
<1> DEFINE tie == [node |-> n, param |-> k, delay |-> d, age |-> age, level |-> level]
           others(ties_) == {t \in ties_ : t.node # n \/ t.param # k}
<1>1. /\ n \in DOMAIN nodes /\ wanted[n] \in [1..Params -> Values \cup Ties]
      /\ \A m \in DOMAIN nodes : m \in Nodes /\ DOMAIN nodes[m] = 1..Params
  BY DEF SetFromDelay, Alive, TiesInv, ListInv, TypeInv
<1>2. /\ tie \in Ties /\ tie.node = n /\ tie.param = k /\ tie.delay = d /\ tie.level = level
  BY DEF Ties
<1>3. /\ DOMAIN nodes' = DOMAIN nodes /\ \A m \in DOMAIN nodes : DOMAIN nodes'[m] = 1..Params
      /\ nodes'[n][k] = Tied(delays, tie)
      /\ \A m \in DOMAIN nodes, j \in 1..Params : m # n \/ j # k => nodes'[m][j] = nodes[m][j]
  BY <1>1 DEF SetFromDelay, Assign
<1>4. /\ wanted' \in [Nodes -> [1..Params -> Values \cup Ties]] /\ wanted'[n][k] = tie
      /\ \A m \in Nodes, j \in 1..Params : m # n \/ j # k => wanted'[m][j] = wanted[m][j]
  <2>1. wanted' = [wanted EXCEPT ![n][k] = tie]
    BY DEF SetFromDelay
  <2> HIDE DEF tie
  <2> QED
    BY <1>1, <1>2, <2>1 DEF TiesInv, TypeInv
<1>5. /\ delays[d] # None /\ UNCHANGED <<list, delays, aged>>
      /\ level # 0 => level \in DOMAIN Levels[Slot(delays, d, age)]
      /\ \A t \in delay_params \cup level_params :
            t.node = n /\ t.param = k => (t.level = 0 <=> level = 0)
  BY DEF SetFromDelay, Careful, ages
<1>6. /\ level = 0 => /\ delay_params' = others(delay_params) \cup {tie}
                      /\ level_params' = level_params
      /\ level # 0 => /\ level_params' = others(level_params) \cup {tie}
                      /\ delay_params' = delay_params
  BY DEF SetFromDelay, Put
<1>7. /\ level = 0 => others(level_params) = level_params
      /\ level # 0 => others(delay_params) = delay_params
  BY <1>5 DEF TiesInv, TypeInv
<1>8. /\ delay_params' \subseteq others(delay_params) \cup {tie}
      /\ level_params' \subseteq others(level_params) \cup {tie}
      /\ others(delay_params) \subseteq delay_params' /\ others(level_params) \subseteq level_params'
      /\ tie \in IF level = 0 THEN delay_params' ELSE level_params'
  BY <1>6, <1>7
<1> HIDE DEF tie
<1>9. ListInv' /\ TypeInv'
  <2>1. delay_params' \subseteq {t \in Ties : t.level = 0} /\ level_params' \subseteq {t \in Ties : t.level # 0}
    BY <1>2, <1>6 DEF TiesInv, TypeInv
  <2> QED
    BY <1>3, <1>4, <1>5, <2>1 DEF TiesInv, ListInv, TypeInv
<1>10. WantedInv'
  <2>1. ASSUME NEW m \in DOMAIN nodes, NEW j \in 1..Params, m # n \/ j # k, wanted'[m][j] \in Ties
        PROVE  GoodTie(m, j, wanted'[m][j], delay_params', level_params')
    <3> DEFINE w == wanted[m][j]
    <3>1. wanted'[m][j] = w
      BY <1>1, <1>4, <2>1
    <3>2. GoodTie(m, j, w, delay_params, level_params)
      BY <2>1, <3>1 DEF TiesInv, WantedInv, Registry, GoodTie
    <3> HIDE DEF w
    <3>3. w \in IF w.level = 0 THEN delay_params' ELSE level_params'
      BY <1>8, <2>1, <3>2 DEF GoodTie
    <3> QED
      BY <3>1, <3>2, <3>3 DEF GoodTie
  <2>2. GoodTie(n, k, tie, delay_params', level_params')
    <3>1. level # 0 => \E o \in ToSet(Slots[d]) : level \in DOMAIN Levels[o]
      <4>1. delays[d] \in Nat
        BY <1>5 DEF TiesInv, TypeInv
      <4> QED
        BY <1>5, <4>1, SlotIsOneOf
    <3> QED
      BY <1>2, <1>8, <3>1 DEF GoodTie
  <2>3. \A m \in DOMAIN nodes, j \in 1..Params : wanted'[m][j] \in Ties =>
            GoodTie(m, j, wanted'[m][j], delay_params', level_params') /\ delays'[wanted'[m][j].delay] # None
    <3> SUFFICES ASSUME NEW m \in DOMAIN nodes, NEW j \in 1..Params, wanted'[m][j] \in Ties
                 PROVE  /\ GoodTie(m, j, wanted'[m][j], delay_params', level_params')
                        /\ delays'[wanted'[m][j].delay] # None
      OBVIOUS
    <3>1. CASE m = n /\ j = k
      BY <1>2, <1>4, <1>5, <2>2, <3>1
    <3>2. CASE m # n \/ j # k
      <4>1. wanted'[m][j] = wanted[m][j]
        BY <1>1, <1>4, <3>2
      <4> QED
        BY <1>5, <2>1, <3>2, <4>1 DEF TiesInv, WantedInv
    <3> QED
      BY <3>1, <3>2
  <2> QED
    BY <1>3, <2>3 DEF WantedInv, Registry, GoodTie
<1>11. RegistryInv'
  <2> SUFFICES ASSUME NEW t \in delay_params' \cup level_params', t.node \in DOMAIN nodes
               PROVE  wanted'[t.node][t.param] = t
    BY <1>3 DEF RegistryInv
  <2>1. CASE t = tie
    BY <1>2, <1>4, <2>1
  <2>2. CASE t # tie
    <3>1. t \in delay_params \cup level_params /\ (t.node # n \/ t.param # k)
      BY <1>8, <2>2
    <3>2. t.param \in 1..Params /\ wanted[t.node][t.param] = t /\ t.node \in Nodes
      BY <1>1, <3>1, TiedAreNotNamed DEF TiesInv, RegistryInv
    <3> QED
      BY <1>4, <3>1, <3>2
  <2> QED
    BY <2>1, <2>2
<1>12. ParametersAsSet'
  <2> SUFFICES ASSUME NEW m \in DOMAIN nodes, NEW j \in 1..Params
               PROVE  nodes'[m][j] =
                        IF wanted'[m][j] = None \/ wanted'[m][j] \in Objects THEN wanted'[m][j]
                        ELSE IF delays[wanted'[m][j].delay] = None THEN None
                        ELSE Tied(delays, wanted'[m][j])
    BY <1>3, <1>5 DEF ParametersAsSet
  <2>1. CASE m = n /\ j = k
    BY <1>2, <1>3, <1>4, <1>5, <2>1, ConstantFacts
  <2>2. CASE m # n \/ j # k
    BY <1>1, <1>3, <1>4, <2>2 DEF TiesInv, ParametersAsSet
  <2> QED
    BY <2>1, <2>2
<1> QED
  BY <1>9, <1>10, <1>11, <1>12 DEF TiesInv

LEMMA AgedKeepsDelays ==
  ASSUME TiesInv, NEW which \in SUBSET {d \in Delays : delays[d] # None}
  PROVE  /\ Aged(delays, which) \in [Delays -> Nat \cup {None}]
         /\ \A d \in Delays : Aged(delays, which)[d] = None <=> delays[d] = None
<1>1. ASSUME NEW d \in which PROVE (delays[d] + 1) % Len(Slots[d]) \in Nat
  <2>1. delays[d] \in Nat /\ Len(Slots[d]) \in Nat /\ Len(Slots[d]) > 0
    BY ConstantFacts DEF TiesInv, TypeInv
  <2> QED
    BY <2>1
<1>2. ASSUME NEW d \in Delays
      PROVE  /\ Aged(delays, which)[d] \in Nat \cup {None}
             /\ Aged(delays, which)[d] = None <=> delays[d] = None
  <2>1. CASE d \in which
    BY <1>1, <2>1, ConstantFacts DEF Aged
  <2>2. CASE d \notin which
    BY <2>2 DEF Aged, TiesInv, TypeInv
  <2> QED
    BY <2>1, <2>2
<1>3. Aged(delays, which) = [d \in Delays |-> Aged(delays, which)[d]]
  BY DEF Aged
<1> QED
  BY <1>2, <1>3

LEMMA RestKeepsTies ==
  ASSUME TiesInv, UNCHANGED <<nodes, list, delays, aged, delay_params, level_params, wanted>>
  PROVE  TiesInv'
<1>1. ListInv' /\ TypeInv'
  BY DEF TiesInv, ListInv, TypeInv
<1>2. WantedInv' /\ RegistryInv'
  BY DEF TiesInv, WantedInv, Registry, RegistryInv
<1>3. ParametersAsSet'
  BY DEF TiesInv, ParametersAsSet
<1> QED
  BY <1>1, <1>2, <1>3 DEF TiesInv

LEMMA ReleaseDelayKeepsTies ==
  ASSUME TiesInv, ~Anything, NEW d \in Delays, vxReleaseDelay(d)
  PROVE  TiesInv'
<1>1. /\ d \notin aged /\ ~Followed(d) /\ delays' = [delays EXCEPT ![d] = None]
      /\ UNCHANGED <<nodes, list, aged, delay_params, level_params, wanted>>
  BY DEF vxReleaseDelay, Careful, ties
<1>2. ListInv' /\ TypeInv' /\ RegistryInv'
  BY <1>1 DEF TiesInv, ListInv, TypeInv, RegistryInv
<1>3. ASSUME NEW n \in DOMAIN nodes, NEW k \in 1..Params, wanted[n][k] \in Ties
      PROVE  wanted[n][k].delay # d /\ delays'[wanted[n][k].delay] = delays[wanted[n][k].delay]
  <2>1. wanted[n][k] \in delay_params \cup level_params /\ wanted[n][k].node = n
    BY <1>3 DEF TiesInv, WantedInv, Registry
  <2>2. list # None /\ n \in ToSet(list)
    BY DEF TiesInv, ListInv
  <2>3. wanted[n][k].delay # d /\ wanted[n][k].delay \in Delays
    BY <1>1, <1>3, <2>1, <2>2, WantedKinds DEF Followed
  <2> QED
    BY <1>1, <2>3 DEF TiesInv, TypeInv
<1>4. WantedInv'
  <2> SUFFICES ASSUME NEW n \in DOMAIN nodes, NEW k \in 1..Params, wanted[n][k] \in Ties
               PROVE  delays'[wanted[n][k].delay] # None
    BY <1>1 DEF WantedInv, TiesInv, Registry
  <2> QED
    BY <1>3 DEF TiesInv, WantedInv
<1>5. ParametersAsSet'
  <2> SUFFICES ASSUME NEW n \in DOMAIN nodes, NEW k \in 1..Params
               PROVE  nodes[n][k] =
                        IF wanted[n][k] = None \/ wanted[n][k] \in Objects THEN wanted[n][k]
                        ELSE IF delays'[wanted[n][k].delay] = None THEN None
                        ELSE Tied(delays', wanted[n][k])
    <3>1. nodes' = nodes /\ wanted' = wanted
      BY <1>1
    <3> QED
      BY <3>1 DEF ParametersAsSet
  <2>1. CASE wanted[n][k] \in Ties
    <3>1. delays'[wanted[n][k].delay] = delays[wanted[n][k].delay]
      BY <1>3, <2>1
    <3>2. Tied(delays', wanted[n][k]) = Tied(delays, wanted[n][k])
      BY <3>1 DEF Tied, Slot
    <3> QED
      BY <2>1, <3>1, <3>2, WantedKinds DEF TiesInv, WantedInv
  <2>2. CASE wanted[n][k] \notin Ties
    BY <2>2, WantedKinds
  <2> QED
    BY <2>1, <2>2
<1> QED
  BY <1>2, <1>4, <1>5 DEF TiesInv

LEMMA RemoveNodeKeepsTies ==
  ASSUME TiesInv, NEW n \in Nodes, vxRemoveNode(n)
  PROVE  TiesInv'
<1>1. /\ list # None /\ n \in DOMAIN nodes /\ UNCHANGED <<delays, aged, delay_params, level_params>>
      /\ nodes' = [j \in (DOMAIN nodes) \ {n} |-> nodes[j]]
      /\ wanted' = [wanted EXCEPT ![n] = Nothing]
  BY DEF vxRemoveNode, Alive, ages
<1>2. PICK at \in DOMAIN list : list[at] = n /\ list' = RemoveAt(list, at)
  BY DEF vxRemoveNode
<1>3. list' \in Seq(Nodes) /\ IsInjective(list') /\ ToSet(list') = ToSet(list) \ {n}
  BY <1>1, <1>2, RemovedFromList DEF TiesInv, ListInv
<1>4. ListInv'
  BY <1>1, <1>3, ConstantFacts DEF TiesInv, ListInv
<1>5. \A m \in DOMAIN nodes' : /\ m \in DOMAIN nodes /\ m \in Nodes /\ nodes'[m] = nodes[m]
                               /\ wanted'[m] = wanted[m]
  BY <1>1 DEF TiesInv, ListInv, TypeInv
<1>6. TypeInv'
  <2>1. Nothing \in [1..Params -> Values \cup Ties]
    BY DEF Nothing, Values
  <2> QED
    BY <1>1, <1>5, <2>1 DEF TiesInv, TypeInv
<1>7. WantedInv' /\ RegistryInv'
  BY <1>1, <1>5 DEF TiesInv, WantedInv, Registry, RegistryInv
<1>8. ParametersAsSet'
  <2> SUFFICES ASSUME NEW m \in DOMAIN nodes', NEW k \in 1..Params
               PROVE  nodes'[m][k] =
                        IF wanted'[m][k] = None \/ wanted'[m][k] \in Objects THEN wanted'[m][k]
                        ELSE IF delays[wanted'[m][k].delay] = None THEN None
                        ELSE Tied(delays, wanted'[m][k])
    BY <1>1 DEF ParametersAsSet
  <2> QED
    BY <1>5 DEF TiesInv, ParametersAsSet
<1> QED
  BY <1>4, <1>6, <1>7, <1>8 DEF TiesInv

LEMMA ReleaseGraphKeepsTies ==
  ASSUME TiesInv, vxReleaseGraph
  PROVE  TiesInv'
<1>1. /\ UNCHANGED <<delays, delay_params, level_params>> /\ list' = None /\ aged' = {}
      /\ wanted' = [n \in Nodes |-> Nothing] /\ nodes' = <<>>
  BY DEF vxReleaseGraph
<1>2. DOMAIN nodes' = {}
  BY <1>1
<1>3. Nothing \in [1..Params -> Values \cup Ties]
  BY DEF Nothing, Values
<1>4. ListInv' /\ TypeInv'
  BY <1>1, <1>2, <1>3 DEF TiesInv, ListInv, TypeInv
<1>5. WantedInv' /\ RegistryInv' /\ ParametersAsSet'
  BY <1>1, <1>2 DEF WantedInv, RegistryInv, ParametersAsSet
<1> QED
  BY <1>4, <1>5 DEF TiesInv

LEMMA InitTies == Init => TiesInv
<1> SUFFICES ASSUME Init PROVE TiesInv
  OBVIOUS
<1>1. /\ nodes = [n \in Nodes |-> Nothing] /\ wanted = [n \in Nodes |-> Nothing]
      /\ delays = [d \in Delays |-> 0] /\ delay_params = {} /\ level_params = {} /\ aged = {}
  BY DEF Init
<1>2. list \in [1..Cardinality(Nodes) -> Nodes] /\ IsInjective(list) /\ ToSet(list) = Nodes
  BY DEF Init
<1>3. \A n \in DOMAIN nodes, k \in 1..Params : nodes[n][k] = None /\ wanted[n][k] = None
  BY <1>1 DEF Nothing
<1>4. ListInv
  BY <1>1, <1>2, InitList, ConstantFacts DEF ListInv
<1>5. TypeInv
  BY <1>1 DEF TypeInv, Nothing, Values
<1>6. WantedInv /\ RegistryInv /\ ParametersAsSet
  BY <1>1, <1>3, ConstantFacts DEF WantedInv, RegistryInv, ParametersAsSet
<1> QED
  BY <1>4, <1>5, <1>6 DEF TiesInv

LEMMA TiesStep ==
  ASSUME TiesInv, ~Anything, [Next]_vars
  PROVE  TiesInv'
<1>1. CASE UNCHANGED vars
  BY <1>1, RestKeepsTies DEF vars, ages, ties
<1>2. CASE Counting
  <2>1. UNCHANGED <<nodes, list, delays, aged, delay_params, level_params, wanted>>
    BY <1>2 DEF Counting, vxRetainReference, ReleaseObject, vxGetPyramidLevel, ages, ties
  <2> QED
    BY <2>1, RestKeepsTies
<1>3. CASE Setting
  <2>1. PICK n \in Nodes, k \in 1..Params :
           \/ \E o \in Objects : vxSetParameterByIndex(n, k, o) \/ vxSetParameterByReference(n, k, o)
           \/ \E d \in Delays : \E age \in 0..(Len(Slots[d]) - 1), level \in 0..1 :
                  SetFromDelay(n, k, d, age, level)
    BY <1>3 DEF Setting
  <2>2. ASSUME NEW o \in Objects, vxSetParameterByIndex(n, k, o) PROVE TiesInv'
    BY <2>2, SetKeepsTies DEF vxSetParameterByIndex, Alive, Careful, ages
  <2>3. ASSUME NEW o \in Objects, vxSetParameterByReference(n, k, o) PROVE TiesInv'
    <3>1. n \in DOMAIN nodes /\ nodes[n][k] = o /\ o \notin AllSlots \cup AllLevels
      BY <2>3 DEF vxSetParameterByReference, Alive, Careful, Named
    <3>2. ~IsTied(n, k)
      BY <3>1, TiedAreNotNamed DEF IsTied
    <3> QED
      BY <2>3, <3>1, <3>2, SetKeepsTies DEF vxSetParameterByReference, ages
  <2>4. ASSUME NEW d \in Delays, NEW age \in 0..(Len(Slots[d]) - 1), NEW level \in 0..1,
               SetFromDelay(n, k, d, age, level)
        PROVE  TiesInv'
    <3>1. age \in Nat /\ level \in Nat
      OBVIOUS
    <3> QED
      BY <2>4, <3>1, FollowKeepsTies
  <2> QED
    BY <2>1, <2>2, <2>3, <2>4
<1>4. CASE Delaying
  <2>1. PICK d \in Delays : vxAgeDelay(d) \/ vxRegisterAutoAging(d) \/ vxReleaseDelay(d)
    BY <1>4 DEF Delaying
  <2>2. CASE vxAgeDelay(d)
    <3>1. {d} \in SUBSET {e \in Delays : delays[e] # None}
      BY <2>2 DEF vxAgeDelay
    <3> QED
      BY <2>2, <3>1, AgedKeepsDelays, ResolveKeepsTies DEF vxAgeDelay, ties
  <2>3. CASE vxRegisterAutoAging(d)
    <3>1. /\ delays[d] # None /\ aged' = aged \cup {d}
          /\ UNCHANGED <<nodes, list, delays, delay_params, level_params, wanted>>
      BY <2>3 DEF vxRegisterAutoAging, ties
    <3> QED
      <4>1. ListInv' /\ TypeInv'
        BY <3>1 DEF TiesInv, ListInv, TypeInv
      <4>2. WantedInv' /\ RegistryInv'
        BY <3>1 DEF TiesInv, WantedInv, Registry, RegistryInv
      <4>3. ParametersAsSet'
        BY <3>1 DEF TiesInv, ParametersAsSet
      <4> QED
        BY <4>1, <4>2, <4>3 DEF TiesInv
  <2>4. CASE vxReleaseDelay(d)
    BY <2>4, ReleaseDelayKeepsTies
  <2> QED
    BY <2>1, <2>2, <2>3, <2>4
<1>5. CASE Graphing
  <2>1. CASE VerifySucceeds \/ vxRemoveKernel \/
             \E ending \in Endings, k \in 1..Cardinality(Nodes) : VerifyFails(k, ending)
    <3>1. UNCHANGED <<nodes, list, delays, aged, delay_params, level_params, wanted>>
      BY <2>1 DEF VerifySucceeds, vxRemoveKernel, VerifyFails, ages, ties
    <3> QED
      BY <3>1, RestKeepsTies
  <2>2. ASSUME NEW fails \in BOOLEAN, vxProcessGraph(fails) PROVE TiesInv'
    <3>1. CASE fails
      <4>1. delays \in [Delays -> Nat \cup {None}]
        BY DEF TiesInv, TypeInv
      <4> QED
        BY <2>2, <3>1, <4>1, ResolveKeepsTies DEF vxProcessGraph, ties
    <3>2. CASE ~fails
      <4>1. aged \in SUBSET {e \in Delays : delays[e] # None}
        BY DEF TiesInv, TypeInv
      <4> QED
        BY <2>2, <3>2, <4>1, AgedKeepsDelays, ResolveKeepsTies DEF vxProcessGraph, ties
    <3> QED
      BY <3>1, <3>2
  <2> QED
    BY <1>5, <2>1, <2>2, ReleaseGraphKeepsTies, RemoveNodeKeepsTies DEF Graphing
<1> QED
  BY <1>1, <1>2, <1>3, <1>4, <1>5 DEF Next

(* A careful application finds in every parameter what it put there, or what *)
(* is now at the age it asked for, however delays are aged.                  *)
THEOREM ParametersFollow ==
  ASSUME ~Anything
  PROVE  Spec => []ParametersAsSet
<1>1. Init => TiesInv
  BY InitTies
<1>2. TiesInv /\ [Next]_vars => TiesInv'
  BY TiesStep
<1>3. TiesInv => ParametersAsSet
  BY DEF TiesInv
<1> QED
  BY <1>1, <1>2, <1>3, PTL DEF Spec
-----------------------------------------------------------------------------
(* Inductions.  What holds of 0, and of each number when it holds of the one *)
(* before, holds of all; so does, of all subsets of a finite set, what holds  *)
(* of the empty one, and of each when it holds without one of its elements.  *)
LEMMA OnNumbers ==
  ASSUME NEW n \in Nat, NEW Good, 0 \in Good, \A i \in 1..n : i - 1 \in Good => i \in Good
  PROVE  \A i \in 0..n : i \in Good
<1> DEFINE Bad == {i \in 0..n : i \notin Good}
<1>1. SUFFICES ASSUME Bad # {} PROVE FALSE
  OBVIOUS
<1>2. Bad \subseteq Nat
  OBVIOUS
<1>3. \E i \in Bad : \A j \in Bad : ~(<<j, i>> \in OpToRel(<, Nat))
  <2> HIDE DEF Bad
  <2> QED
    BY <1>1, <1>2, NatLessThanWellFounded, WFMin
<1>4. PICK i \in Bad : \A j \in Bad : ~(j < i)
  BY <1>2, <1>3 DEF OpToRel
<1>5. i \in 1..n /\ i - 1 \in 0..n /\ i - 1 < i
  BY <1>4
<1> QED
  BY <1>4, <1>5

LEMMA OnSubsets ==
  ASSUME NEW S, IsFiniteSet(S), NEW Good, {} \in Good,
         \A s \in SUBSET S : s # {} => \E x \in s : s \ {x} \in Good => s \in Good
  PROVE  S \in Good
<1> DEFINE Bad == {s \in SUBSET S : s \notin Good}
<1>1. SUFFICES ASSUME Bad # {} PROVE FALSE
  OBVIOUS
<1>2. \E s \in Bad : \A t \in Bad : ~(<<t, s>> \in StrictSubsetOrdering(S))
  <2>1. IsWellFoundedOn(StrictSubsetOrdering(S), SUBSET S)
    BY FS_StrictSubsetOrderingWellFounded, FS_FiniteSubsetsOfFinite
  <2>2. Bad \subseteq SUBSET S
    OBVIOUS
  <2> HIDE DEF Bad
  <2> QED
    BY <1>1, <2>1, <2>2, WFMin
<1>3. PICK s \in Bad : \A t \in Bad : ~(<<t, s>> \in StrictSubsetOrdering(S))
  BY <1>2
<1>4. PICK x \in s : s \ {x} \in Good => s \in Good
  BY <1>3
<1>5. s \ {x} \in Bad
  BY <1>3, <1>4
<1>6. <<s \ {x}, s>> \in StrictSubsetOrdering(S)
  BY <1>3, <1>4 DEF StrictSubsetOrdering
<1> QED
  BY <1>3, <1>5, <1>6

(* A fold is the value, for all elements, of a function from sets of elements *)
(* to results; this is why there is one.                                     *)
Folding(f, S, b, G, ch) ==
    \A s \in SUBSET S : f[s] = IF s = {} THEN b ELSE G[<<ch[s], f[s \ {ch[s]}]>>]

LEMMA FoldExists ==
  ASSUME NEW S, IsFiniteSet(S), NEW D, NEW b \in D, NEW G \in [S \X D -> D],
         NEW ch \in [(SUBSET S) \ {{}} -> S], \A s \in SUBSET S : s # {} => ch[s] \in s
  PROVE  \E f \in [SUBSET S -> D] : Folding(f, S, b, G, ch)
<1> DEFINE n == Cardinality(S)
           Small(i) == {s \in SUBSET S : Cardinality(s) <= i}
           Folds(f, s) == f[s] = IF s = {} THEN b ELSE G[<<ch[s], f[s \ {ch[s]}]>>]
           Good == {i \in Nat : \E f \in [Small(i) -> D] : \A s \in Small(i) : Folds(f, s)}
<1>1. /\ n \in Nat
      /\ \A s \in SUBSET S : IsFiniteSet(s) /\ Cardinality(s) \in Nat /\ Cardinality(s) <= n
  BY FS_CardinalityType, FS_Subset
<1>2. ASSUME NEW s \in SUBSET S, s # {}
      PROVE  Cardinality(s \ {ch[s]}) = Cardinality(s) - 1 /\ Cardinality(s) > 0
  <2>1. IsFiniteSet(s) /\ ch[s] \in s
    BY <1>1, <1>2
  <2>2. Cardinality(s \ {ch[s]}) = Cardinality(s) - 1
    BY <2>1, FS_RemoveElement
  <2>3. Cardinality(s) # 0
    BY <1>2, <2>1, FS_EmptySet
  <2> QED
    BY <1>1, <2>2, <2>3
<1> HIDE DEF n
<1>3. 0 \in Good
  <2> DEFINE f == [s \in Small(0) |-> b]
  <2>1. ASSUME NEW s \in Small(0) PROVE s = {}
    <3>1. s \in SUBSET S /\ Cardinality(s) \in Nat /\ ~(Cardinality(s) > 0)
      BY <1>1
    <3> QED
      BY <1>2, <3>1
  <2>2. f \in [Small(0) -> D] /\ \A s \in Small(0) : Folds(f, s)
    BY <2>1
  <2> HIDE DEF f, Folds, Small
  <2> QED
    BY <2>2
<1>4. ASSUME NEW i \in 1..n, i - 1 \in Good PROVE i \in Good
  <2>1. PICK g \in [Small(i - 1) -> D] : \A s \in Small(i - 1) : Folds(g, s)
    BY <1>4
  <2> DEFINE f == [s \in Small(i) |-> IF s = {} THEN b ELSE G[<<ch[s], g[s \ {ch[s]}]>>]]
  <2>2. \A s \in Small(i) : s # {} => s \ {ch[s]} \in Small(i - 1) /\ ch[s] \in S
    BY <1>1, <1>2, <1>4
  <2>3. \A s \in Small(i - 1) : s \in Small(i)
    BY <1>1, <1>4
  <2>4. f \in [Small(i) -> D]
    <3> HIDE DEF Small, Folds
    <3> QED
      BY <2>2
  <2>5. \A s \in Small(i - 1) : f[s] = g[s]
    <3> HIDE DEF Small
    <3> QED
      BY <2>1, <2>3
  <2>6. \A s \in Small(i) : Folds(f, s)
    <3> HIDE DEF Small
    <3> QED
      BY <2>2, <2>5
  <2> HIDE DEF Folds, f, Small
  <2> QED
    BY <2>4, <2>6, <1>4
<1>5. n \in Good
  <2> HIDE DEF Good
  <2> QED
    BY <1>1, <1>3, <1>4, OnNumbers
<1>6. Small(n) = SUBSET S
  BY <1>1
<1> HIDE DEF Small
<1> QED
  BY <1>5, <1>6 DEF Folding

(* A fold of a sequence goes through its elements in order.                   *)
MaxFolding(f, n, D, b, G) ==
    \A s \in SUBSET (1..n) :
        IF s = {} THEN f[s] = b
        ELSE f[s \ {Max(s)}] \in D => f[s] = G[<<Max(s), f[s \ {Max(s)}]>>]

Steps(t, f, n, D, b, G) == /\ t \in [0..n -> D] /\ t[0] = b /\ t[n] = f[1..n]
                           /\ \A i \in 1..n : t[i] = G[<<i, t[i - 1]>>]

LEMMA MaxOfFirst == ASSUME NEW n \in Nat, n > 0 PROVE Max(1..n) = n
BY DEF Max

LEMMA MaxIsElement == 
  ASSUME NEW n \in Nat, NEW s \in SUBSET (1..n), s # {}
  PROVE  Max(s) \in s
<1> DEFINE Good == {i \in Nat : \A t \in SUBSET (1..i) : t # {} => \E x \in t : \A y \in t : x >= y}
<1>1. 0 \in Good
  <2>1. 1..0 = {}
    OBVIOUS
  <2> QED
    BY <2>1
<1>2. ASSUME NEW i \in 1..n, i - 1 \in Good PROVE i \in Good
  <2>1. ASSUME NEW t \in SUBSET (1..i), t # {} PROVE \E x \in t : \A y \in t : x >= y
    <3>1. CASE i \in t
      BY <3>1
    <3>2. CASE i \notin t
      <4>1. t \in SUBSET (1..(i - 1))
        BY <3>2
      <4> QED
        BY <1>2, <2>1, <4>1
    <3> QED
      BY <3>1, <3>2
  <2> QED
    BY <1>2, <2>1
<1>3. n \in Good
  <2> HIDE DEF Good
  <2> QED
    BY <1>1, <1>2, OnNumbers
<1>4. \E x \in s : \A y \in s : x >= y
  BY <1>3
<1> QED
  BY <1>4 DEF Max

LEMMA MaxFoldExists ==
  ASSUME NEW n \in Nat, NEW D, NEW b \in D, NEW G \in [(1..n) \X D -> D]
  PROVE  \E f \in [SUBSET (1..n) -> D] : MaxFolding(f, n, D, b, G)
<1> DEFINE S  == 1..n
           ch == [s \in (SUBSET S) \ {{}} |-> Max(s)]
<1>1. IsFiniteSet(S) /\ G \in [S \X D -> D]
  BY FS_Interval
<1>2. \A s \in SUBSET S : s # {} => Max(s) \in s
  BY MaxIsElement
<1> HIDE DEF S
<1>3. ch \in [(SUBSET S) \ {{}} -> S] /\ \A s \in SUBSET S : s # {} => ch[s] \in s
  BY <1>2
<1>4. \A s \in SUBSET S : s # {} => ch[s] = Max(s)
  OBVIOUS
<1> HIDE DEF ch
<1>5. PICK f \in [SUBSET S -> D] : Folding(f, S, b, G, ch)
  BY <1>1, <1>3, FoldExists
<1>6. \A s \in SUBSET S : f[s] = IF s = {} THEN b ELSE G[<<Max(s), f[s \ {Max(s)}]>>]
  BY <1>4, <1>5 DEF Folding
<1>7. \A s \in SUBSET S : s # {} => s \ {Max(s)} \in SUBSET S
  OBVIOUS
<1> QED
  BY <1>5, <1>6, <1>7 DEF S, MaxFolding

LEMMA FoldInOrder ==
  ASSUME NEW n \in Nat, NEW D, NEW b \in D, NEW G \in [(1..n) \X D -> D],
         NEW f, MaxFolding(f, n, D, b, G)
  PROVE  \E t : Steps(t, f, n, D, b, G)
<1> DEFINE Good == {i \in 0..n : f[1..i] \in D}
           t == [i \in 0..n |-> f[1..i]]
<1>1. f[1..0] = b
  <2>1. 1..0 = {} /\ {} \in SUBSET (1..n)
    OBVIOUS
  <2> QED
    BY <2>1 DEF MaxFolding
<1>2. ASSUME NEW i \in 1..n, f[1..(i - 1)] \in D
      PROVE  f[1..i] = G[<<i, f[1..(i - 1)]>>] /\ f[1..i] \in D
  <2>1. /\ 1..i \in SUBSET (1..n) /\ 1..i # {} /\ Max(1..i) = i
        /\ (1..i) \ {Max(1..i)} = 1..(i - 1)
    <3>1. Max(1..i) = i
      BY MaxOfFirst
    <3>2. (1..i) \ {i} = 1..(i - 1) /\ 1..i \in SUBSET (1..n) /\ i \in 1..i
      OBVIOUS
    <3> QED
      BY <3>1, <3>2
  <2>2. f[1..i] = G[<<Max(1..i), f[(1..i) \ {Max(1..i)}]>>]
    BY <1>2, <2>1 DEF MaxFolding
  <2>3. f[1..i] = G[<<i, f[1..(i - 1)]>>]
    BY <2>1, <2>2, Zenon
  <2> QED
    BY <1>2, <2>3
<1>3. \A i \in 0..n : f[1..i] \in D
  <2>1. 0 \in Good
    BY <1>1
  <2>2. ASSUME NEW i \in 1..n, i - 1 \in Good PROVE i \in Good
    <3>1. f[1..(i - 1)] \in D /\ i \in 0..n
      BY <2>2
    <3>2. f[1..i] \in D
      BY <1>2, <3>1
    <3> QED
      BY <3>1, <3>2
  <2> HIDE DEF Good
  <2>3. \A i \in 0..n : i \in Good
    BY <2>1, <2>2, OnNumbers
  <2> QED
    BY <2>3 DEF Good
<1>4. t \in [0..n -> D] /\ t[0] = b /\ t[n] = f[1..n]
  BY <1>1, <1>3
<1>5. ASSUME NEW i \in 1..n PROVE t[i] = G[<<i, t[i - 1]>>]
  <2>1. i \in 0..n /\ i - 1 \in 0..n
    OBVIOUS
  <2> QED
    BY <1>2, <1>3, <2>1
<1> HIDE DEF t
<1> QED
  BY <1>4, <1>5 DEF Steps
-----------------------------------------------------------------------------
(* The registry.                                                             *)
Registries == [Objects -> [count : Nat \cup {None}, live : BOOLEAN]]

LEMMA NoneIsNoCount == None \notin Nat
BY ReferencesAssumption

LEMMA RetainStep ==
  ASSUME NEW m \in Registries, NEW o \in Objects, m[o].count \in Nat
  PROVE  /\ Retain(m, o) \in Registries
         /\ \A p \in Objects : Retain(m, o)[p] =
              IF p = o THEN [count |-> m[o].count + 1, live |-> m[o].live] ELSE m[p]
<1>1. Retain(m, o) = [m EXCEPT ![o] = [count |-> m[o].count + 1, live |-> m[o].live]]
  <2>1. [m[o] EXCEPT !.count = m[o].count + 1] = [count |-> m[o].count + 1, live |-> m[o].live]
    BY DEF Registries
  <2>2. Retain(m, o) = [m EXCEPT ![o] = [m[o] EXCEPT !.count = m[o].count + 1]]
    BY NoneIsNoCount DEF Retain
  <2> QED
    BY <2>1, <2>2
<1> QED
  BY <1>1 DEF Registries

LEMMA DropStep ==
  ASSUME NEW m \in Registries, NEW o \in Objects, Shared(m, o)
  PROVE  /\ m[o].count \in Nat /\ m[o].count > 1 /\ Drop(m, o) \in Registries
         /\ \A p \in Objects : Drop(m, o)[p] =
              IF p = o THEN [count |-> m[o].count - 1, live |-> m[o].live] ELSE m[p]
<1>1. m[o].count \in Nat /\ m[o].count > 1
  BY DEF Shared, Registries
<1>2. Drop(m, o) = [m EXCEPT ![o] = [count |-> m[o].count - 1, live |-> m[o].live]]
  <2>1. [m[o] EXCEPT !.count = m[o].count - 1] = [count |-> m[o].count - 1, live |-> m[o].live]
    BY DEF Registries
  <2>2. Drop(m, o) = [m EXCEPT ![o] = [m[o] EXCEPT !.count = m[o].count - 1]]
    BY DEF Drop
  <2> QED
    BY <2>1, <2>2
<1> QED
  BY <1>1, <1>2 DEF Registries

LEMMA FreeStep ==
  ASSUME NEW m \in Registries, NEW o \in Objects
  PROVE  /\ Free(m, o) \in Registries
         /\ \A p \in Objects : Free(m, o)[p] = IF p = o THEN [count |-> None, live |-> FALSE] ELSE m[p]
BY DEF Free, Registries

LEMMA SimpleStep ==
  ASSUME NEW m \in Registries, NEW o \in Objects
  PROVE  /\ ReleaseSimple(m, o) \in Registries
         /\ \A p \in Objects : ReleaseSimple(m, o)[p] =
              IF p # o THEN m[p]
              ELSE IF Shared(m, o) THEN [count |-> m[o].count - 1, live |-> m[o].live]
              ELSE [count |-> None, live |-> FALSE]
<1>1. CASE Shared(m, o)
  <2>1. ReleaseSimple(m, o) = Drop(m, o)
    BY <1>1 DEF ReleaseSimple
  <2>2. /\ Drop(m, o) \in Registries
        /\ \A p \in Objects : Drop(m, o)[p] =
             IF p = o THEN [count |-> m[o].count - 1, live |-> m[o].live] ELSE m[p]
    BY <1>1, DropStep
  <2> QED
    BY <1>1, <2>1, <2>2
<1>2. CASE ~Shared(m, o)
  <2>1. ReleaseSimple(m, o) = Free(m, o)
    BY <1>2 DEF ReleaseSimple
  <2>2. /\ Free(m, o) \in Registries
        /\ \A p \in Objects : Free(m, o)[p] = IF p = o THEN [count |-> None, live |-> FALSE] ELSE m[p]
    BY FreeStep
  <2> QED
    BY <1>2, <2>1, <2>2
<1> QED
  BY <1>1, <1>2

(* The loops over levels, slots, parameters and nodes: the registry after    *)
(* each element.                                                             *)
InTurn(t, n, m) == t \in [0..n -> Registries] /\ t[0] = m

LEMMA LevelsInTurn ==
  ASSUME NEW m \in Registries, NEW n \in Nat, NEW sq, DOMAIN sq = 1..n,
         \A i \in 1..n : \A d \in Registries : ReleaseSimple(d, sq[i]) \in Registries
  PROVE  \E t : InTurn(t, n, m) /\ t[n] = FoldLeft(ReleaseSimple, m, sq)
                /\ \A i \in 1..n : t[i] = ReleaseSimple(t[i - 1], sq[i])
<1> DEFINE G == [y \in (1..n) \X Registries |-> ReleaseSimple(y[2], sq[y[1]])]
           Eq(f) == f = [s \in SUBSET (DOMAIN sq) |->
                            IF s = {} THEN m ELSE ReleaseSimple(f[s \ {Max(s)}], sq[Max(s)])]
           iter == CHOOSE f : Eq(f)
<1>1. FoldLeft(ReleaseSimple, m, sq) = iter[1..n]
  BY DEF FoldLeft, MapThenFoldSet
<1>2. /\ G \in [(1..n) \X Registries -> Registries]
      /\ \A i \in 1..n, d \in Registries : G[<<i, d>>] = ReleaseSimple(d, sq[i])
  OBVIOUS
<1> HIDE DEF G
<1>3. PICK f \in [SUBSET (1..n) -> Registries] : MaxFolding(f, n, Registries, m, G)
  BY <1>2, MaxFoldExists
<1>4. \A s \in SUBSET (1..n) : s # {} => Max(s) \in 1..n /\ s \ {Max(s)} \in SUBSET (1..n)
  BY MaxIsElement
<1>5. \A s \in SUBSET (1..n) : f[s] = IF s = {} THEN m ELSE ReleaseSimple(f[s \ {Max(s)}], sq[Max(s)])
  BY <1>2, <1>3, <1>4 DEF MaxFolding
<1>6. Eq(f)
  BY <1>3, <1>5
<1>7. Eq(iter)
  BY <1>6
<1> HIDE DEF iter
<1>8. \A s \in SUBSET (1..n) : iter[s] = IF s = {} THEN m ELSE ReleaseSimple(iter[s \ {Max(s)}], sq[Max(s)])
  BY <1>7
<1>9. MaxFolding(iter, n, Registries, m, G)
  BY <1>2, <1>4, <1>8 DEF MaxFolding
<1>10. PICK t : Steps(t, iter, n, Registries, m, G)
  BY <1>2, <1>9, FoldInOrder
<1>11. \A i \in 1..n : t[i] = ReleaseSimple(t[i - 1], sq[i])
  <2>1. \A i \in 1..n : i - 1 \in 0..n
    OBVIOUS
  <2> QED
    BY <1>2, <1>10, <2>1 DEF Steps
<1> QED
  BY <1>1, <1>10, <1>11 DEF Steps, InTurn

LEMMA SlotsInTurn ==
  ASSUME NEW m \in Registries, NEW n \in Nat, NEW sq, DOMAIN sq = 1..n,
         \A i \in 1..n : \A d \in Registries : vxReleaseReference(d, sq[i]) \in Registries
  PROVE  \E t : InTurn(t, n, m) /\ t[n] = FoldLeft(vxReleaseReference, m, sq)
                /\ \A i \in 1..n : t[i] = vxReleaseReference(t[i - 1], sq[i])
<1> DEFINE G == [y \in (1..n) \X Registries |-> vxReleaseReference(y[2], sq[y[1]])]
           Eq(f) == f = [s \in SUBSET (DOMAIN sq) |->
                            IF s = {} THEN m ELSE vxReleaseReference(f[s \ {Max(s)}], sq[Max(s)])]
           iter == CHOOSE f : Eq(f)
<1>1. FoldLeft(vxReleaseReference, m, sq) = iter[1..n]
  BY DEF FoldLeft, MapThenFoldSet
<1>2. /\ G \in [(1..n) \X Registries -> Registries]
      /\ \A i \in 1..n, d \in Registries : G[<<i, d>>] = vxReleaseReference(d, sq[i])
  OBVIOUS
<1> HIDE DEF G
<1>3. PICK f \in [SUBSET (1..n) -> Registries] : MaxFolding(f, n, Registries, m, G)
  BY <1>2, MaxFoldExists
<1>4. \A s \in SUBSET (1..n) : s # {} => Max(s) \in 1..n /\ s \ {Max(s)} \in SUBSET (1..n)
  BY MaxIsElement
<1>5. \A s \in SUBSET (1..n) : f[s] = IF s = {} THEN m ELSE vxReleaseReference(f[s \ {Max(s)}], sq[Max(s)])
  BY <1>2, <1>3, <1>4 DEF MaxFolding
<1>6. Eq(f)
  BY <1>3, <1>5
<1>7. Eq(iter)
  BY <1>6
<1> HIDE DEF iter
<1>8. \A s \in SUBSET (1..n) : iter[s] = IF s = {} THEN m ELSE vxReleaseReference(iter[s \ {Max(s)}], sq[Max(s)])
  BY <1>7
<1>9. MaxFolding(iter, n, Registries, m, G)
  BY <1>2, <1>4, <1>8 DEF MaxFolding
<1>10. PICK t : Steps(t, iter, n, Registries, m, G)
  BY <1>2, <1>9, FoldInOrder
<1>11. \A i \in 1..n : t[i] = vxReleaseReference(t[i - 1], sq[i])
  <2>1. \A i \in 1..n : i - 1 \in 0..n
    OBVIOUS
  <2> QED
    BY <1>2, <1>10, <2>1 DEF Steps
<1> QED
  BY <1>1, <1>10, <1>11 DEF Steps, InTurn

LEMMA RemovalInTurn ==
  ASSUME NEW m \in Registries, NEW n \in Nat, NEW sq, DOMAIN sq = 1..n,
         \A i \in 1..n : \A d \in Registries : RemovalGivesUp(d, sq[i]) \in Registries
  PROVE  \E t : InTurn(t, n, m) /\ t[n] = FoldLeft(RemovalGivesUp, m, sq)
                /\ \A i \in 1..n : t[i] = RemovalGivesUp(t[i - 1], sq[i])
<1> DEFINE G == [y \in (1..n) \X Registries |-> RemovalGivesUp(y[2], sq[y[1]])]
           Eq(f) == f = [s \in SUBSET (DOMAIN sq) |->
                            IF s = {} THEN m ELSE RemovalGivesUp(f[s \ {Max(s)}], sq[Max(s)])]
           iter == CHOOSE f : Eq(f)
<1>1. FoldLeft(RemovalGivesUp, m, sq) = iter[1..n]
  BY DEF FoldLeft, MapThenFoldSet
<1>2. /\ G \in [(1..n) \X Registries -> Registries]
      /\ \A i \in 1..n, d \in Registries : G[<<i, d>>] = RemovalGivesUp(d, sq[i])
  OBVIOUS
<1> HIDE DEF G
<1>3. PICK f \in [SUBSET (1..n) -> Registries] : MaxFolding(f, n, Registries, m, G)
  BY <1>2, MaxFoldExists
<1>4. \A s \in SUBSET (1..n) : s # {} => Max(s) \in 1..n /\ s \ {Max(s)} \in SUBSET (1..n)
  BY MaxIsElement
<1>5. \A s \in SUBSET (1..n) : f[s] = IF s = {} THEN m ELSE RemovalGivesUp(f[s \ {Max(s)}], sq[Max(s)])
  BY <1>2, <1>3, <1>4 DEF MaxFolding
<1>6. Eq(f)
  BY <1>3, <1>5
<1>7. Eq(iter)
  BY <1>6
<1> HIDE DEF iter
<1>8. \A s \in SUBSET (1..n) : iter[s] = IF s = {} THEN m ELSE RemovalGivesUp(iter[s \ {Max(s)}], sq[Max(s)])
  BY <1>7
<1>9. MaxFolding(iter, n, Registries, m, G)
  BY <1>2, <1>4, <1>8 DEF MaxFolding
<1>10. PICK t : Steps(t, iter, n, Registries, m, G)
  BY <1>2, <1>9, FoldInOrder
<1>11. \A i \in 1..n : t[i] = RemovalGivesUp(t[i - 1], sq[i])
  <2>1. \A i \in 1..n : i - 1 \in 0..n
    OBVIOUS
  <2> QED
    BY <1>2, <1>10, <2>1 DEF Steps
<1> QED
  BY <1>1, <1>10, <1>11 DEF Steps, InTurn

LEMMA GraphInTurn ==
  ASSUME NEW m \in Registries, NEW n \in Nat, NEW sq, DOMAIN sq = 1..n,
         \A i \in 1..n : \A d \in Registries : GraphGivesUp(d, sq[i]) \in Registries
  PROVE  \E t : InTurn(t, n, m) /\ t[n] = FoldLeft(GraphGivesUp, m, sq)
                /\ \A i \in 1..n : t[i] = GraphGivesUp(t[i - 1], sq[i])
<1> DEFINE G == [y \in (1..n) \X Registries |-> GraphGivesUp(y[2], sq[y[1]])]
           Eq(f) == f = [s \in SUBSET (DOMAIN sq) |->
                            IF s = {} THEN m ELSE GraphGivesUp(f[s \ {Max(s)}], sq[Max(s)])]
           iter == CHOOSE f : Eq(f)
<1>1. FoldLeft(GraphGivesUp, m, sq) = iter[1..n]
  BY DEF FoldLeft, MapThenFoldSet
<1>2. /\ G \in [(1..n) \X Registries -> Registries]
      /\ \A i \in 1..n, d \in Registries : G[<<i, d>>] = GraphGivesUp(d, sq[i])
  OBVIOUS
<1> HIDE DEF G
<1>3. PICK f \in [SUBSET (1..n) -> Registries] : MaxFolding(f, n, Registries, m, G)
  BY <1>2, MaxFoldExists
<1>4. \A s \in SUBSET (1..n) : s # {} => Max(s) \in 1..n /\ s \ {Max(s)} \in SUBSET (1..n)
  BY MaxIsElement
<1>5. \A s \in SUBSET (1..n) : f[s] = IF s = {} THEN m ELSE GraphGivesUp(f[s \ {Max(s)}], sq[Max(s)])
  BY <1>2, <1>3, <1>4 DEF MaxFolding
<1>6. Eq(f)
  BY <1>3, <1>5
<1>7. Eq(iter)
  BY <1>6
<1> HIDE DEF iter
<1>8. \A s \in SUBSET (1..n) : iter[s] = IF s = {} THEN m ELSE GraphGivesUp(iter[s \ {Max(s)}], sq[Max(s)])
  BY <1>7
<1>9. MaxFolding(iter, n, Registries, m, G)
  BY <1>2, <1>4, <1>8 DEF MaxFolding
<1>10. PICK t : Steps(t, iter, n, Registries, m, G)
  BY <1>2, <1>9, FoldInOrder
<1>11. \A i \in 1..n : t[i] = GraphGivesUp(t[i - 1], sq[i])
  <2>1. \A i \in 1..n : i - 1 \in 0..n
    OBVIOUS
  <2> QED
    BY <1>2, <1>10, <2>1 DEF Steps
<1> QED
  BY <1>1, <1>10, <1>11 DEF Steps, InTurn

LEMMA NodesInTurn ==
  ASSUME NEW m \in Registries, NEW n \in Nat, NEW sq, DOMAIN sq = 1..n,
         \A i \in 1..n : \A d \in Registries : NodeGoes(d, sq[i]) \in Registries
  PROVE  \E t : InTurn(t, n, m) /\ t[n] = FoldLeft(NodeGoes, m, sq)
                /\ \A i \in 1..n : t[i] = NodeGoes(t[i - 1], sq[i])
<1> DEFINE G == [y \in (1..n) \X Registries |-> NodeGoes(y[2], sq[y[1]])]
           Eq(f) == f = [s \in SUBSET (DOMAIN sq) |->
                            IF s = {} THEN m ELSE NodeGoes(f[s \ {Max(s)}], sq[Max(s)])]
           iter == CHOOSE f : Eq(f)
<1>1. FoldLeft(NodeGoes, m, sq) = iter[1..n]
  BY DEF FoldLeft, MapThenFoldSet
<1>2. /\ G \in [(1..n) \X Registries -> Registries]
      /\ \A i \in 1..n, d \in Registries : G[<<i, d>>] = NodeGoes(d, sq[i])
  OBVIOUS
<1> HIDE DEF G
<1>3. PICK f \in [SUBSET (1..n) -> Registries] : MaxFolding(f, n, Registries, m, G)
  BY <1>2, MaxFoldExists
<1>4. \A s \in SUBSET (1..n) : s # {} => Max(s) \in 1..n /\ s \ {Max(s)} \in SUBSET (1..n)
  BY MaxIsElement
<1>5. \A s \in SUBSET (1..n) : f[s] = IF s = {} THEN m ELSE NodeGoes(f[s \ {Max(s)}], sq[Max(s)])
  BY <1>2, <1>3, <1>4 DEF MaxFolding
<1>6. Eq(f)
  BY <1>3, <1>5
<1>7. Eq(iter)
  BY <1>6
<1> HIDE DEF iter
<1>8. \A s \in SUBSET (1..n) : iter[s] = IF s = {} THEN m ELSE NodeGoes(iter[s \ {Max(s)}], sq[Max(s)])
  BY <1>7
<1>9. MaxFolding(iter, n, Registries, m, G)
  BY <1>2, <1>4, <1>8 DEF MaxFolding
<1>10. PICK t : Steps(t, iter, n, Registries, m, G)
  BY <1>2, <1>9, FoldInOrder
<1>11. \A i \in 1..n : t[i] = NodeGoes(t[i - 1], sq[i])
  <2>1. \A i \in 1..n : i - 1 \in 0..n
    OBVIOUS
  <2> QED
    BY <1>2, <1>10, <2>1 DEF Steps
<1> QED
  BY <1>1, <1>10, <1>11 DEF Steps, InTurn

(* The levels of a pyramid, all released.                                    *)
LEMMA LevelsReleased ==
  ASSUME NEW m \in Registries, NEW sq \in Seq(Objects), IsInjective(sq)
  PROVE  /\ FoldLeft(ReleaseSimple, m, sq) \in Registries
         /\ \A p \in Objects : FoldLeft(ReleaseSimple, m, sq)[p] =
              IF p \in ToSet(sq) THEN ReleaseSimple(m, p)[p] ELSE m[p]
<1> DEFINE n == Len(sq)
<1>1. n \in Nat /\ DOMAIN sq = 1..n /\ \A i \in 1..n : sq[i] \in Objects
  OBVIOUS
<1>2. PICK t : /\ t \in [0..n -> Registries] /\ t[0] = m /\ t[n] = FoldLeft(ReleaseSimple, m, sq)
               /\ \A i \in 1..n : t[i] = ReleaseSimple(t[i - 1], sq[i])
  <2>1. \A i \in 1..n : \A d \in Registries : ReleaseSimple(d, sq[i]) \in Registries
    BY <1>1, SimpleStep
  <2>2. PICK t : /\ InTurn(t, n, m) /\ t[n] = FoldLeft(ReleaseSimple, m, sq)
                 /\ \A i \in 1..n : t[i] = ReleaseSimple(t[i - 1], sq[i])
    <3> HIDE DEF n
    <3> QED
      BY <1>1, <2>1, LevelsInTurn
  <2> QED
    BY <2>2 DEF InTurn
<1> HIDE DEF n
<1> DEFINE Gone(i, p) == \E j \in 1..i : sq[j] = p
           Good == {i \in 0..n : \A p \in Objects :
                       t[i][p] = IF Gone(i, p) THEN ReleaseSimple(m, p)[p] ELSE m[p]}
<1>3. 0 \in Good
  BY <1>1, <1>2
<1>4. ASSUME NEW i \in 1..n, i - 1 \in Good PROVE i \in Good
  <2> DEFINE o == sq[i]
             d == t[i - 1]
  <2>1. o \in Objects /\ d \in Registries /\ t[i] = ReleaseSimple(d, o) /\ i \in 0..n
    BY <1>1, <1>2
  <2>2. \A p \in Objects : d[p] = IF Gone(i - 1, p) THEN ReleaseSimple(m, p)[p] ELSE m[p]
    BY <1>4
  <2>3. ~Gone(i - 1, o)
    BY <1>1 DEF IsInjective
  <2>4. \A p \in Objects : Gone(i, p) <=> p = o \/ Gone(i - 1, p)
    <3>1. \A j \in 1..i : j = i \/ j \in 1..(i - 1)
      BY <1>1
    <3>2. \A j \in 1..(i - 1) : j \in 1..i
      BY <1>1
    <3>3. i \in 1..i
      BY <1>1
    <3> QED
      BY <3>1, <3>2, <3>3
  <2> HIDE DEF o, d, Gone
  <2>5. d[o] = m[o]
    BY <2>1, <2>2, <2>3
  <2>6. \A p \in Objects : t[i][p] = IF p = o THEN ReleaseSimple(m, o)[o] ELSE d[p]
    <3>1. Shared(d, o) <=> Shared(m, o)
      BY <2>5 DEF Shared
    <3> DEFINE After(s) == IF Shared(s, o) THEN [count |-> s[o].count - 1, live |-> s[o].live]
                           ELSE [count |-> None, live |-> FALSE]
    <3>2. \A s \in Registries, p \in Objects :
              ReleaseSimple(s, o)[p] = IF p # o THEN s[p] ELSE After(s)
      BY <2>1, SimpleStep
    <3>3. After(d) = After(m)
      BY <2>5, <3>1
    <3> HIDE DEF After
    <3> QED
      BY <2>1, <3>2, <3>3
  <2>7. \A p \in Objects : t[i][p] = IF Gone(i, p) THEN ReleaseSimple(m, p)[p] ELSE m[p]
    BY <2>2, <2>4, <2>6
  <2> QED
    BY <2>1, <2>7
<1>5. n \in Good
  <2> HIDE DEF Good
  <2> QED
    BY <1>1, <1>3, <1>4, OnNumbers
<1>6. \A p \in Objects : Gone(n, p) <=> p \in ToSet(sq)
  BY <1>1 DEF ToSet
<1> HIDE DEF Gone
<1>7. \A p \in Objects : t[n][p] = IF p \in ToSet(sq) THEN ReleaseSimple(m, p)[p] ELSE m[p]
  BY <1>5, <1>6
<1>8. t[n] \in Registries
  BY <1>1, <1>2
<1> QED
  BY <1>2, <1>7, <1>8 DEF n
-----------------------------------------------------------------------------
(* Who holds an object: x of them outside the registry of pyramids, and the   *)
(* pyramid it is a level of, as long as that lives.                          *)
InPyramid(m, o)  == \E p \in Objects : m[p].live /\ o \in ToSet(Levels[p])
Holding(m, x, o) == x[o] + (IF InPyramid(m, o) THEN 1 ELSE 0)

Counted(m, x) ==
    /\ m \in Registries /\ x \in [Objects -> Nat]
    /\ \A o \in Objects : /\ m[o].live <=> Holding(m, x, o) > 0
                          /\ m[o].live => m[o].count = Holding(m, x, o)

More(x, o) == [x EXCEPT ![o] = @ + 1]
Less(x, o) == [x EXCEPT ![o] = @ - 1]

LEMMA LevelFacts ==
  ASSUME NEW o \in Objects
  PROVE  /\ Levels[o] \in Seq(Objects) /\ IsInjective(Levels[o])
         /\ ToSet(Levels[o]) \subseteq Objects /\ o \notin ToSet(Levels[o])
         /\ \A l \in ToSet(Levels[o]) : ToSet(Levels[l]) = {}
         /\ \A p \in Objects : p # o => ToSet(Levels[p]) \cap ToSet(Levels[o]) = {}
<1>1. Levels[o] \in Seq(Objects)
  BY ReferencesAssumption
<1>2. ToSet(Levels[o]) \subseteq Objects
  BY <1>1 DEF ToSet
<1>3. ToSet(<<>>) = {}
  BY DEF ToSet
<1>4. \A l \in ToSet(Levels[o]) : ToSet(Levels[l]) = {}
  BY <1>3, OwnersAssumption
<1>5. o \notin ToSet(Levels[o])
  BY <1>4
<1> QED
  BY <1>1, <1>2, <1>4, <1>5, OwnersAssumption

LEMMA CountedIsNumber ==
  ASSUME NEW m, NEW x, Counted(m, x), NEW o \in Objects
  PROVE  /\ x[o] \in Nat /\ Holding(m, x, o) \in Nat /\ m[o].live \in BOOLEAN
         /\ Holding(m, x, o) > 0 => m[o].live /\ m[o].count = Holding(m, x, o)
         /\ Holding(m, x, o) = 0 => ~m[o].live
BY DEF Counted, Holding, Registries

LEMMA RetainCounts ==
  ASSUME NEW m, NEW x, Counted(m, x), NEW o \in Objects, Holding(m, x, o) > 0
  PROVE  Counted(Retain(m, o), More(x, o))
<1> DEFINE r == Retain(m, o)
           y == More(x, o)
<1>1. m \in Registries /\ x \in [Objects -> Nat] /\ m[o].live /\ m[o].count \in Nat
  BY CountedIsNumber DEF Counted
<1>2. /\ r \in Registries
      /\ \A p \in Objects : r[p] = IF p = o THEN [count |-> m[o].count + 1, live |-> m[o].live] ELSE m[p]
  BY <1>1, RetainStep
<1>3. y \in [Objects -> Nat] /\ \A p \in Objects : y[p] = IF p = o THEN x[o] + 1 ELSE x[p]
  BY <1>1 DEF More
<1> HIDE DEF r, y
<1>4. \A p \in Objects : r[p].live = m[p].live
  BY <1>2
<1>5. \A p \in Objects : InPyramid(r, p) <=> InPyramid(m, p)
  BY <1>4 DEF InPyramid
<1>6. \A p \in Objects : Holding(r, y, p) = IF p = o THEN Holding(m, x, o) + 1 ELSE Holding(m, x, p)
  BY <1>1, <1>3, <1>5 DEF Holding
<1> QED
  BY <1>2, <1>3, <1>4, <1>6, CountedIsNumber DEF Counted, r, y

LEMMA DropCounts ==
  ASSUME NEW m, NEW x, Counted(m, x), NEW o \in Objects, x[o] > 0, Holding(m, x, o) > 1
  PROVE  Shared(m, o) /\ Counted(Drop(m, o), Less(x, o))
<1> DEFINE r == Drop(m, o)
           y == Less(x, o)
<1>1. m \in Registries /\ x \in [Objects -> Nat] /\ m[o].live /\ m[o].count \in Nat /\ m[o].count > 1
  BY CountedIsNumber DEF Counted
<1>2. Shared(m, o)
  BY <1>1, NoneIsNoCount DEF Shared
<1>3. /\ r \in Registries
      /\ \A p \in Objects : r[p] = IF p = o THEN [count |-> m[o].count - 1, live |-> m[o].live] ELSE m[p]
  BY <1>1, <1>2, DropStep
<1>4. y \in [Objects -> Nat] /\ \A p \in Objects : y[p] = IF p = o THEN x[o] - 1 ELSE x[p]
  BY <1>1 DEF Less
<1> HIDE DEF r, y
<1>5. \A p \in Objects : r[p].live = m[p].live
  BY <1>3
<1>6. \A p \in Objects : InPyramid(r, p) <=> InPyramid(m, p)
  BY <1>5 DEF InPyramid
<1>7. \A p \in Objects : Holding(r, y, p) = IF p = o THEN Holding(m, x, o) - 1 ELSE Holding(m, x, p)
  BY <1>1, <1>4, <1>6 DEF Holding
<1> QED
  BY <1>2, <1>3, <1>4, <1>5, <1>7, CountedIsNumber DEF Counted, r, y

(* The last holder of a pyramid releases its levels as well.                 *)
LEMMA ReleaseCounts ==
  ASSUME NEW m, NEW x, Counted(m, x), NEW o \in Objects, x[o] > 0
  PROVE  Counted(Release(m, o), Less(x, o))
<1> DEFINE y == Less(x, o)
           all == FoldLeft(ReleaseSimple, m, Levels[o])
           r == Free(all, o)
<1>1. /\ m \in Registries /\ x \in [Objects -> Nat] /\ m[o].live /\ m[o].count \in Nat
      /\ m[o].count = Holding(m, x, o) /\ Holding(m, x, o) > 0
  BY CountedIsNumber DEF Counted, Holding
<1>2. CASE Shared(m, o)
  <2>1. Holding(m, x, o) > 1
    BY <1>1, <1>2 DEF Shared
  <2> QED
    BY <1>2, <2>1, DropCounts DEF Release
<1>3. CASE ~Shared(m, o)
  <2>1. Release(m, o) = r
    BY <1>3 DEF Release
  <2>2. y \in [Objects -> Nat] /\ \A p \in Objects : y[p] = IF p = o THEN x[o] - 1 ELSE x[p]
    BY <1>1 DEF Less
  <2>3. /\ all \in Registries
        /\ \A p \in Objects : all[p] = IF p \in ToSet(Levels[o]) THEN ReleaseSimple(m, p)[p] ELSE m[p]
    BY <1>1, LevelFacts, LevelsReleased
  <2> HIDE DEF all, y
  <2>4. /\ r \in Registries
        /\ \A p \in Objects : r[p] = IF p = o THEN [count |-> None, live |-> FALSE] ELSE all[p]
    BY <2>3, FreeStep
  <2> HIDE DEF r
  <2>5. x[o] = 1 /\ ~InPyramid(m, o) /\ y[o] = 0
    <3>1. ~(m[o].count > 1)
      BY <1>1, <1>3, NoneIsNoCount DEF Shared
    <3> QED
      BY <1>1, <2>2, <3>1 DEF Holding
  <2>6. ASSUME NEW l \in ToSet(Levels[o])
        PROVE  /\ r[l].live <=> x[l] > 0 
               /\ r[l].live => r[l].count = x[l]
               /\ y[l] = x[l] /\ ~InPyramid(r, l)
    <3>1. l \in Objects /\ l # o
      BY LevelFacts
    <3>2. InPyramid(m, l)
      BY <1>1 DEF InPyramid
    <3>3. m[l].live /\ m[l].count = x[l] + 1 /\ x[l] \in Nat
      <4>1. Holding(m, x, l) = x[l] + 1 /\ x[l] \in Nat
        BY <1>1, <3>1, <3>2 DEF Holding
      <4> QED
        BY <3>1, <4>1, CountedIsNumber
    <3>4. Shared(m, l) <=> x[l] > 0
      BY <3>3, NoneIsNoCount DEF Shared
    <3>5. (r[l].live <=> x[l] > 0) /\ (r[l].live => r[l].count = x[l])
      <4>1. r[l] = ReleaseSimple(m, l)[l]
        BY <2>3, <2>4, <3>1
      <4>2. ReleaseSimple(m, l)[l] = IF Shared(m, l) THEN [count |-> m[l].count - 1, live |-> m[l].live]
                                     ELSE [count |-> None, live |-> FALSE]
        BY <1>1, <3>1, SimpleStep
      <4>3. CASE x[l] > 0
        <5>1. r[l] = [count |-> m[l].count - 1, live |-> m[l].live]
          BY <3>4, <4>1, <4>2, <4>3
        <5> QED
          BY <3>3, <4>3, <5>1
      <4>4. CASE ~(x[l] > 0)
        <5>1. r[l] = [count |-> None, live |-> FALSE]
          BY <3>4, <4>1, <4>2, <4>4
        <5> QED
          BY <4>4, <5>1
      <4> QED
        BY <4>3, <4>4
    <3>6. ~InPyramid(r, l)
      <4>1. ASSUME NEW p \in Objects, l \in ToSet(Levels[p]) PROVE p = o
        BY <4>1, LevelFacts
      <4> QED
        BY <2>4, <4>1 DEF InPyramid
    <3> QED
      BY <2>2, <3>1, <3>5, <3>6
  <2>7. ASSUME NEW p \in Objects, p \notin ToSet(Levels[o]), p # o
        PROVE  /\ r[p] = m[p] /\ y[p] = x[p] /\ (InPyramid(r, p) <=> InPyramid(m, p))
    <3>1. ASSUME NEW q \in Objects, p \in ToSet(Levels[q]) PROVE r[q] = m[q]
      <4>1. q # o /\ q \notin ToSet(Levels[o])
        BY <2>7, <3>1, LevelFacts
      <4> QED
        BY <2>3, <2>4, <4>1
    <3>2. InPyramid(r, p) <=> InPyramid(m, p)
      BY <3>1 DEF InPyramid
    <3> QED
      BY <2>2, <2>3, <2>4, <2>7, <3>2
  <2>8. ~InPyramid(r, o)
    <3>1. ASSUME NEW q \in Objects, o \in ToSet(Levels[q]) PROVE ~r[q].live
      <4>1. q # o /\ q \notin ToSet(Levels[o])
        BY <3>1, LevelFacts
      <4>2. ~m[q].live
        BY <2>5, <3>1 DEF InPyramid
      <4> QED
        BY <2>3, <2>4, <4>1, <4>2
    <3> QED
      BY <3>1 DEF InPyramid
  <2>9. ASSUME NEW p \in Objects
        PROVE  /\ r[p].live <=> Holding(r, y, p) > 0
               /\ r[p].live => r[p].count = Holding(r, y, p)
    <3>1. CASE p = o
      BY <2>4, <2>5, <2>8, <3>1 DEF Holding
    <3>2. CASE p \in ToSet(Levels[o])
      BY <2>2, <2>6, <3>2 DEF Holding
    <3>3. CASE p # o /\ p \notin ToSet(Levels[o])
      <4>1. r[p] = m[p] /\ Holding(r, y, p) = Holding(m, x, p)
        BY <2>7, <3>3 DEF Holding
      <4> QED
        BY <4>1, CountedIsNumber
    <3> QED
      BY <3>1, <3>2, <3>3
  <2> QED
    BY <2>1, <2>2, <2>4, <2>9 DEF Counted, y
<1> QED
  BY <1>2, <1>3
-----------------------------------------------------------------------------
(* The values of the parameters of the nodes, None for those of no node; how *)
(* many of them are an object.                                               *)
Places == Nodes \X (1..Params)
Valuations == [Places -> Values]
Val(ns) == [u \in Places |-> IF u[1] \in DOMAIN ns THEN ns[u[1]][u[2]] ELSE None]
Count(v, o) == Cardinality({u \in Places : v[u] = o})

Total(x, v) == [o \in Objects |-> x[o] + Count(v, o)]

(* The counts are right when x holds the objects, parameters with the values *)
(* v do, and pyramids.                                                       *)
Sound(m, x, v) == /\ m \in Registries /\ x \in [Objects -> Nat] /\ v \in Valuations
                  /\ Counted(m, Total(x, v))

(* What is held whatever parameters give up: by x, or as the level of a      *)
(* pyramid that x holds.                                                     *)
Anchored(x, o) == \/ o \in Objects /\ x[o] > 0
                  \/ \E p \in Objects : x[p] > 0 /\ o \in ToSet(Levels[p])

Set(v, u, o) == [v EXCEPT ![u] = o]

LEMMA PlacesAreFinite == IsFiniteSet(Places)
<1>1. IsFiniteSet(Nodes) /\ IsFiniteSet(1..Params)
  BY ConstantFacts, FS_Interval
<1> QED
  BY <1>1, FS_Product DEF Places

LEMMA CountIsNumber ==
  ASSUME NEW v, NEW o
  PROVE  IsFiniteSet({u \in Places : v[u] = o}) /\ Count(v, o) \in Nat
<1>1. IsFiniteSet({u \in Places : v[u] = o})
  <2>1. {u \in Places : v[u] = o} \subseteq Places
    OBVIOUS
  <2> QED
    BY <2>1, PlacesAreFinite, FS_Subset
<1> QED
  BY <1>1, FS_CardinalityType DEF Count

LEMMA GivenUp ==
  ASSUME NEW v \in Valuations, NEW u \in Places, v[u] \in Objects
  PROVE  /\ Set(v, u, None) \in Valuations
         /\ Count(v, v[u]) > 0
         /\ \A o \in Objects : Count(Set(v, u, None), o) = Count(v, o) - (IF o = v[u] THEN 1 ELSE 0)
<1> DEFINE w == Set(v, u, None)
           At(y, o) == {q \in Places : y[q] = o}
<1>1. w \in Valuations /\ w[u] = None /\ \A q \in Places : q # u => w[q] = v[q]
  BY DEF Set, Valuations, Values
<1> HIDE DEF w
<1>2. At(w, v[u]) = At(v, v[u]) \ {u} /\ u \in At(v, v[u])
  BY <1>1, ConstantFacts
<1>3. \A o \in Objects : o # v[u] => At(w, o) = At(v, o)
  BY <1>1, ConstantFacts
<1>4. IsFiniteSet(At(v, v[u])) /\ Count(v, v[u]) = Cardinality(At(v, v[u])) /\ Count(v, v[u]) \in Nat
  BY CountIsNumber DEF Count
<1>5. Count(w, v[u]) = Count(v, v[u]) - 1
  BY <1>2, <1>4, FS_RemoveElement DEF Count
<1>6. Count(v, v[u]) # 0
  BY <1>2, <1>4, FS_EmptySet
<1>7. \A o \in Objects : Count(v, o) \in Nat
  BY CountIsNumber
<1>8. \A o \in Objects : o # v[u] => Count(w, o) = Count(v, o)
  BY <1>3 DEF Count
<1> QED
  BY <1>1, <1>4, <1>5, <1>6, <1>7, <1>8 DEF w

LEMMA SetAndGiveUp ==
  ASSUME NEW v \in Valuations, NEW u \in Places, NEW o \in Values
  PROVE  /\ Set(v, u, o) \in Valuations /\ Set(v, u, o)[u] = o
         /\ \A q \in Places : q # u => Set(v, u, o)[q] = v[q]
         /\ \A p : Set(Set(v, u, p), u, o) = Set(v, u, o)
         /\ v[u] = o => Set(v, u, o) = v
BY DEF Set, Valuations

(* A parameter with a new value, seen from the objects.                      *)
LEMMA Given ==
  ASSUME NEW v \in Valuations, NEW u \in Places, v[u] = None, NEW o \in Objects
  PROVE  \A p \in Objects : Count(Set(v, u, o), p) = Count(v, p) + (IF p = o THEN 1 ELSE 0)
<1> DEFINE w == Set(v, u, o)
<1>1. w \in Valuations /\ w[u] = o /\ Set(w, u, None) = v
  BY SetAndGiveUp DEF Values
<1> HIDE DEF w
<1>2. \A p \in Objects : Count(v, p) = Count(w, p) - (IF p = o THEN 1 ELSE 0)
  BY <1>1, GivenUp
<1>3. \A p \in Objects : Count(v, p) \in Nat /\ Count(w, p) \in Nat
  BY CountIsNumber
<1> QED
  BY <1>2, <1>3 DEF w

LEMMA TotalFacts ==
  ASSUME NEW x \in [Objects -> Nat], NEW v \in Valuations
  PROVE  /\ Total(x, v) \in [Objects -> Nat]
         /\ \A o \in Objects : /\ Total(x, v)[o] = x[o] + Count(v, o) /\ Count(v, o) \in Nat
                               /\ Total(x, v)[o] >= x[o]
<1>1. \A o \in Objects : Count(v, o) \in Nat
  BY CountIsNumber
<1> QED
  BY <1>1 DEF Total

LEMMA TotalChanges ==
  ASSUME NEW x \in [Objects -> Nat], NEW v \in Valuations, NEW o \in Objects
  PROVE  /\ More(x, o) \in [Objects -> Nat] /\ Total(More(x, o), v) = More(Total(x, v), o)
         /\ x[o] > 0 => Less(x, o) \in [Objects -> Nat] /\ Total(Less(x, o), v) = Less(Total(x, v), o)
         /\ \A u \in Places :
              v[u] = o => Total(x, Set(v, u, None)) = Less(Total(x, v), o) /\ Total(x, v)[o] > x[o]
         /\ \A u \in Places : v[u] = None => Total(x, Set(v, u, o)) = More(Total(x, v), o)
<1> DEFINE y == Total(x, v)
<1>1. /\ y \in [Objects -> Nat]
      /\ \A p \in Objects : y[p] = x[p] + Count(v, p) /\ Count(v, p) \in Nat /\ x[p] \in Nat
  BY TotalFacts
<1> HIDE DEF y
<1>2. /\ More(y, o) \in [Objects -> Nat]
      /\ \A p \in Objects : More(y, o)[p] = y[p] + (IF p = o THEN 1 ELSE 0)
  BY <1>1 DEF More
<1>3. y[o] > 0 => /\ Less(y, o) \in [Objects -> Nat]
                  /\ \A p \in Objects : Less(y, o)[p] = y[p] - (IF p = o THEN 1 ELSE 0)
  BY <1>1 DEF Less
<1>4. /\ More(x, o) \in [Objects -> Nat]
      /\ \A p \in Objects : More(x, o)[p] = x[p] + (IF p = o THEN 1 ELSE 0)
  BY DEF More
<1>5. x[o] > 0 => /\ Less(x, o) \in [Objects -> Nat]
                  /\ \A p \in Objects : Less(x, o)[p] = x[p] - (IF p = o THEN 1 ELSE 0)
  BY DEF Less
<1>6. ASSUME NEW z \in [Objects -> Nat], NEW w,
             \A p \in Objects : y[p] + (IF p = o THEN 1 ELSE 0) = z[p] + Count(w, p)
      PROVE  Total(z, w) = More(y, o)
  <2>1. \A p \in Objects : Total(z, w)[p] = More(y, o)[p]
    BY <1>2, <1>6 DEF Total
  <2> QED
    BY <1>2, <2>1 DEF Total
<1>7. ASSUME NEW z \in [Objects -> Nat], NEW w, y[o] > 0,
             \A p \in Objects : y[p] - (IF p = o THEN 1 ELSE 0) = z[p] + Count(w, p)
      PROVE  Total(z, w) = Less(y, o)
  <2>1. \A p \in Objects : Total(z, w)[p] = Less(y, o)[p]
    BY <1>3, <1>7 DEF Total
  <2> QED
    BY <1>3, <1>7, <2>1 DEF Total
<1>8. Total(More(x, o), v) = More(y, o)
  BY <1>1, <1>4, <1>6
<1>9. x[o] > 0 => Total(Less(x, o), v) = Less(y, o)
  BY <1>1, <1>5, <1>7
<1>10. ASSUME NEW u \in Places, v[u] = o PROVE Total(x, Set(v, u, None)) = Less(y, o) /\ y[o] > x[o]
  <2>1. /\ Count(v, o) > 0
        /\ \A p \in Objects : Count(Set(v, u, None), p) = Count(v, p) - (IF p = o THEN 1 ELSE 0)
    BY <1>10, GivenUp
  <2> QED
    BY <1>1, <1>7, <2>1
<1>11. ASSUME NEW u \in Places, v[u] = None PROVE Total(x, Set(v, u, o)) = More(y, o)
  <2>1. \A p \in Objects : Count(Set(v, u, o), p) = Count(v, p) + (IF p = o THEN 1 ELSE 0)
    BY <1>11, Given
  <2> QED
    BY <1>1, <1>6, <2>1
<1> QED
  BY <1>4, <1>5, <1>8, <1>9, <1>10, <1>11 DEF y

(* Steps of the registry, with what they do to the holders.                  *)
LEMMA AnchoredIsHeld ==
  ASSUME NEW m, NEW x, NEW v, Sound(m, x, v), NEW o, Anchored(x, o)
  PROVE  /\ o \in Objects /\ Holding(m, Total(x, v), o) > 0
         /\ Total(x, v)[o] > x[o] => Holding(m, Total(x, v), o) > 1
<1> DEFINE y == Total(x, v)
<1>1. /\ x \in [Objects -> Nat] /\ Counted(m, y) /\ y \in [Objects -> Nat]
      /\ \A p \in Objects : y[p] >= x[p]
  BY TotalFacts DEF Sound
<1> HIDE DEF y
<1>2. CASE o \in Objects /\ x[o] > 0
  BY <1>1, <1>2 DEF Holding, y
<1>3. ASSUME NEW p \in Objects, x[p] > 0, o \in ToSet(Levels[p])
      PROVE  o \in Objects /\ Holding(m, y, o) > 0 /\ (y[o] > x[o] => Holding(m, y, o) > 1)
  <2>1. Holding(m, y, p) > 0
    BY <1>1, <1>3 DEF Holding
  <2>2. InPyramid(m, o) /\ o \in Objects
    BY <1>1, <1>3, <2>1, CountedIsNumber, LevelFacts DEF InPyramid
  <2> QED
    BY <1>1, <2>2 DEF Holding
<1> QED
  BY <1>2, <1>3 DEF Anchored, y

LEMMA RetainIsSound ==
  ASSUME NEW m, NEW x, NEW v, Sound(m, x, v), NEW o \in Objects, Holding(m, Total(x, v), o) > 0
  PROVE  Sound(Retain(m, o), More(x, o), v)
<1>1. Counted(Retain(m, o), More(Total(x, v), o))
  BY RetainCounts DEF Sound
<1>2. x \in [Objects -> Nat] /\ v \in Valuations
  BY DEF Sound
<1>3. More(x, o) \in [Objects -> Nat] /\ Total(More(x, o), v) = More(Total(x, v), o)
  BY <1>2, TotalChanges
<1> QED
  BY <1>1, <1>2, <1>3 DEF Sound, Counted

LEMMA ReleaseIsSound ==
  ASSUME NEW m, NEW x, NEW v, Sound(m, x, v), NEW o \in Objects, x[o] > 0
  PROVE  /\ Sound(Release(m, o), Less(x, o), v)
         /\ vxReleaseReference(m, o) = Release(m, o)
<1>1. x \in [Objects -> Nat] /\ v \in Valuations /\ Counted(m, Total(x, v))
  BY DEF Sound
<1>2. Total(x, v)[o] > 0 /\ Total(x, v) \in [Objects -> Nat]
  BY <1>1, TotalFacts
<1>3. Counted(Release(m, o), Less(Total(x, v), o))
  BY <1>1, <1>2, ReleaseCounts
<1>4. Less(x, o) \in [Objects -> Nat] /\ Total(Less(x, o), v) = Less(Total(x, v), o)
  BY <1>1, TotalChanges
<1>5. m[o].count # None
  BY <1>1, <1>2, CountedIsNumber, NoneIsNoCount DEF Holding
<1> QED
  BY <1>1, <1>3, <1>4, <1>5 DEF Sound, Counted, vxReleaseReference

LEMMA DropIsSound ==
  ASSUME NEW m, NEW x, NEW v, Sound(m, x, v), NEW u \in Places, Anchored(x, v[u])
  PROVE  /\ v[u] \in Objects /\ Shared(m, v[u]) /\ m[v[u]].count \in Nat /\ m[v[u]].count > 1
         /\ Sound(Drop(m, v[u]), x, Set(v, u, None))
<1>1. x \in [Objects -> Nat] /\ v \in Valuations /\ Counted(m, Total(x, v))
  BY DEF Sound
<1>2. v[u] \in Objects
  BY AnchoredIsHeld
<1>3. /\ Total(x, Set(v, u, None)) = Less(Total(x, v), v[u]) /\ Total(x, v)[v[u]] > x[v[u]]
      /\ Set(v, u, None) \in Valuations
  BY <1>1, <1>2, TotalChanges, SetAndGiveUp DEF Values
<1>4. Holding(m, Total(x, v), v[u]) > 1 /\ Total(x, v)[v[u]] > 0
  BY <1>1, <1>2, <1>3, AnchoredIsHeld, TotalFacts
<1>5. Shared(m, v[u]) /\ Counted(Drop(m, v[u]), Less(Total(x, v), v[u]))
  BY <1>1, <1>2, <1>4, DropCounts
<1>6. m[v[u]].count \in Nat /\ m[v[u]].count > 1
  BY <1>1, <1>2, <1>5, DropStep DEF Sound
<1> QED
  BY <1>1, <1>2, <1>3, <1>5, <1>6 DEF Sound, Counted

(* The value is what a parameter holds alone, or is held by more than it.    *)
LEMMA GiveUpIsSound ==
  ASSUME NEW m, NEW x, NEW v, Sound(m, x, v), NEW u \in Places, v[u] # None => Anchored(x, v[u])
  PROVE  /\ Sound(GiveUp(m, v[u]), x, Set(v, u, None))
         /\ Sound(RemovalGivesUp(m, v[u]), x, Set(v, u, None))
<1>1. v \in Valuations
  BY DEF Sound
<1>2. CASE v[u] = None
  <2>1. Set(v, u, None) = v
    BY <1>1, <1>2, SetAndGiveUp DEF Values
  <2> QED
    BY <1>2, <2>1 DEF GiveUp, RemovalGivesUp
<1>3. CASE v[u] # None
  <2>1. Shared(m, v[u]) /\ m[v[u]].count > 1 /\ m[v[u]].count \in Nat /\ Sound(Drop(m, v[u]), x, Set(v, u, None))
    BY <1>3, DropIsSound
  <2>2. GiveUp(m, v[u]) = Drop(m, v[u]) /\ RemovalGivesUp(m, v[u]) = Drop(m, v[u])
    BY <1>3, <2>1, NoneIsNoCount DEF GiveUp, RemovalGivesUp
  <2> QED
    BY <2>1, <2>2
<1> QED
  BY <1>2, <1>3

LEMMA ReplaceIsSound ==
  ASSUME NEW m, NEW x, NEW v, Sound(m, x, v), NEW u \in Places, NEW o \in Objects,
         Holding(m, Total(x, v), o) > 0, v[u] # None => Anchored(x, v[u])
  PROVE  Sound(GiveUp(Retain(m, o), v[u]), x, Set(v, u, o))
<1> DEFINE r == Retain(m, o)
           y == More(x, o)
           w == Set(v, u, None)
<1>1. Sound(r, y, v) /\ x \in [Objects -> Nat] /\ v \in Valuations
  BY RetainIsSound DEF Sound
<1>2. v[u] # None => Anchored(y, v[u])
  <2>1. \A p \in Objects : x[p] > 0 => y[p] > 0
    BY <1>1 DEF More
  <2> QED
    BY <2>1 DEF Anchored
<1>3. Sound(GiveUp(r, v[u]), y, w)
  <2> HIDE DEF r, y
  <2> QED
    BY <1>1, <1>2, GiveUpIsSound
<1>4. w \in Valuations /\ w[u] = None /\ Set(w, u, o) = Set(v, u, o) /\ Set(v, u, o) \in Valuations
  BY <1>1, SetAndGiveUp DEF Values
<1> HIDE DEF w
<1>5. Total(y, w) = Total(x, Set(v, u, o))
  BY <1>1, <1>4, TotalChanges
<1> HIDE DEF y
<1> QED
  BY <1>1, <1>3, <1>4, <1>5 DEF Sound, Counted
-----------------------------------------------------------------------------
(* vxReleaseGraph takes what it frees out of the registry first, which       *)
(* changes nothing.                                                          *)
LEMMA ForgetStep ==
  ASSUME NEW m \in Registries, NEW o \in Objects
  PROVE  /\ [m EXCEPT ![o].count = None] \in Registries
         /\ \A p \in Objects : [m EXCEPT ![o].count = None][p] =
              IF p = o THEN [count |-> None, live |-> m[o].live] ELSE m[p]
<1>1. [m EXCEPT ![o].count = None] = [m EXCEPT ![o] = [count |-> None, live |-> m[o].live]]
  <2>1. [m[o] EXCEPT !.count = None] = [count |-> None, live |-> m[o].live]
    BY DEF Registries
  <2>2. [m EXCEPT ![o].count = None] = [m EXCEPT ![o] = [m[o] EXCEPT !.count = None]]
    OBVIOUS
  <2> QED
    BY <2>1, <2>2
<1> QED
  BY <1>1 DEF Registries

LEMMA ForgottenIsReleased ==
  ASSUME NEW m \in Registries, NEW o \in Objects, ~Shared(m, o)
  PROVE  Release([m EXCEPT ![o].count = None], o) = Release(m, o)
<1> DEFINE f == [m EXCEPT ![o].count = None]
           all(s) == FoldLeft(ReleaseSimple, s, Levels[o])
<1>1. /\ f \in Registries
      /\ \A p \in Objects : f[p] = IF p = o THEN [count |-> None, live |-> m[o].live] ELSE m[p]
  BY ForgetStep
<1> HIDE DEF f
<1>2. ~Shared(f, o)
  BY <1>1 DEF Shared
<1>3. Release(f, o) = Free(all(f), o) /\ Release(m, o) = Free(all(m), o)
  BY <1>2 DEF Release
<1>4. \A s \in Registries : /\ all(s) \in Registries
                            /\ \A p \in Objects : all(s)[p] = IF p \in ToSet(Levels[o]) THEN ReleaseSimple(s, p)[p] ELSE s[p]
  BY LevelFacts, LevelsReleased
<1> HIDE DEF all
<1>5. ASSUME NEW p \in Objects, p # o PROVE all(f)[p] = all(m)[p]
  <2>1. f[p] = m[p]
    BY <1>1, <1>5
  <2>2. Shared(f, p) <=> Shared(m, p)
    BY <2>1 DEF Shared
  <2> DEFINE After(s) == IF Shared(s, p) THEN [count |-> s[p].count - 1, live |-> s[p].live]
                         ELSE [count |-> None, live |-> FALSE]
  <2>3. \A s \in Registries, q \in Objects :
            ReleaseSimple(s, p)[q] = IF q # p THEN s[q] ELSE After(s)
    BY SimpleStep
  <2>4. After(f) = After(m)
    BY <2>1, <2>2
  <2> HIDE DEF After
  <2> QED
    BY <1>1, <1>4, <2>1, <2>3, <2>4
<1>6. Free(all(f), o) = Free(all(m), o)
  <2>1. Free(all(f), o) \in Registries /\ Free(all(m), o) \in Registries
    BY <1>1, <1>4, FreeStep
  <2>2. \A p \in Objects : Free(all(f), o)[p] = Free(all(m), o)[p]
    BY <1>1, <1>4, <1>5, FreeStep
  <2> QED
    BY <2>1, <2>2 DEF Registries
<1> QED
  BY <1>3, <1>6 DEF f

LEMMA GraphGivesUpIsSound ==
  ASSUME NEW m, NEW x, NEW v, Sound(m, x, v), NEW u \in Places,
         v[u] # None => Anchored(x, v[u]) \/ v[u] \in Freeing
  PROVE  Sound(GraphGivesUp(m, v[u]), x, Set(v, u, None))
<1> DEFINE o == v[u]
           w == Set(v, u, None)
<1>1. /\ v \in Valuations /\ x \in [Objects -> Nat] /\ m \in Registries /\ Counted(m, Total(x, v))
      /\ Total(x, v) \in [Objects -> Nat]
  BY TotalFacts DEF Sound
<1>2. CASE o = None
  <2>1. w = v
    BY <1>1, <1>2, SetAndGiveUp DEF Values
  <2> QED
    BY <1>2, <2>1 DEF GraphGivesUp
<1>3. CASE o # None /\ Anchored(x, o)
  <2>1. Shared(m, o) /\ m[o].count > 1 /\ m[o].count \in Nat /\ Sound(Drop(m, o), x, w)
    BY <1>3, DropIsSound
  <2>2. GraphGivesUp(m, o) = Drop(m, o)
    BY <1>3, <2>1, NoneIsNoCount DEF GraphGivesUp
  <2> QED
    BY <2>1, <2>2
<1>4. CASE o # None /\ o \in Freeing
  <2>1. o \in Objects
    BY <1>4, ReferencesAssumption
  <2>2. Total(x, w) = Less(Total(x, v), o) /\ Total(x, v)[o] > x[o] /\ w \in Valuations /\ x[o] \in Nat
    BY <1>1, <2>1, TotalChanges, SetAndGiveUp DEF Values
  <2>3. Total(x, v)[o] > 0
    BY <1>1, <2>1, <2>2
  <2>4. Counted(Release(m, o), Total(x, w))
    BY <1>1, <2>1, <2>2, <2>3, ReleaseCounts
  <2>5. m[o].count \in Nat /\ m[o].count > 0
    BY <1>1, <2>1, <2>3, CountedIsNumber DEF Holding
  <2>6. GraphGivesUp(m, o) = Release(m, o)
    <3>1. CASE m[o].count > 1
      BY <1>4, <2>5, <3>1, NoneIsNoCount DEF GraphGivesUp, Release, Shared
    <3>2. CASE ~(m[o].count > 1)
      <4>1. ~Shared(m, o)
        BY <3>2 DEF Shared
      <4>2. GraphGivesUp(m, o) = Release([m EXCEPT ![o].count = None], o)
        BY <1>4, <2>5, <3>2, NoneIsNoCount DEF GraphGivesUp
      <4> QED
        BY <1>1, <2>1, <4>1, <4>2, ForgottenIsReleased
    <3> QED
      BY <3>1, <3>2
  <2> QED
    BY <1>1, <2>2, <2>4, <2>6 DEF Sound, Counted
<1> QED
  BY <1>2, <1>3, <1>4
-----------------------------------------------------------------------------
(* The application and the slots of delays, as holders.                      *)
Slotted(current, o) == \E d \in Delays : current[d] # None /\ o \in ToSet(Slots[d])
External(h, current) == [o \in Objects |-> h[o] + (IF Slotted(current, o) THEN 1 ELSE 0)]

LEMMA AtMostOne ==
  ASSUME NEW S, \A a, b \in S : a = b
  PROVE  Cardinality(S) = IF S = {} THEN 0 ELSE 1
<1>1. CASE S = {}
  BY <1>1, FS_EmptySet
<1>2. CASE S # {}
  <2>1. PICK a \in S : TRUE
    BY <1>2
  <2>2. S = {a}
    BY <2>1
  <2> QED
    BY <1>2, <2>2, FS_Singleton
<1> QED
  BY <1>1, <1>2

LEMMA HoldersAreCounted ==
  ASSUME held \in [Objects -> Nat], Val(nodes) \in Valuations, NEW o \in Objects, DOMAIN nodes \subseteq Nodes
  PROVE  Holders(o) = Holding(objects, Total(External(held, delays), Val(nodes)), o)
<1> DEFINE ps == {p \in Objects : objects[p].live /\ o \in ToSet(Levels[p])}
           ds == {d \in Delays : delays[d] # None /\ o \in ToSet(Slots[d])}
           us == {u \in (DOMAIN nodes) \X (1..Params) : nodes[u[1]][u[2]] = o}
<1>1. Cardinality(ps) = IF InPyramid(objects, o) THEN 1 ELSE 0
  <2>1. \A p, q \in ps : p = q
    BY OwnersAssumption
  <2>2. ps = {} <=> ~InPyramid(objects, o)
    BY DEF InPyramid
  <2> HIDE DEF ps
  <2> QED
    BY <2>1, <2>2, AtMostOne
<1>2. Cardinality(ds) = IF Slotted(delays, o) THEN 1 ELSE 0
  <2>1. \A d, e \in ds : d = e
    BY OwnersAssumption
  <2>2. ds = {} <=> ~Slotted(delays, o)
    BY DEF Slotted
  <2> HIDE DEF ds
  <2> QED
    BY <2>1, <2>2, AtMostOne
<1>3. us = {u \in Places : Val(nodes)[u] = o}
  BY ConstantFacts DEF Places, Val
<1>4. Uses(o) = Count(Val(nodes), o)
  BY <1>3 DEF Uses, Count
<1>5. External(held, delays) \in [Objects -> Nat] /\ External(held, delays)[o] = held[o] + Cardinality(ds) /\ held[o] \in Nat
  BY <1>2 DEF External
<1>6. Total(External(held, delays), Val(nodes))[o] = held[o] + Cardinality(ds) + Count(Val(nodes), o)
      /\ Count(Val(nodes), o) \in Nat
  BY <1>5, TotalFacts
<1>7. Owners(o) = Cardinality(ps) + Cardinality(ds)
  BY DEF Owners
<1> HIDE DEF ps, ds
<1> QED
  BY <1>1, <1>2, <1>4, <1>5, <1>6, <1>7 DEF Holders, Holding
-----------------------------------------------------------------------------
(* What may be a value of a parameter, and the application holds, a delay    *)
(* that is not freed, or what it is a level of.                              *)
LEMMA ExternalFacts ==
  ASSUME NEW h \in [Objects -> Nat], NEW current
  PROVE  /\ External(h, current) \in [Objects -> Nat]
         /\ \A o \in Objects : h[o] > 0 => Anchored(External(h, current), o)
         /\ \A o : Slotted(current, o) => Anchored(External(h, current), o)
         /\ \A o \in Objects : \A l \in ToSet(Levels[o]) :
              Slotted(current, o) => Anchored(External(h, current), l)
<1> DEFINE x == External(h, current)
<1>1. x \in [Objects -> Nat]
  BY DEF External
<1>2. \A o : Slotted(current, o) => o \in Objects
  BY ConstantFacts DEF Slotted, ToSet
<1>3. \A o \in Objects : h[o] > 0 \/ Slotted(current, o) => x[o] > 0
  BY DEF External
<1> HIDE DEF x
<1>4. \A o \in Objects : h[o] > 0 => Anchored(x, o)
  BY <1>3 DEF Anchored
<1>5. \A o : Slotted(current, o) => Anchored(x, o)
  BY <1>2, <1>3 DEF Anchored
<1>6. \A o \in Objects : \A l \in ToSet(Levels[o]) : Slotted(current, o) => Anchored(x, l)
  BY <1>3 DEF Anchored
<1> QED
  BY <1>1, <1>4, <1>5, <1>6 DEF x

LEMMA ExternalChanges ==
  ASSUME NEW h \in [Objects -> Nat], NEW current, NEW o \in Objects
  PROVE  /\ More(h, o) \in [Objects -> Nat]
         /\ External(More(h, o), current) = More(External(h, current), o)
         /\ h[o] > 0 => /\ Less(h, o) \in [Objects -> Nat]
                        /\ External(Less(h, o), current) = Less(External(h, current), o)
<1> DEFINE x == External(h, current)
           In(p) == IF Slotted(current, p) THEN 1 ELSE 0
<1>1. /\ x \in [Objects -> Nat]
      /\ \A p \in Objects : x[p] = h[p] + In(p) /\ In(p) \in Nat /\ h[p] \in Nat
  BY DEF External
<1>3. \A g : External(g, current) = [p \in Objects |-> External(g, current)[p]]
  BY DEF External
<1> HIDE DEF x, In
<1>4. \A g \in {h, x} : /\ More(g, o) = [p \in Objects |-> More(g, o)[p]]
                        /\ \A p \in Objects : More(g, o)[p] = IF p = o THEN g[o] + 1 ELSE g[p]
  BY <1>1 DEF More
<1>5. \A g \in {h, x} : /\ Less(g, o) = [p \in Objects |-> Less(g, o)[p]]
                        /\ \A p \in Objects : Less(g, o)[p] = IF p = o THEN g[o] - 1 ELSE g[p]
  BY <1>1 DEF Less
<1>6. External(More(h, o), current) = More(x, o)
  <2>1. \A p \in Objects : External(More(h, o), current)[p] = More(h, o)[p] + In(p)
    BY DEF External, In
  <2>2. \A p \in Objects : External(More(h, o), current)[p] = More(x, o)[p]
    BY <1>1, <1>4, <2>1
  <2> QED
    BY <1>3, <1>4, <2>2
<1>7. External(Less(h, o), current) = Less(x, o)
  <2>1. \A p \in Objects : External(Less(h, o), current)[p] = Less(h, o)[p] + In(p)
    BY DEF External, In
  <2>2. \A p \in Objects : External(Less(h, o), current)[p] = Less(x, o)[p]
    BY <1>1, <1>5, <2>1
  <2> QED
    BY <1>3, <1>5, <2>2
<1>8. More(h, o) \in [Objects -> Nat]
  BY <1>1 DEF More
<1>9. h[o] > 0 => Less(h, o) \in [Objects -> Nat]
  BY <1>1 DEF Less
<1> QED
  BY <1>6, <1>7, <1>8, <1>9 DEF x

LEMMA StepTypes ==
  ASSUME NEW m \in Registries
  PROVE  /\ \A o \in Objects : /\ Retain(m, o) \in Registries /\ Release(m, o) \in Registries
                               /\ vxReleaseReference(m, o) \in Registries
         /\ \A o \in Values : /\ GiveUp(m, o) \in Registries /\ RemovalGivesUp(m, o) \in Registries
                              /\ GraphGivesUp(m, o) \in Registries
<1>1. ASSUME NEW c \in Registries, NEW o \in Objects PROVE Release(c, o) \in Registries
  <2>1. CASE Shared(c, o)
    BY <2>1, DropStep DEF Release
  <2>2. CASE ~Shared(c, o)
    <3>1. FoldLeft(ReleaseSimple, c, Levels[o]) \in Registries
      BY LevelFacts, LevelsReleased
    <3> QED
      BY <2>2, <3>1, FreeStep DEF Release
  <2> QED
    BY <2>1, <2>2
<1>2. ASSUME NEW o \in Objects PROVE Retain(m, o) \in Registries
  <2>1. CASE m[o].count \in Nat
    BY <2>1, RetainStep
  <2>2. CASE m[o].count \notin Nat
    <3>1. m[o].count = None
      BY <2>2 DEF Registries
    <3>2. Retain(m, o) = [m EXCEPT ![o].count = None]
      BY <3>1 DEF Retain
    <3>3. [m EXCEPT ![o].count = None] \in Registries
      BY Zenon, ForgetStep
    <3> QED
      BY <3>2, <3>3, Zenon
  <2> QED
    BY <2>1, <2>2
<1>3. ASSUME NEW o \in Objects, m[o].count \in Nat, m[o].count > 0 PROVE Drop(m, o) \in Registries
  <2>1. [m[o] EXCEPT !.count = m[o].count - 1] = [count |-> m[o].count - 1, live |-> m[o].live]
    BY DEF Registries
  <2>2. Drop(m, o) = [m EXCEPT ![o] = [m[o] EXCEPT !.count = m[o].count - 1]]
    BY DEF Drop
  <2>3. m[o].count - 1 \in Nat /\ m[o].live \in BOOLEAN
    BY <1>3 DEF Registries
  <2> QED
    BY <2>1, <2>2, <2>3 DEF Registries
<1>4. ASSUME NEW o \in Objects PROVE vxReleaseReference(m, o) \in Registries
  BY <1>1 DEF vxReleaseReference
<1>5. \A o \in Values : o # None => o \in Objects /\ m[o].count \in Nat \cup {None}
  BY DEF Values, Registries
<1>6. ASSUME NEW o \in Values PROVE GiveUp(m, o) \in Registries
  BY <1>3, <1>5, DropStep DEF GiveUp
<1>7. ASSUME NEW o \in Values PROVE RemovalGivesUp(m, o) \in Registries
  <2>1. o # None /\ m[o].count # None /\ m[o].count # 0 => m[o].count \in Nat /\ m[o].count > 0
    BY <1>5
  <2> QED
    BY <1>3, <1>5, <2>1 DEF RemovalGivesUp
<1>8. ASSUME NEW o \in Values PROVE GraphGivesUp(m, o) \in Registries
  <2>1. o # None /\ m[o].count # None /\ m[o].count # 0 => m[o].count \in Nat /\ m[o].count > 0
    BY <1>5
  <2>2. o # None => /\ [m EXCEPT ![o].count = None] \in Registries
                    /\ Release([m EXCEPT ![o].count = None], o) \in Registries
    BY <1>1, <1>5, ForgetStep
  <2> QED
    BY <1>3, <1>5, <2>1, <2>2 DEF GraphGivesUp
<1> QED
  BY <1>1, <1>2, <1>4, <1>6, <1>7, <1>8

(* The parameters of a node that have given up their values, and nodes of    *)
(* which all parameters have.                                                *)
Upto(v, n, k) == [u \in Places |-> IF u[1] = n /\ u[2] <= k THEN None ELSE v[u]]
Without(v, S) == [u \in Places |-> IF u[1] \in S THEN None ELSE v[u]]

LEMMA UptoStep ==
  ASSUME NEW v \in Valuations, NEW n \in Nodes
  PROVE  /\ Upto(v, n, 0) = v /\ Upto(v, n, Params) = Without(v, {n})
         /\ \A k \in 1..Params : /\ Upto(v, n, k) = Set(Upto(v, n, k - 1), <<n, k>>, None)
                                 /\ Upto(v, n, k - 1)[<<n, k>>] = v[<<n, k>>] /\ <<n, k>> \in Places
<1>1. \A u \in Places : u[1] \in Nodes /\ u[2] \in 1..Params /\ u = <<u[1], u[2]>>
  BY DEF Places
<1>2. Params \in Nat
  BY ConstantFacts
<1>3. Upto(v, n, 0) = v
  <2>1. \A u \in Places : ~(u[2] <= 0)
    BY <1>1, <1>2
  <2> QED
    BY <2>1 DEF Upto, Valuations
<1>4. Upto(v, n, Params) = Without(v, {n})
  <2>1. \A u \in Places : u[2] <= Params
    BY <1>1, <1>2
  <2> QED
    BY <2>1 DEF Upto, Without
<1>5. ASSUME NEW k \in 1..Params
      PROVE  /\ Upto(v, n, k) = Set(Upto(v, n, k - 1), <<n, k>>, None)
             /\ Upto(v, n, k - 1)[<<n, k>>] = v[<<n, k>>] /\ <<n, k>> \in Places
  <2>1. <<n, k>> \in Places
    BY DEF Places
  <2>2. \A u \in Places : u[1] = n /\ u[2] <= k <=> u = <<n, k>> \/ (u[1] = n /\ u[2] <= k - 1)
    <3>1. \A u \in Places : u[1] = n /\ u[2] = k <=> u = <<n, k>>
      BY <1>1
    <3>2. \A u \in Places : u[2] <= k <=> u[2] = k \/ u[2] <= k - 1
      BY <1>1, <1>2
    <3> QED
      BY <3>1, <3>2
  <2>3. ~(k <= k - 1)
    BY <1>2
  <2>4. \A u \in Places : Upto(v, n, k)[u] = Set(Upto(v, n, k - 1), <<n, k>>, None)[u]
    BY <2>2 DEF Upto, Set
  <2>5. Upto(v, n, k) = Set(Upto(v, n, k - 1), <<n, k>>, None)
    BY <2>4 DEF Upto, Set
  <2> QED
    BY <2>1, <2>3, <2>5 DEF Upto
<1> QED
  BY <1>3, <1>4, <1>5

LEMMA RemovalIsSound ==
  ASSUME NEW m, NEW x, NEW v, Sound(m, x, v), NEW n \in Nodes,
         NEW sq, DOMAIN sq = 1..Params, \A k \in 1..Params : sq[k] = v[<<n, k>>],
         \A k \in 1..Params : sq[k] # None => Anchored(x, sq[k])
  PROVE  Sound(FoldLeft(RemovalGivesUp, m, sq), x, Without(v, {n}))
<1>1. /\ Params \in Nat /\ m \in Registries /\ v \in Valuations
      /\ \A k \in 1..Params : sq[k] \in Values
  BY ConstantFacts DEF Sound, Valuations, Places
<1>2. \A k \in 1..Params : \A c \in Registries : RemovalGivesUp(c, sq[k]) \in Registries
  BY <1>1, StepTypes
<1>3. PICK t : /\ InTurn(t, Params, m) /\ t[Params] = FoldLeft(RemovalGivesUp, m, sq)
               /\ \A k \in 1..Params : t[k] = RemovalGivesUp(t[k - 1], sq[k])
  BY <1>1, <1>2, RemovalInTurn
<1> DEFINE Good == {k \in 0..Params : Sound(t[k], x, Upto(v, n, k))}
<1>4. 0 \in Good
  <2>1. Upto(v, n, 0) = v
    BY <1>1, UptoStep
  <2>2. 0 \in 0..Params /\ t[0] = m
    BY <1>1, <1>3 DEF InTurn
  <2> QED
    BY <2>1, <2>2
<1>5. ASSUME NEW k \in 1..Params, k - 1 \in Good PROVE k \in Good
  <2> DEFINE w == Upto(v, n, k - 1)
  <2>1. Upto(v, n, k) = Set(w, <<n, k>>, None) /\ w[<<n, k>>] = sq[k] /\ <<n, k>> \in Places
    BY <1>1, UptoStep
  <2>2. Sound(t[k - 1], x, w)
    BY <1>5
  <2> HIDE DEF w
  <2>3. Sound(RemovalGivesUp(t[k - 1], w[<<n, k>>]), x, Set(w, <<n, k>>, None))
    BY <2>1, <2>2, GiveUpIsSound
  <2>4. k \in 0..Params
    BY <1>1
  <2> QED
    BY <1>3, <2>1, <2>3, <2>4
<1>6. Params \in Good
  <2> HIDE DEF Good
  <2> QED
    BY <1>1, <1>4, <1>5, OnNumbers
<1>7. Upto(v, n, Params) = Without(v, {n})
  BY <1>1, UptoStep
<1> QED
  BY <1>3, <1>6, <1>7

LEMMA NodeGoesSoundly ==
  ASSUME NEW m, NEW x, NEW v, Sound(m, x, v), NEW n \in Nodes,
         NEW sq, DOMAIN sq = 1..Params, \A k \in 1..Params : sq[k] = v[<<n, k>>],
         \A k \in 1..Params : sq[k] # None => Anchored(x, sq[k]) \/ sq[k] \in Freeing
  PROVE  Sound(FoldLeft(GraphGivesUp, m, sq), x, Without(v, {n}))
<1>1. /\ Params \in Nat /\ m \in Registries /\ v \in Valuations
      /\ \A k \in 1..Params : sq[k] \in Values
  BY ConstantFacts DEF Sound, Valuations, Places
<1>2. \A k \in 1..Params : \A c \in Registries : GraphGivesUp(c, sq[k]) \in Registries
  BY <1>1, StepTypes
<1>3. PICK t : /\ InTurn(t, Params, m) /\ t[Params] = FoldLeft(GraphGivesUp, m, sq)
               /\ \A k \in 1..Params : t[k] = GraphGivesUp(t[k - 1], sq[k])
  BY <1>1, <1>2, GraphInTurn
<1> DEFINE Good == {k \in 0..Params : Sound(t[k], x, Upto(v, n, k))}
<1>4. 0 \in Good
  <2>1. Upto(v, n, 0) = v
    BY <1>1, UptoStep
  <2>2. 0 \in 0..Params /\ t[0] = m
    BY <1>1, <1>3 DEF InTurn
  <2> QED
    BY <2>1, <2>2
<1>5. ASSUME NEW k \in 1..Params, k - 1 \in Good PROVE k \in Good
  <2> DEFINE w == Upto(v, n, k - 1)
  <2>1. Upto(v, n, k) = Set(w, <<n, k>>, None) /\ w[<<n, k>>] = sq[k] /\ <<n, k>> \in Places
    BY <1>1, UptoStep
  <2>2. Sound(t[k - 1], x, w)
    BY <1>5
  <2> HIDE DEF w
  <2>3. Sound(GraphGivesUp(t[k - 1], w[<<n, k>>]), x, Set(w, <<n, k>>, None))
    BY <2>1, <2>2, GraphGivesUpIsSound
  <2>4. k \in 0..Params
    BY <1>1
  <2> QED
    BY <1>3, <2>1, <2>3, <2>4
<1>6. Params \in Good
  <2> HIDE DEF Good
  <2> QED
    BY <1>1, <1>4, <1>5, OnNumbers
<1>7. Upto(v, n, Params) = Without(v, {n})
  BY <1>1, UptoStep
<1> QED
  BY <1>3, <1>6, <1>7

LEMMA GraphGoesSoundly ==
  ASSUME NEW m, NEW x, NEW v, Sound(m, x, v), NEW s \in Seq(Nodes), IsInjective(s),
         \A n \in ToSet(s) :
            /\ DOMAIN nodes[n] = 1..Params
            /\ \A k \in 1..Params :
                  /\ nodes[n][k] = v[<<n, k>>]
                  /\ nodes[n][k] # None => Anchored(x, nodes[n][k]) \/ nodes[n][k] \in Freeing
  PROVE  Sound(FoldLeft(NodeGoes, m, s), x, Without(v, ToSet(s)))
<1> DEFINE l == Len(s)
           To(i) == {s[j] : j \in 1..i}
<1>1. /\ l \in Nat /\ DOMAIN s = 1..l /\ Params \in Nat
      /\ \A i \in 1..l : s[i] \in Nodes /\ s[i] \in ToSet(s)
  BY ConstantFacts DEF ToSet
<1> HIDE DEF l
<1>2. m \in Registries /\ v \in Valuations
  BY DEF Sound
<1>3. ASSUME NEW i \in 1..l, NEW c \in Registries PROVE NodeGoes(c, s[i]) \in Registries
  <2> DEFINE sq == nodes[s[i]]
  <2>1. DOMAIN sq = 1..Params /\ \A k \in 1..Params : sq[k] \in Values
    <3>1. \A k \in 1..Params : <<s[i], k>> \in Places /\ sq[k] = v[<<s[i], k>>]
      BY <1>1 DEF Places
    <3> QED
      BY <1>1, <1>2, <3>1 DEF Valuations
  <2> HIDE DEF sq
  <2>2. \A k \in 1..Params : \A d \in Registries : GraphGivesUp(d, sq[k]) \in Registries
    BY <2>1, StepTypes
  <2>3. PICK t : /\ InTurn(t, Params, c) /\ t[Params] = FoldLeft(GraphGivesUp, c, sq)
                 /\ \A k \in 1..Params : t[k] = GraphGivesUp(t[k - 1], sq[k])
    BY <1>1, <2>1, <2>2, GraphInTurn
  <2>4. t[Params] \in Registries
    BY <1>1, <2>3 DEF InTurn
  <2> QED
    BY <2>3, <2>4 DEF NodeGoes, sq
<1>4. PICK t : /\ InTurn(t, l, m) /\ t[l] = FoldLeft(NodeGoes, m, s)
               /\ \A i \in 1..l : t[i] = NodeGoes(t[i - 1], s[i])
  BY <1>1, <1>2, <1>3, NodesInTurn
<1> DEFINE Good == {i \in 0..l : Sound(t[i], x, Without(v, To(i)))}
<1>5. 0 \in Good
  <2>1. To(0) = {}
    OBVIOUS
  <2>2. Without(v, {}) = v
    BY <1>2 DEF Without, Valuations
  <2> QED
    BY <1>1, <1>4, <2>1, <2>2 DEF InTurn
<1>6. ASSUME NEW i \in 1..l, i - 1 \in Good PROVE i \in Good
  <2> DEFINE w == Without(v, To(i - 1))
             sq == nodes[s[i]]
  <2>1. s[i] \notin To(i - 1)
    BY <1>1 DEF IsInjective
  <2>2. To(i) = To(i - 1) \cup {s[i]}
    <3>1. 1..i = (1..(i - 1)) \cup {i}
      BY <1>1
    <3> QED
      BY <3>1
  <2> HIDE DEF To
  <2>3. Without(w, {s[i]}) = Without(v, To(i))
    BY <2>2 DEF Without
  <2>4. \A k \in 1..Params : sq[k] = w[<<s[i], k>>]
    <3>1. \A k \in 1..Params : <<s[i], k>> \in Places
      BY <1>1 DEF Places
    <3> QED
      BY <1>1, <2>1, <3>1 DEF Without
  <2>5. /\ DOMAIN sq = 1..Params /\ s[i] \in Nodes
        /\ \A k \in 1..Params : sq[k] # None => Anchored(x, sq[k]) \/ sq[k] \in Freeing
    BY <1>1
  <2>6. Sound(t[i - 1], x, w)
    BY <1>6
  <2>7. t[i] = FoldLeft(GraphGivesUp, t[i - 1], sq)
    BY <1>4 DEF NodeGoes
  <2> HIDE DEF w, sq
  <2>8. Sound(FoldLeft(GraphGivesUp, t[i - 1], sq), x, Without(w, {s[i]}))
    BY <2>4, <2>5, <2>6, NodeGoesSoundly
  <2>9. i \in 0..l
    BY <1>1
  <2> QED
    BY <2>3, <2>7, <2>8, <2>9
<1>7. l \in Good
  <2>1. l \in Nat /\ l \in 0..l
    BY <1>1
  <2> HIDE DEF Good
  <2>2. \A i \in 1..l : i - 1 \in Good => i \in Good
    BY <1>6
  <2>3. \A i \in 0..l : i \in Good
    BY <2>1, <2>2, <1>5, OnNumbers
  <2> QED
    BY <2>1, <2>3
<1>8. To(l) = ToSet(s)
  BY <1>1 DEF ToSet
<1> QED
  BY <1>4, <1>7, <1>8

(* The slots of a delay are released when it is.                             *)
LEMMA SlotsReleased ==
  ASSUME NEW h \in [Objects -> Nat], NEW current, DOMAIN current = Delays,
         NEW d \in Delays, current[d] # None,
         NEW m, NEW v, Sound(m, External(h, current), v)
  PROVE  Sound(FoldLeft(vxReleaseReference, m, Slots[d]), External(h, [current EXCEPT ![d] = None]), v)
<1> DEFINE l == Len(Slots[d])
           s == Slots[d]
           x == External(h, current)
           Gone(i, o) == \E j \in 1..i : s[j] = o
           X(i) == [o \in Objects |-> x[o] - (IF Gone(i, o) THEN 1 ELSE 0)]
<1>1. l \in Nat /\ DOMAIN s = 1..l /\ \A i \in 1..l : s[i] \in Objects
  BY ConstantFacts
<1>2. /\ \A i, j \in 1..l : s[i] = s[j] => i = j
      /\ \A o : o \in ToSet(Slots[d]) <=> Gone(l, o)
  BY <1>1, OwnersAssumption DEF IsInjective, ToSet
<1> HIDE DEF l, s
<1>3. x \in [Objects -> Nat] /\ \A o \in Objects : Gone(l, o) => x[o] > 0
  BY <1>2 DEF External, Slotted
<1>4. m \in Registries
  BY DEF Sound
<1>5. PICK t : /\ InTurn(t, l, m) /\ t[l] = FoldLeft(vxReleaseReference, m, s)
               /\ \A i \in 1..l : t[i] = vxReleaseReference(t[i - 1], s[i])
  <2>1. \A i \in 1..l : \A c \in Registries : vxReleaseReference(c, s[i]) \in Registries
    BY <1>1, StepTypes
  <2>2. l \in Nat
    BY <1>1
  <2>3. DOMAIN s = 1..l
    BY <1>1
  <2>4. \E t : /\ InTurn(t, l, m) /\ t[l] = FoldLeft(vxReleaseReference, m, s)
               /\ \A i \in 1..l : t[i] = vxReleaseReference(t[i - 1], s[i])
    BY <1>4, <2>1, <2>2, <2>3, SlotsInTurn, ZenonT(30)
  <2> QED
    BY <2>4, Zenon
<1> DEFINE Good == {i \in 0..l : Sound(t[i], X(i), v)}
<1>6. 0 \in Good
  <2>1. \A o : ~Gone(0, o)
    OBVIOUS
  <2> HIDE DEF Gone, x
  <2>2. X(0) = x
    BY <1>3, <2>1
  <2> QED
    BY <1>1, <1>5, <2>2 DEF InTurn, x
<1>7. ASSUME NEW i \in 1..l, i - 1 \in Good PROVE i \in Good
  <2> DEFINE o == s[i]
  <2>1. ~Gone(i - 1, o)
    BY <1>1, <1>2
  <2>2. \A p : Gone(i, p) <=> p = o \/ Gone(i - 1, p)
    <3>1. 1..i = (1..(i - 1)) \cup {i}
      BY <1>1
    <3> QED
      BY <3>1
  <2>3. o \in Objects /\ x[o] > 0
    <3>1. Gone(l, o)
      OBVIOUS
    <3> QED
      BY <1>1, <1>3, <3>1
  <2> HIDE DEF Gone, x, o
  <2>4. X(i - 1)[o] > 0 /\ \A p \in Objects : X(i - 1)[p] = x[p] - (IF Gone(i - 1, p) THEN 1 ELSE 0)
    BY <1>3, <2>1, <2>3
  <2>5. \A p \in Objects : X(i)[p] = IF p = o THEN X(i - 1)[o] - 1 ELSE X(i - 1)[p]
    BY <1>3, <2>1, <2>2, <2>3
  <2>6. X(i) = Less(X(i - 1), o)
    BY <2>3, <2>5 DEF Less
  <2>7. Sound(t[i - 1], X(i - 1), v)
    BY <1>7
  <2> HIDE DEF X
  <2>8. Sound(vxReleaseReference(t[i - 1], o), Less(X(i - 1), o), v)
    BY <2>3, <2>4, <2>7, ReleaseIsSound
  <2>9. i \in 0..l /\ t[i] = vxReleaseReference(t[i - 1], o)
    BY <1>1, <1>5 DEF o
  <2> QED
    BY <2>6, <2>8, <2>9
<1>8. l \in Good
  <2>1. l \in Nat
    BY <1>1
  <2> HIDE DEF Good
  <2> QED
    BY <2>1, <1>6, <1>7, OnNumbers
<1>9. X(l) = External(h, [current EXCEPT ![d] = None])
  <2> DEFINE after == [current EXCEPT ![d] = None]
  <2>1. \A e \in Delays : after[e] = IF e = d THEN None ELSE current[e]
    OBVIOUS
  <2> HIDE DEF after
  <2>2. \A o : Gone(l, o) => Slotted(current, o) /\ ~Slotted(after, o)
    BY <1>2, <2>1, OwnersAssumption DEF Slotted
  <2>3. \A o : ~Gone(l, o) => (Slotted(after, o) <=> Slotted(current, o))
    BY <1>2, <2>1 DEF Slotted
  <2> HIDE DEF Gone
  <2>4. \A o \in Objects : X(l)[o] = External(h, after)[o]
    BY <2>2, <2>3 DEF External
  <2> QED
    BY <2>4 DEF External, after
<1> QED
  BY <1>5, <1>8, <1>9 DEF s

(* The loop over what is tied, in whatever order: the registry after each    *)
(* set of ties that it may have gone through.                                *)
Tracked(ties_) == {t \in ties_ : Listed(t.node)}

Exchanges(f, S, current, before, m) ==
    /\ f \in [SUBSET S -> Registries] /\ f[{}] = m
    /\ \A s \in SUBSET S : s # {} => \E t \in s :
           f[s] = Exchange(f[s \ {t}], before[t.node][t.param], Tied(current, t))

Exchangeable(S, current, before) ==
    \A t \in S : \A c \in Registries :
        Exchange(c, before[t.node][t.param], Tied(current, t)) \in Registries

LEMMA ExchangesInTurn ==
  ASSUME NEW current, NEW ties_, NEW before, NEW m \in Registries,
         IsFiniteSet(Tracked(ties_)), Exchangeable(Tracked(ties_), current, before)
  PROVE  \E f : /\ Exchanges(f, Tracked(ties_), current, before, m)
                /\ f[Tracked(ties_)] = Recount(current, ties_, before, m)
<1> DEFINE S == Tracked(ties_)
           Does(c, t) == Exchange(c, before[t.node][t.param], Tied(current, t))
           Some(s) == CHOOSE t \in s : TRUE
           ch == [s \in (SUBSET S) \ {{}} |-> Some(s)]
           G == [y \in S \X Registries |-> Does(y[2], y[1])]
           Eq(f) == f = [s \in SUBSET S |-> IF s = {} THEN m ELSE Does(f[s \ {Some(s)}], Some(s))]
           iter == CHOOSE f : Eq(f)
<1>1. Recount(current, ties_, before, m) = iter[S]
  BY DEF Recount, FoldSet, MapThenFoldSet, Tracked
<1>2. IsFiniteSet(S) /\ Exchangeable(S, current, before)
  OBVIOUS
<1> HIDE DEF S
<1>3. \A s \in SUBSET S : s # {} => Some(s) \in s
  OBVIOUS
<1>4. \A t \in S, c \in Registries : Does(c, t) \in Registries
  BY <1>2 DEF Exchangeable
<1> HIDE DEF Does, Some
<1>5. /\ G \in [S \X Registries -> Registries]
      /\ \A t \in S, c \in Registries : G[<<t, c>>] = Does(c, t)
  BY <1>4
<1>6. /\ ch \in [(SUBSET S) \ {{}} -> S]
      /\ \A s \in SUBSET S : s # {} => ch[s] = Some(s) /\ ch[s] \in s
  BY <1>3
<1> HIDE DEF G, ch
<1>7. PICK f \in [SUBSET S -> Registries] : Folding(f, S, m, G, ch)
  BY <1>2, <1>5, <1>6, FoldExists
<1>8. \A s \in SUBSET S : f[s] = IF s = {} THEN m ELSE Does(f[s \ {Some(s)}], Some(s))
  <2>1. \A s \in SUBSET S : s # {} => Some(s) \in S /\ s \ {Some(s)} \in SUBSET S
    BY <1>3
  <2>2. \A s \in SUBSET S : s # {} => f[s] = G[<<Some(s), f[s \ {Some(s)}]>>]
    BY <1>6, <1>7 DEF Folding
  <2>3. f[{}] = m
    BY <1>7 DEF Folding
  <2> QED
    BY <1>5, <1>7, <2>1, <2>2, <2>3
<1>9. Eq(f)
  BY <1>7, <1>8
<1>10. Eq(iter)
  BY <1>9
<1> HIDE DEF iter
<1>11. \A s \in SUBSET S : iter[s] = IF s = {} THEN m ELSE Does(iter[s \ {Some(s)}], Some(s))
  BY <1>10
<1> DEFINE Good == {s \in SUBSET S : iter[s] = f[s]}
<1>12. S \in Good
  <2>1. {} \in Good
    BY <1>8, <1>11
  <2>2. ASSUME NEW s \in SUBSET S, s # {} PROVE \E t \in s : s \ {t} \in Good => s \in Good
    <3>1. s \ {Some(s)} \in Good => s \in Good
      BY <1>8, <1>11, <2>2
    <3> QED
      BY <1>3, <2>2, <3>1
  <2> HIDE DEF Good
  <2> QED
    BY <1>2, <2>1, <2>2, OnSubsets
<1>13. \A s \in SUBSET S : s # {} => \E t \in s : f[s] = Does(f[s \ {t}], t)
  BY <1>3, <1>8
<1>14. f[{}] = m
  BY <1>8
<1> QED
  BY <1>1, <1>7, <1>12, <1>13, <1>14 DEF Does, Exchanges, S
-----------------------------------------------------------------------------
(* What a tie of a node of the graph leads to.                               *)
LEMMA TieFacts ==
  ASSUME TiesInv, NEW t \in delay_params \cup level_params, Listed(t.node),
         NEW h \in [Objects -> Nat], NEW current,
         current \in [Delays -> Nat \cup {None}], \A d \in Delays : current[d] = None <=> delays[d] = None
  PROVE  /\ <<t.node, t.param>> \in Places /\ t.node \in DOMAIN nodes /\ wanted[t.node][t.param] = t
         /\ Tied(current, t) \in Objects /\ Anchored(External(h, current), Tied(current, t))
         /\ nodes[t.node][t.param] = Tied(delays, t)
<1>1. t.node \in DOMAIN nodes /\ DOMAIN nodes \subseteq Nodes
  BY DEF Listed, TiesInv, ListInv
<1>2. /\ t \in Ties /\ t.delay \in Delays /\ t.age \in Nat /\ t.node \in Nodes /\ t.param \in 1..Params
      /\ t.level \in Nat
  BY DEF TiesInv, TypeInv, Ties
<1>3. wanted[t.node][t.param] = t
  BY <1>1 DEF TiesInv, RegistryInv
<1>4. /\ delays[t.delay] # None
      /\ t.level # 0 => \E o \in ToSet(Slots[t.delay]) : t.level \in DOMAIN Levels[o]
  BY <1>1, <1>2, <1>3 DEF TiesInv, WantedInv
<1>5. nodes[t.node][t.param] = Tied(delays, t)
  BY <1>1, <1>2, <1>3, WantedKinds
<1> DEFINE o == Slot(current, t.delay, t.age)
<1>6. current[t.delay] \in Nat /\ current[t.delay] # None
  BY <1>2, <1>4
<1>7. o \in ToSet(Slots[t.delay]) /\ o \in Objects
  BY <1>2, <1>6, SlotIsOneOf
<1>8. Tied(current, t) = IF t.level = 0 THEN o ELSE Levels[o][t.level]
  BY DEF Tied
<1> HIDE DEF o
<1>9. Slotted(current, o)
  BY <1>2, <1>6, <1>7 DEF Slotted
<1>10. t.level # 0 => Levels[o][t.level] \in ToSet(Levels[o])
  <2>1. t.level # 0 => t.level \in DOMAIN Levels[o]
    BY <1>2, <1>4, <1>7, SameLevels
  <2> QED
    BY <2>1 DEF ToSet
<1>11. Anchored(External(h, current), Tied(current, t))
  BY <1>7, <1>8, <1>9, <1>10, ExternalFacts
<1>12. Tied(current, t) \in Objects
  BY <1>7, <1>8, <1>10, LevelFacts
<1> QED
  BY <1>1, <1>2, <1>3, <1>5, <1>11, <1>12 DEF Places

(* The values after some of the ties have been followed.                     *)
Following(current, v, s) ==
    [u \in Places |-> IF u[1] \in DOMAIN nodes /\ wanted[u[1]][u[2]] \in s
                      THEN Tied(current, wanted[u[1]][u[2]]) ELSE v[u]]

LEMMA RecountIsSound ==
  ASSUME TiesInv, NEW h \in [Objects -> Nat], NEW current, NEW ties_ \in {delay_params, level_params},
         current \in [Delays -> Nat \cup {None}], \A d \in Delays : current[d] = None <=> delays[d] = None,
         NEW before, DOMAIN before = DOMAIN nodes,
         \A t \in ties_ : Listed(t.node) => before[t.node][t.param] = nodes[t.node][t.param],
         NEW m, Sound(m, External(h, current), Val(before))
  PROVE  Sound(Recount(current, ties_, before, m), External(h, current), Val(Follow(current, ties_, before)))
<1> DEFINE S == {t \in ties_ : Listed(t.node)}
           x == External(h, current)
           v == Val(before)
           V(s) == Following(current, v, s)
<1>1. ASSUME NEW t \in S
      PROVE  /\ <<t.node, t.param>> \in Places /\ t.node \in DOMAIN nodes /\ wanted[t.node][t.param] = t
             /\ Tied(current, t) \in Objects /\ Anchored(x, Tied(current, t))
             /\ v[<<t.node, t.param>>] = before[t.node][t.param]
             /\ before[t.node][t.param] \in Objects /\ Anchored(x, before[t.node][t.param])
  <2>1. t \in delay_params \cup level_params /\ Listed(t.node)
    OBVIOUS
  <2>2. /\ <<t.node, t.param>> \in Places /\ t.node \in DOMAIN nodes /\ wanted[t.node][t.param] = t
        /\ Tied(current, t) \in Objects /\ Anchored(x, Tied(current, t))
        /\ nodes[t.node][t.param] = Tied(delays, t)
    BY <2>1, TieFacts
  <2>3. delays \in [Delays -> Nat \cup {None}]
    BY DEF TiesInv, TypeInv
  <2>4. Tied(delays, t) \in Objects /\ Anchored(External(h, delays), Tied(delays, t))
    BY <2>1, <2>3, TieFacts
  <2>5. External(h, delays) = x
    BY DEF External, Slotted
  <2>6. v[<<t.node, t.param>>] = before[t.node][t.param]
    BY <2>2 DEF Val
  <2> QED
    BY <2>2, <2>4, <2>5, <2>6
<1>2. m \in Registries /\ v \in Valuations
  BY DEF Sound
<1>3. IsFiniteSet(S)
  <2> DEFINE g == [t \in S |-> <<t.node, t.param>>]
  <2>1. g \in [S -> Places] /\ \A t \in S : g[t] = <<t.node, t.param>>
    BY <1>1
  <2>2. \A t, r \in S : g[t] = g[r] => t = r
    BY <1>1, <2>1
  <2> HIDE DEF g, S
  <2>3. g \in Injection(S, Places)
    BY <2>1, <2>2 DEF Injection, IsInjective
  <2> QED
    BY <2>3, PlacesAreFinite, FS_Injection
<1>4. ASSUME NEW t \in S, NEW c \in Registries
      PROVE  Exchange(c, before[t.node][t.param], Tied(current, t)) \in Registries
  BY <1>1, StepTypes DEF Exchange, Values
<1> DEFINE After(f, s, t) == f[s] = Exchange(f[s \ {t}], before[t.node][t.param], Tied(current, t))
<1>5. PICK f : /\ f \in [SUBSET S -> Registries] /\ f[{}] = m
               /\ f[S] = Recount(current, ties_, before, m)
               /\ \A s \in SUBSET S : s # {} => \E t \in s : After(f, s, t)
  <2>1. Tracked(ties_) = S
    BY DEF Tracked
  <2>2. IsFiniteSet(Tracked(ties_)) /\ Exchangeable(Tracked(ties_), current, before)
    BY <1>3, <1>4, <2>1 DEF Exchangeable
  <2>3. PICK f : /\ Exchanges(f, Tracked(ties_), current, before, m)
                 /\ f[Tracked(ties_)] = Recount(current, ties_, before, m)
    BY <1>2, <2>2, ExchangesInTurn
  <2>4. Exchanges(f, S, current, before, m) /\ f[S] = Recount(current, ties_, before, m)
    BY <2>1, <2>3
  <2> HIDE DEF S
  <2>5. /\ f \in [SUBSET S -> Registries] /\ f[{}] = m
        /\ \A s \in SUBSET S : s # {} => \E t \in s : After(f, s, t)
    BY <2>4 DEF Exchanges
  <2> QED
    BY <2>4, <2>5
<1> HIDE DEF x, v
<1> DEFINE Good == {s \in SUBSET S : Sound(f[s], x, V(s))}
<1>6. {} \in Good
  <2>1. V({}) = v
    BY <1>2 DEF Following, Valuations
  <2> QED
    BY <1>5, <2>1 DEF x, v
<1>7. ASSUME NEW s \in SUBSET S, s # {} PROVE \E t \in s : s \ {t} \in Good => s \in Good
  <2>1. PICK t \in s : After(f, s, t)
    BY <1>5, <1>7
  <2> SUFFICES ASSUME s \ {t} \in Good PROVE Sound(f[s], x, V(s))
    OBVIOUS
  <2> DEFINE u == <<t.node, t.param>>
             w == V(s \ {t})
             new == Tied(current, t)
  <2>2. /\ u \in Places /\ t.node \in DOMAIN nodes /\ wanted[t.node][t.param] = t /\ v[u] = before[t.node][t.param]
        /\ new \in Objects /\ Anchored(x, new) /\ v[u] \in Objects /\ Anchored(x, v[u])
    BY <1>1
  <2>3. Sound(f[s \ {t}], x, w) /\ w \in Valuations
    BY DEF Sound
  <2>4. w[u] = v[u]
    BY <2>2 DEF Following
  <2>5. V(s) = Set(w, u, new)
    <3>1. ASSUME NEW q \in Places, q[1] \in DOMAIN nodes, wanted[q[1]][q[2]] = t PROVE q = u
      <4>1. q[2] \in 1..Params /\ q = <<q[1], q[2]>>
        BY DEF Places
      <4>2. t.node = q[1] /\ t.param = q[2]
        <5>1. t \in Ties
          BY DEF TiesInv, TypeInv
        <5> QED
          BY <3>1, <4>1, <5>1 DEF TiesInv, WantedInv
      <4> QED
        BY <4>1, <4>2
    <3>2. \A q \in Places : V(s)[q] = IF q = u THEN new ELSE w[q]
      BY <2>2, <3>1 DEF Following
    <3> QED
      BY <2>2, <3>2 DEF Set, Following
  <2> HIDE DEF u, w, new, V
  <2>6. CASE new = v[u]
    <3>1. V(s) = w
      BY <2>2, <2>3, <2>4, <2>5, <2>6, SetAndGiveUp DEF Values
    <3>2. f[s] = f[s \ {t}]
      BY <2>1, <2>2, <2>6 DEF Exchange, new
    <3> QED
      BY <2>3, <3>1, <3>2
  <2>7. CASE new # v[u]
    <3>1. f[s] = GiveUp(Retain(f[s \ {t}], new), w[u])
      BY <2>1, <2>2, <2>4, <2>7 DEF Exchange, new
    <3>2. Holding(f[s \ {t}], Total(x, w), new) > 0
      BY <2>2, <2>3, AnchoredIsHeld
    <3>3. Sound(GiveUp(Retain(f[s \ {t}], new), w[u]), x, Set(w, u, new))
      BY <2>2, <2>3, <2>4, <3>2, ReplaceIsSound
    <3> QED
      BY <2>5, <3>1, <3>3
  <2> QED
    BY <2>6, <2>7
<1>8. S \in Good
  <2> HIDE DEF Good, S
  <2> QED
    BY <1>3, <1>6, <1>7, OnSubsets
<1>9. V(S) = Val(Follow(current, ties_, before))
  <2>1. ASSUME NEW n \in DOMAIN nodes, NEW k \in 1..Params
        PROVE  /\ Listed(n) /\ n \in Nodes
               /\ TieOf(ties_, n, k) # {} => TieOf(ties_, n, k) = {wanted[n][k]} /\ wanted[n][k] \in ties_
               /\ TieOf(ties_, n, k) = {} => wanted[n][k] \notin S
    <3>1. Listed(n) /\ n \in Nodes
      BY DEF Listed, TiesInv, ListInv
    <3>2. TieOf(ties_, n, k) # {} => TieOf(ties_, n, k) = {wanted[n][k]}
      BY OneTie
    <3>3. wanted[n][k] \in S => wanted[n][k] \in TieOf(ties_, n, k)
      <4>1. wanted[n][k] \in S => wanted[n][k] \in Ties
        BY DEF TiesInv, TypeInv
      <4> QED
        BY <4>1 DEF TiesInv, WantedInv, TieOf
    <3> QED
      BY <3>1, <3>2, <3>3 DEF TieOf
  <2>2. ASSUME NEW u \in Places, u[1] \in DOMAIN nodes
        PROVE  V(S)[u] = Val(Follow(current, ties_, before))[u]
    <3> DEFINE n == u[1]
               k == u[2]
               w == wanted[n][k]
               of == CHOOSE t \in TieOf(ties_, n, k) : TRUE
    <3>1. k \in 1..Params
      BY DEF Places
    <3>2. Val(Follow(current, ties_, before))[u] =
             IF TieOf(ties_, n, k) # {} THEN Tied(current, of) ELSE before[n][k]
      BY <2>1, <2>2, <3>1 DEF Val, Follow
    <3>3. V(S)[u] = IF w \in S THEN Tied(current, w) ELSE before[n][k]
      BY <2>2 DEF Following, v, Val
    <3>4. TieOf(ties_, n, k) # {} => of = w /\ w \in S
      <4>1. TieOf(ties_, n, k) # {} => TieOf(ties_, n, k) = {w} /\ w \in ties_ /\ w.node = n
        BY <2>1, <2>2, <3>1 DEF TieOf
      <4> QED
        BY <2>1, <2>2, <3>1, <4>1
    <3>5. TieOf(ties_, n, k) = {} => w \notin S
      BY <2>1, <2>2, <3>1
    <3> HIDE DEF of, w, n, k
    <3> QED
      BY <3>2, <3>3, <3>4, <3>5
  <2>3. ASSUME NEW u \in Places, u[1] \notin DOMAIN nodes
        PROVE  V(S)[u] = Val(Follow(current, ties_, before))[u]
    BY <2>3 DEF Following, v, Val, Follow
  <2>4. \A u \in Places : V(S)[u] = Val(Follow(current, ties_, before))[u]
    BY <2>2, <2>3
  <2> QED
    BY <2>4 DEF Following, Val
<1> QED
  BY <1>5, <1>8, <1>9 DEF x
-----------------------------------------------------------------------------
(* What the application names is no slot and no level, so that what is one   *)
(* got to a parameter through a delay.                                       *)
NamedInv == \A n \in Nodes, k \in 1..Params : wanted[n][k] \notin AllSlots \cup AllLevels

CountInv == /\ held \in [Objects -> Nat] /\ NamedInv
            /\ Sound(objects, External(held, delays), Val(nodes))

LEMMA OwnedAreObjects == AllSlots \cup AllLevels \subseteq Objects
<1>1. AllSlots \subseteq Objects
  BY ConstantFacts DEF AllSlots, ToSet
<1>2. AllLevels \subseteq Objects
  BY LevelFacts DEF AllLevels
<1> QED
  BY <1>1, <1>2

LEMMA ValueFacts ==
  ASSUME TiesInv, CountInv, NEW n \in DOMAIN nodes, NEW k \in 1..Params
  PROVE  /\ <<n, k>> \in Places /\ Val(nodes)[<<n, k>>] = nodes[n][k] /\ nodes[n][k] \in Values
         /\ nodes[n][k] \in AllSlots \cup AllLevels => Anchored(External(held, delays), nodes[n][k])
         /\ nodes[n][k] \in Objects /\ Holds(nodes[n][k]) => Anchored(External(held, delays), nodes[n][k])
<1>1. n \in Nodes /\ <<n, k>> \in Places /\ Val(nodes)[<<n, k>>] = nodes[n][k]
  BY DEF TiesInv, ListInv, Places, Val
<1>2. nodes[n][k] \in Values
  <2>1. Val(nodes) \in [Places -> Values]
    BY DEF CountInv, Sound, Valuations
  <2> QED
    BY <1>1, <2>1
<1>3. ASSUME nodes[n][k] \in AllSlots \cup AllLevels PROVE Anchored(External(held, delays), nodes[n][k])
  <2> DEFINE w == wanted[n][k]
  <2>1. w \in Ties
    BY <1>1, <1>3, WantedKinds DEF CountInv, NamedInv
  <2>2. w \in delay_params \cup level_params /\ w.node = n /\ Listed(w.node)
    BY <2>1 DEF TiesInv, WantedInv, ListInv, Registry, Listed
  <2>3. nodes[n][k] = Tied(delays, w)
    BY <2>1, WantedKinds
  <2>4. held \in [Objects -> Nat] /\ delays \in [Delays -> Nat \cup {None}]
    BY DEF CountInv, TiesInv, TypeInv
  <2> HIDE DEF w
  <2> QED
    BY <2>2, <2>3, <2>4, TieFacts
<1>4. held \in [Objects -> Nat]
  BY DEF CountInv
<1> QED
  BY <1>1, <1>2, <1>3, <1>4, ExternalFacts DEF Holds

LEMMA InitCounts == Init => CountInv
<1> SUFFICES ASSUME Init PROVE CountInv
  OBVIOUS
<1>1. /\ objects = [o \in Objects |-> [count |-> 1, live |-> TRUE]]
      /\ held = [o \in Objects |-> IF o \in AllLevels \cup AllSlots THEN 0 ELSE 1]
      /\ nodes = [n \in Nodes |-> Nothing] /\ wanted = [n \in Nodes |-> Nothing]
      /\ delays = [d \in Delays |-> 0]
  BY DEF Init
<1> DEFINE x == External(held, delays)
           v == Val(nodes)
<1>2. held \in [Objects -> Nat] /\ NamedInv
  BY <1>1, OwnedAreObjects, ConstantFacts DEF NamedInv, Nothing
<1>3. x \in [Objects -> Nat]
  BY <1>2, ExternalFacts
<1>4. v \in Valuations /\ \A u \in Places : v[u] = None
  BY <1>1 DEF Val, Nothing, Valuations, Values, Places
<1>5. objects \in Registries /\ \A o \in Objects : objects[o].live /\ objects[o].count = 1
  BY <1>1 DEF Registries
<1>6. ASSUME NEW o \in Objects PROVE Holding(objects, Total(x, v), o) = 1
  <2>1. Count(v, o) = 0
    <3>1. {u \in Places : v[u] = o} = {}
      BY <1>4, ConstantFacts
    <3> QED
      BY <3>1, FS_EmptySet DEF Count
  <2>2. Slotted(delays, o) <=> o \in AllSlots
    BY <1>1, ConstantFacts DEF Slotted, AllSlots
  <2>3. InPyramid(objects, o) <=> o \in AllLevels
    BY <1>5 DEF InPyramid, AllLevels
  <2>4. ~(o \in AllSlots /\ o \in AllLevels)
    BY OwnersAssumption DEF AllSlots, AllLevels
  <2>5. x[o] = (IF o \in AllLevels \cup AllSlots THEN 0 ELSE 1) + (IF o \in AllSlots THEN 1 ELSE 0)
    BY <1>1, <2>2 DEF External
  <2>6. Total(x, v)[o] = x[o]
    BY <1>3, <1>4, <2>1, <2>5, TotalFacts
  <2> HIDE DEF x, v
  <2> QED
    BY <2>3, <2>4, <2>5, <2>6 DEF Holding
<1>7. Counted(objects, Total(x, v))
  <2>1. Total(x, v) \in [Objects -> Nat]
    BY <1>3, <1>4, TotalFacts
  <2> HIDE DEF x, v
  <2> QED
    BY <1>5, <1>6, <2>1 DEF Counted
<1> QED
  BY <1>2, <1>3, <1>4, <1>5, <1>7 DEF CountInv, Sound
-----------------------------------------------------------------------------
(* The application's own references.                                         *)
LEMMA RetainKeepsCounts ==
  ASSUME CountInv, NEW o \in Objects, Holding(objects, Total(External(held, delays), Val(nodes)), o) > 0,
         objects' = Retain(objects, o), held' = [held EXCEPT ![o] = @ + 1],
         UNCHANGED <<nodes, delays, wanted>>
  PROVE  CountInv'
<1> DEFINE x == External(held, delays)
           v == Val(nodes)
<1>1. held \in [Objects -> Nat] /\ Sound(objects, x, v)
  BY DEF CountInv
<1>2. held' \in [Objects -> Nat] /\ External(held', delays) = More(x, o)
  <2>1. External(More(held, o), delays) = More(x, o) /\ More(held, o) \in [Objects -> Nat]
    BY <1>1, ExternalChanges
  <2>2. held' = More(held, o)
    BY DEF More
  <2> HIDE DEF x
  <2> QED
    BY <2>1, <2>2
<1>3. Sound(Retain(objects, o), More(x, o), v)
  <2> HIDE DEF x, v
  <2>1. Holding(objects, Total(x, v), o) > 0
    BY DEF x, v
  <2> QED
    BY <1>1, <2>1, RetainIsSound
<1>4. Sound(objects', External(held', delays'), Val(nodes'))
  BY <1>2, <1>3
<1>5. NamedInv'
  BY DEF CountInv, NamedInv
<1> QED
  BY <1>2, <1>4, <1>5 DEF CountInv, Sound, Val, External, Slotted

LEMMA ReleaseKeepsCounts ==
  ASSUME CountInv, NEW o \in Objects, ReleaseObject(o)
  PROVE  CountInv'
<1> DEFINE x == External(held, delays)
           v == Val(nodes)
<1>1. held \in [Objects -> Nat] /\ Sound(objects, x, v) /\ held[o] > 0
  BY DEF CountInv, ReleaseObject, Holds
<1>2. /\ objects' = Release(objects, o) \/ objects' = vxReleaseReference(objects, o)
      /\ held' = [held EXCEPT ![o] = @ - 1] /\ UNCHANGED <<nodes, delays, wanted>>
  BY DEF ReleaseObject, ages, ties
<1>3. held' \in [Objects -> Nat] /\ External(held', delays) = Less(x, o)
  <2>1. /\ External(Less(held, o), delays) = Less(x, o)
        /\ Less(held, o) \in [Objects -> Nat]
    BY <1>1, ExternalChanges
  <2>2. held' = Less(held, o)
    BY <1>2 DEF Less
  <2> HIDE DEF x
  <2> QED
    BY <2>1, <2>2
<1>4. x[o] > 0
  BY <1>1 DEF External
<1>5. Sound(objects', Less(x, o), v)
  <2> HIDE DEF x, v
  <2> QED
    BY <1>1, <1>2, <1>4, ReleaseIsSound
<1>6. Sound(objects', External(held', delays'), Val(nodes'))
  BY <1>2, <1>3, <1>5
<1>7. NamedInv'
  BY <1>2 DEF CountInv, NamedInv
<1> QED
  BY <1>3, <1>6, <1>7 DEF CountInv, Sound, Val, External, Slotted

(* A parameter given a value, as one was named or as a delay has it.         *)
LEMMA AssignKeepsCounts ==
  ASSUME TiesInv, CountInv, NEW n \in DOMAIN nodes, NEW k \in 1..Params, NEW o \in Objects,
         NEW m, NEW h \in [Objects -> Nat], Sound(m, External(h, delays), Val(nodes)),
         Holding(m, Total(External(h, delays), Val(nodes)), o) > 0,
         nodes[n][k] # None => Anchored(External(h, delays), nodes[n][k]),
         objects' = GiveUp(Retain(m, o), nodes[n][k]), Assign(n, k, o), held' = h, delays' = delays,
         NamedInv'
  PROVE  CountInv'
<1> DEFINE x == External(h, delays)
           v == Val(nodes)
           u == <<n, k>>
<1>1. u \in Places /\ v[u] = nodes[n][k]
  BY ValueFacts
<1>2. Sound(GiveUp(Retain(m, o), v[u]), x, Set(v, u, o))
  <2>1. v[u] # None => Anchored(x, v[u])
    BY <1>1
  <2>2. Sound(m, x, v) /\ Holding(m, Total(x, v), o) > 0
    OBVIOUS
  <2> HIDE DEF x, v, u
  <2> QED
    BY <1>1, <2>1, <2>2, ReplaceIsSound
<1>3. Val(nodes') = Set(v, u, o)
  <2>1. \A q \in Places : q[1] \in Nodes /\ q[2] \in 1..Params /\ q = <<q[1], q[2]>>
    BY DEF Places
  <2>2. \A j \in DOMAIN nodes : DOMAIN nodes[j] = 1..Params
    BY DEF TiesInv, TypeInv
  <2>3. DOMAIN nodes' = DOMAIN nodes /\ \A j \in DOMAIN nodes, i \in 1..Params :
            nodes'[j][i] = IF j = n /\ i = k THEN o ELSE nodes[j][i]
    BY <2>2 DEF Assign
  <2>4. \A q \in Places : Val(nodes')[q] = IF q = u THEN o ELSE v[q]
    <3>1. ASSUME NEW q \in Places PROVE Val(nodes')[q] = IF q = u THEN o ELSE v[q]
      <4>1. q[2] \in 1..Params /\ (q = u <=> q[1] = n /\ q[2] = k)
        BY <2>1
      <4>2. Val(nodes')[q] = IF q[1] \in DOMAIN nodes THEN nodes'[q[1]][q[2]] ELSE None
        BY <2>3 DEF Val
      <4>3. v[q] = IF q[1] \in DOMAIN nodes THEN nodes[q[1]][q[2]] ELSE None
        BY DEF Val
      <4> HIDE DEF u, v
      <4> QED
        BY <2>3, <4>1, <4>2, <4>3
    <3> QED
      BY <3>1
  <2>5. v \in [Places -> Values]
    BY DEF CountInv, Sound, Valuations
  <2>6. \A q \in Places : Set(v, u, o)[q] = IF q = u THEN o ELSE v[q]
    BY <2>5 DEF Set
  <2>7. Val(nodes') = [q \in Places |-> Val(nodes')[q]] /\ Set(v, u, o) = [q \in Places |-> Set(v, u, o)[q]]
    BY <2>5 DEF Val, Set
  <2> HIDE DEF v, u
  <2> QED
    BY <2>4, <2>6, <2>7
<1>4. Sound(objects', External(held', delays'), Val(nodes'))
  BY <1>1, <1>2, <1>3
<1> QED
  BY <1>4 DEF CountInv, Sound, Val, External, Slotted

LEMMA NamedStays ==
  ASSUME TiesInv, NamedInv, NEW n \in Nodes, NEW k \in 1..Params,
         NEW w, w \notin AllSlots \cup AllLevels, wanted' = [wanted EXCEPT ![n][k] = w]
  PROVE  NamedInv'
<1>1. wanted \in [Nodes -> [1..Params -> Values \cup Ties]]
  BY DEF TiesInv, TypeInv
<1>2. \A j \in Nodes, i \in 1..Params : wanted'[j][i] = IF j = n /\ i = k THEN w ELSE wanted[j][i]
  BY <1>1
<1> QED
  BY <1>2 DEF NamedInv

LEMMA SetKeepsCounts ==
  ASSUME TiesInv, CountInv, ~Anything, NEW n \in Nodes, NEW k \in 1..Params, NEW o \in Objects,
         vxSetParameterByIndex(n, k, o)
  PROVE  CountInv'
<1> DEFINE x == External(held, delays)
<1>1. /\ n \in DOMAIN nodes /\ held[o] > 0 /\ o \notin AllSlots \cup AllLevels
      /\ nodes[n][k] \in Objects => Holds(nodes[n][k])
      /\ objects' = GiveUp(Retain(objects, o), nodes[n][k]) /\ Assign(n, k, o)
      /\ wanted' = [wanted EXCEPT ![n][k] = o] /\ held' = held /\ delays' = delays
  BY DEF vxSetParameterByIndex, Alive, Holds, Named, Careful, ParamsHeld, ages
<1>2. held \in [Objects -> Nat] /\ Sound(objects, x, Val(nodes)) /\ NamedInv
  BY DEF CountInv
<1>3. Anchored(x, o)
  BY <1>1, <1>2, ExternalFacts
<1>4. nodes[n][k] # None => Anchored(x, nodes[n][k])
  BY <1>1, ValueFacts DEF Values
<1> HIDE DEF x
<1>5. Holding(objects, Total(x, Val(nodes)), o) > 0
  BY <1>2, <1>3, AnchoredIsHeld
<1>6. NamedInv'
  BY <1>1, <1>2, NamedStays
<1> QED
  BY <1>1, <1>2, <1>4, <1>5, <1>6, AssignKeepsCounts DEF x

LEMMA SetFromDelayKeepsCounts ==
  ASSUME TiesInv, CountInv, ~Anything, NEW n \in Nodes, NEW k \in 1..Params, NEW d \in Delays,
         NEW age \in Nat, NEW level \in Nat, SetFromDelay(n, k, d, age, level)
  PROVE  CountInv'
<1> DEFINE tie == [node |-> n, param |-> k, delay |-> d, age |-> age, level |-> level]
           o == Tied(delays, tie)
           s == Slot(delays, d, age)
           got == IF level = 0 THEN objects ELSE Retain(objects, o)
           h == IF level = 0 THEN held ELSE [held EXCEPT ![o] = @ + 1]
           v == Val(nodes)
<1>1. /\ n \in DOMAIN nodes /\ delays[d] # None
      /\ level > 0 => level \in DOMAIN Levels[s]
      /\ nodes[n][k] \in Objects /\ nodes[n][k] \notin AllSlots \cup AllLevels => Holds(nodes[n][k])
      /\ objects' = GiveUp(Retain(got, o), nodes[n][k]) /\ Assign(n, k, o)
      /\ wanted' = [wanted EXCEPT ![n][k] = tie] /\ held' = h /\ delays' = delays
  BY DEF SetFromDelay, Alive, Careful, ParamsHeld, ages
<1>2. held \in [Objects -> Nat] /\ Sound(objects, External(held, delays), v) /\ NamedInv
  BY DEF CountInv
<1>3. tie \in Ties /\ tie \notin AllSlots \cup AllLevels
  BY OwnedAreObjects, ConstantFacts DEF Ties
<1>4. o = IF level = 0 THEN s ELSE Levels[s][level]
  BY DEF Tied
<1>5. s \in ToSet(Slots[d]) /\ s \in Objects
  <2>1. delays[d] \in Nat
    BY <1>1 DEF TiesInv, TypeInv
  <2> QED
    BY <2>1, SlotIsOneOf
<1> HIDE DEF tie, o, s
<1>6. Slotted(delays, s)
  BY <1>1, <1>5 DEF Slotted
<1>7. level # 0 => o \in ToSet(Levels[s])
  BY <1>1, <1>4 DEF ToSet
<1>8. o \in Objects /\ \A g \in [Objects -> Nat] : Anchored(External(g, delays), o)
  BY <1>4, <1>5, <1>6, <1>7, ExternalFacts, LevelFacts
<1>9. h \in [Objects -> Nat] /\ Sound(got, External(h, delays), v)
  <2>1. CASE level = 0
    BY <1>2, <2>1
  <2>2. CASE level # 0
    <3> DEFINE x == External(held, delays)
    <3>1. Holding(objects, Total(x, v), o) > 0
      BY <1>2, <1>8, AnchoredIsHeld
    <3>2. Sound(Retain(objects, o), More(x, o), v)
      <4> HIDE DEF x, v
      <4> QED
        BY <1>2, <1>8, <3>1, RetainIsSound DEF x
    <3>3. h = More(held, o) /\ got = Retain(objects, o)
      BY <2>2 DEF More
    <3>4. /\ External(More(held, o), delays) = More(x, o)
          /\ More(held, o) \in [Objects -> Nat]
      BY <1>2, <1>8, ExternalChanges
    <3> HIDE DEF x, h, got, v
    <3> QED
      BY <3>2, <3>3, <3>4
  <2> QED
    BY <2>1, <2>2
<1>10. nodes[n][k] # None => Anchored(External(h, delays), nodes[n][k])
  <2>1. nodes[n][k] # None => Anchored(External(held, delays), nodes[n][k])
    BY <1>1, ValueFacts DEF Values
  <2>2. \A p \in Objects : External(held, delays)[p] > 0 => External(h, delays)[p] > 0
    BY <1>2, <1>8 DEF External
  <2> HIDE DEF h
  <2> QED
    BY <2>1, <2>2 DEF Anchored
<1> HIDE DEF h, got
<1>11. Holding(got, Total(External(h, delays), v), o) > 0
  BY <1>8, <1>9, AnchoredIsHeld
<1>12. NamedInv'
  BY <1>1, <1>2, <1>3, NamedStays
<1> QED
  BY <1>1, <1>8, <1>9, <1>10, <1>11, <1>12, AssignKeepsCounts

(* The two passes of resolve_delay_params_for_graph.                         *)
LEMMA ResolveKeepsCounts ==
  ASSUME TiesInv, CountInv, NEW current, resolve_delay_params_for_graph(current), delays' = current,
         current \in [Delays -> Nat \cup {None}],
         \A d \in Delays : current[d] = None <=> delays[d] = None,
         UNCHANGED <<held, wanted>>
  PROVE  CountInv'
<1> DEFINE x == External(held, current)
           slots == Follow(current, delay_params, nodes)
           first == Recount(current, delay_params, nodes, objects)
           second == Recount(current, level_params, slots, first)
           both == Follow(current, level_params, slots)
<1>1. held \in [Objects -> Nat] /\ NamedInv /\ Sound(objects, External(held, delays), Val(nodes))
  BY DEF CountInv
<1>2. External(held, delays) = x
  BY DEF External, Slotted
<1>3. Sound(objects, x, Val(nodes))
  BY <1>1, <1>2
<1>4. delay_params \in {delay_params, level_params} /\ level_params \in {delay_params, level_params}
  OBVIOUS
<1>5. Sound(first, x, Val(slots))
  <2>1. \A t \in delay_params : Listed(t.node) => nodes[t.node][t.param] = nodes[t.node][t.param]
    OBVIOUS
  <2> QED
    BY <1>1, <1>3, <1>4, <2>1, RecountIsSound
<1>6. DOMAIN slots = DOMAIN nodes
  BY DEF Follow
<1>7. ASSUME NEW t \in level_params, Listed(t.node) PROVE slots[t.node][t.param] = nodes[t.node][t.param]
  <2>1. /\ t.node \in DOMAIN nodes /\ t.param \in 1..Params /\ wanted[t.node][t.param] = t
        /\ t \in Ties /\ t.level # 0
    BY <1>7 DEF TiesInv, ListInv, TypeInv, RegistryInv, Listed, Ties
  <2>2. TieOf(delay_params, t.node, t.param) = {}
    BY <2>1, OneTie
  <2> QED
    BY <2>1, <2>2 DEF Follow
<1> HIDE DEF slots, first
<1>8. Sound(second, x, Val(both))
  BY <1>1, <1>4, <1>5, <1>6, <1>7, RecountIsSound
<1>9. objects' = second /\ nodes' = both
  BY DEF resolve_delay_params_for_graph, slots, first
<1>10. NamedInv'
  BY <1>1 DEF NamedInv
<1> HIDE DEF second, both
<1>11. Sound(objects', External(held', delays'), Val(nodes'))
  BY <1>8, <1>9
<1> QED
  BY <1>1, <1>10, <1>11 DEF CountInv, Sound, Val, External, Slotted

LEMMA RestKeepsCounts ==
  ASSUME CountInv, UNCHANGED <<objects, held, nodes, delays, wanted>>
  PROVE  CountInv'
BY DEF CountInv, NamedInv, Sound, Val, External, Slotted

LEMMA ReleaseDelayKeepsCounts ==
  ASSUME TiesInv, CountInv, NEW d \in Delays, vxReleaseDelay(d)
  PROVE  CountInv'
<1>1. /\ objects' = FoldLeft(vxReleaseReference, objects, Slots[d]) /\ delays[d] # None
      /\ delays' = [delays EXCEPT ![d] = None] /\ UNCHANGED <<held, nodes, wanted>>
  BY DEF vxReleaseDelay, ties
<1>2. held \in [Objects -> Nat] /\ NamedInv /\ Sound(objects, External(held, delays), Val(nodes))
  BY DEF CountInv
<1>3. DOMAIN delays = Delays
  BY DEF TiesInv, TypeInv
<1>4. Sound(objects', External(held, delays'), Val(nodes))
  BY <1>1, <1>2, <1>3, SlotsReleased
<1>5. NamedInv'
  BY <1>1, <1>2 DEF NamedInv
<1>6. Sound(objects', External(held', delays'), Val(nodes'))
  BY <1>1, <1>4
<1> QED
  BY <1>1, <1>2, <1>5, <1>6 DEF CountInv, Sound, Val, External, Slotted

LEMMA RemoveNodeKeepsCounts ==
  ASSUME TiesInv, CountInv, ~Anything, NEW n \in Nodes, vxRemoveNode(n)
  PROVE  CountInv'
<1> DEFINE x == External(held, delays)
           v == Val(nodes)
           sq == nodes[n]
<1>1. /\ n \in DOMAIN nodes /\ objects' = FoldLeft(RemovalGivesUp, objects, sq)
      /\ \A k \in 1..Params : sq[k] \in Objects \ (AllSlots \cup AllLevels) => Holds(sq[k])
      /\ nodes' = [j \in (DOMAIN nodes) \ {n} |-> nodes[j]] /\ wanted' = [wanted EXCEPT ![n] = Nothing]
      /\ UNCHANGED <<held, delays>>
  BY DEF vxRemoveNode, Alive, Careful, ParamsHeld, ages
<1>2. held \in [Objects -> Nat] /\ NamedInv /\ Sound(objects, x, v)
  BY DEF CountInv
<1>3. /\ DOMAIN sq = 1..Params
      /\ \A k \in 1..Params : sq[k] = v[<<n, k>>] /\ (sq[k] # None => Anchored(x, sq[k]))
  BY <1>1, ValueFacts DEF Values, TiesInv, TypeInv
<1>4. Val(nodes') = Without(v, {n})
  BY <1>1 DEF Val, Without
<1> HIDE DEF x, v, sq
<1>5. Sound(objects', x, Without(v, {n}))
  BY <1>1, <1>2, <1>3, RemovalIsSound
<1>6. Sound(objects', External(held', delays'), Val(nodes'))
  BY <1>1, <1>4, <1>5 DEF x
<1>7. NamedInv'
  <2>1. \A j \in Nodes, k \in 1..Params : wanted'[j][k] = IF j = n THEN None ELSE wanted[j][k]
    BY <1>1 DEF Nothing, TiesInv, TypeInv
  <2> QED
    BY <1>2, <2>1, OwnedAreObjects, ConstantFacts DEF NamedInv
<1> QED
  BY <1>1, <1>2, <1>6, <1>7 DEF CountInv, Sound, Val, External, Slotted

LEMMA ReleaseGraphKeepsCounts ==
  ASSUME TiesInv, CountInv, ~Anything, vxReleaseGraph
  PROVE  CountInv'
<1> DEFINE x == External(held, delays)
           v == Val(nodes)
<1>1. /\ list # None /\ objects' = FoldLeft(NodeGoes, objects, list)
      /\ \A n \in DOMAIN nodes, k \in 1..Params :
            nodes[n][k] \in Objects \ (Freeing \cup AllSlots \cup AllLevels) => Holds(nodes[n][k])
      /\ nodes' = <<>> /\ wanted' = [n \in Nodes |-> Nothing] /\ UNCHANGED <<held, delays>>
  BY DEF vxReleaseGraph, Careful, ParamsHeld
<1>2. held \in [Objects -> Nat] /\ NamedInv /\ Sound(objects, x, v)
  BY DEF CountInv
<1>3. list \in Seq(Nodes) /\ IsInjective(list) /\ ToSet(list) = DOMAIN nodes
  BY <1>1 DEF TiesInv, ListInv
<1>4. \A n \in ToSet(list) :
        /\ DOMAIN nodes[n] = 1..Params
        /\ \A k \in 1..Params :
              /\ nodes[n][k] = v[<<n, k>>]
              /\ nodes[n][k] # None => Anchored(x, nodes[n][k]) \/ nodes[n][k] \in Freeing
  BY <1>1, <1>3, ValueFacts DEF Values, TiesInv, TypeInv
<1>5. Val(nodes') = Without(v, ToSet(list))
  <2>1. DOMAIN nodes' = {}
    BY <1>1
  <2> QED
    BY <1>3, <2>1 DEF Val, Without
<1> HIDE DEF x, v
<1>6. Sound(objects', x, Without(v, ToSet(list)))
  BY <1>1, <1>2, <1>3, <1>4, GraphGoesSoundly
<1>7. Sound(objects', External(held', delays'), Val(nodes'))
  BY <1>1, <1>5, <1>6 DEF x
<1>8. NamedInv'
  BY <1>1, OwnedAreObjects, ConstantFacts DEF NamedInv, Nothing
<1> QED
  BY <1>1, <1>2, <1>7, <1>8 DEF CountInv, Sound, Val, External, Slotted

LEMMA CountsStep ==
  ASSUME TiesInv, CountInv, ~Anything, [Next]_vars
  PROVE  CountInv'
<1>1. CASE UNCHANGED vars
  BY <1>1, RestKeepsCounts DEF vars, refs, ages, ties
<1>2. CASE Counting
  <2>1. PICK o \in Objects : \/ vxRetainReference(o) \/ ReleaseObject(o)
                             \/ \E l \in ToSet(Levels[o]) : vxGetPyramidLevel(o, l)
    BY <1>2 DEF Counting
  <2> DEFINE x == External(held, delays)
             v == Val(nodes)
  <2>2. held \in [Objects -> Nat] /\ Sound(objects, x, v)
    BY DEF CountInv
  <2>3. vxRetainReference(o) \/ (\E l \in ToSet(Levels[o]) : vxGetPyramidLevel(o, l)) => held[o] > 0
    BY DEF vxRetainReference, vxGetPyramidLevel, Holds
  <2>4. held[o] > 0 => Anchored(x, o) /\ \A l \in ToSet(Levels[o]) : Anchored(x, l)
    <3>1. held[o] > 0 => x[o] > 0
      BY <2>2 DEF External
    <3> QED
      BY <3>1 DEF Anchored
  <2>5. held[o] > 0 => \A l \in ToSet(Levels[o]) \cup {o} : Holding(objects, Total(x, v), l) > 0
    <3> HIDE DEF x, v
    <3> QED
      BY <2>2, <2>4, AnchoredIsHeld
  <2>6. CASE vxRetainReference(o)
    BY <2>3, <2>5, <2>6, RetainKeepsCounts DEF vxRetainReference, ages, ties
  <2>7. CASE ReleaseObject(o)
    BY <2>7, ReleaseKeepsCounts
  <2>8. ASSUME NEW l \in ToSet(Levels[o]), vxGetPyramidLevel(o, l) PROVE CountInv'
    <3>1. l \in Objects
      BY LevelFacts
    <3> QED
      BY <2>3, <2>5, <2>8, <3>1, RetainKeepsCounts DEF vxGetPyramidLevel, ages, ties
  <2> QED
    BY <2>1, <2>6, <2>7, <2>8
<1>3. CASE Setting
  <2>1. PICK n \in Nodes, k \in 1..Params :
           \/ \E o \in Objects : vxSetParameterByIndex(n, k, o) \/ vxSetParameterByReference(n, k, o)
           \/ \E d \in Delays : \E age \in 0..(Len(Slots[d]) - 1), level \in 0..1 :
                  SetFromDelay(n, k, d, age, level)
    BY <1>3 DEF Setting
  <2>2. ASSUME NEW o \in Objects, vxSetParameterByIndex(n, k, o) PROVE CountInv'
    BY <2>2, SetKeepsCounts
  <2>3. ASSUME NEW o \in Objects, vxSetParameterByReference(n, k, o) PROVE CountInv'
    <3>1. /\ n \in DOMAIN nodes /\ nodes[n][k] = o /\ o \notin AllSlots \cup AllLevels
          /\ nodes' = [nodes EXCEPT ![n][k] = o] /\ wanted' = [wanted EXCEPT ![n][k] = o]
          /\ UNCHANGED <<objects, held, delays>>
      BY <2>3 DEF vxSetParameterByReference, Alive, Careful, Named, Assign, refs, ages
    <3>2. NamedInv'
      BY <3>1, NamedStays DEF CountInv
    <3>3. Val(nodes') = Val(nodes)
      <4>1. /\ DOMAIN nodes' = DOMAIN nodes
            /\ \A j \in DOMAIN nodes, i \in 1..Params : nodes'[j][i] = nodes[j][i]
        BY <3>1 DEF TiesInv, TypeInv
      <4>2. \A u \in Places : u[2] \in 1..Params
        BY DEF Places
      <4> QED
        BY <4>1, <4>2 DEF Val
    <3>4. Sound(objects', External(held', delays'), Val(nodes'))
      BY <3>1, <3>3 DEF CountInv
    <3> QED
      BY <3>1, <3>2, <3>4 DEF CountInv, Sound, Val, External, Slotted
  <2>4. ASSUME NEW d \in Delays, NEW age \in 0..(Len(Slots[d]) - 1), NEW level \in 0..1,
               SetFromDelay(n, k, d, age, level)
        PROVE  CountInv'
    <3>1. age \in Nat /\ level \in Nat
      OBVIOUS
    <3> QED
      BY <2>4, <3>1, SetFromDelayKeepsCounts
  <2> QED
    BY <2>1, <2>2, <2>3, <2>4
<1>4. CASE Delaying
  <2>1. PICK d \in Delays : vxAgeDelay(d) \/ vxRegisterAutoAging(d) \/ vxReleaseDelay(d)
    BY <1>4 DEF Delaying
  <2>2. CASE vxAgeDelay(d)
    <3>1. {d} \in SUBSET {e \in Delays : delays[e] # None}
      BY <2>2 DEF vxAgeDelay
    <3> QED
      BY <2>2, <3>1, AgedKeepsDelays, ResolveKeepsCounts DEF vxAgeDelay, ties
  <2>3. CASE vxRegisterAutoAging(d)
    BY <2>3, RestKeepsCounts DEF vxRegisterAutoAging, refs, ties
  <2>4. CASE vxReleaseDelay(d)
    BY <2>4, ReleaseDelayKeepsCounts
  <2> QED
    BY <2>1, <2>2, <2>3, <2>4
<1>5. CASE Graphing
  <2>1. CASE VerifySucceeds \/ vxRemoveKernel \/
             \E ending \in Endings, k \in 1..Cardinality(Nodes) : VerifyFails(k, ending)
    <3>1. UNCHANGED <<objects, held, nodes, delays, wanted>>
      BY <2>1 DEF VerifySucceeds, vxRemoveKernel, VerifyFails, refs, ages, ties
    <3> QED
      BY <3>1, RestKeepsCounts
  <2>2. ASSUME NEW fails \in BOOLEAN, vxProcessGraph(fails) PROVE CountInv'
    <3>1. CASE fails
      <4>1. delays \in [Delays -> Nat \cup {None}]
        BY DEF TiesInv, TypeInv
      <4> QED
        BY <2>2, <3>1, <4>1, ResolveKeepsCounts DEF vxProcessGraph, ties
    <3>2. CASE ~fails
      <4>1. aged \in SUBSET {e \in Delays : delays[e] # None}
        BY DEF TiesInv, TypeInv
      <4> QED
        BY <2>2, <3>2, <4>1, AgedKeepsDelays, ResolveKeepsCounts DEF vxProcessGraph, ties
    <3> QED
      BY <3>1, <3>2
  <2> QED
    BY <1>5, <2>1, <2>2, ReleaseGraphKeepsCounts, RemoveNodeKeepsCounts DEF Graphing
<1> QED
  BY <1>1, <1>2, <1>3, <1>4, <1>5 DEF Next

LEMMA CountsFollow == TiesInv /\ CountInv => CountsAreHolders
<1> SUFFICES ASSUME TiesInv, CountInv, NEW o \in Objects
             PROVE  /\ objects[o].live <=> Holders(o) > 0
                    /\ objects[o].live => objects[o].count = Holders(o)
  BY DEF CountsAreHolders
<1> DEFINE y == Total(External(held, delays), Val(nodes))
<1>1. Holders(o) = Holding(objects, y, o)
  BY HoldersAreCounted DEF CountInv, Sound, TiesInv, ListInv
<1>2. Counted(objects, y)
  BY DEF CountInv, Sound
<1> HIDE DEF y
<1> QED
  BY <1>1, <1>2, CountedIsNumber DEF Counted

(* Under a careful application an object lives exactly as long as something  *)
(* holds it, and its count is the number of those that do.                   *)
THEOREM CountsMatchHolders ==
  ASSUME ~Anything
  PROVE  Spec => []CountsAreHolders
<1>1. Init => TiesInv /\ CountInv
  BY InitTies, InitCounts
<1>2. TiesInv /\ CountInv /\ [Next]_vars => (TiesInv /\ CountInv)'
  BY TiesStep, CountsStep
<1>3. TiesInv /\ CountInv => CountsAreHolders
  BY CountsFollow
<1> QED
  BY <1>1, <1>2, <1>3, PTL DEF Spec
-----------------------------------------------------------------------------
(* User kernels: what a node needs for its next deinit to free its buffer is *)
(* known of every node whose init was called.                                *)
Ready ==
    /\ up = initialized /\ up \subseteq DOMAIN nodes /\ up \subseteq UserNodes
    /\ buffers = [n \in Nodes |-> IF n \in up \cap AutoLocal THEN 1 ELSE 0]
    /\ up \cap AutoLocal \subseteq auto \cap local
    /\ up \cap auto \subseteq AutoLocal

HookInv ==
    /\ Ready
    /\ ~kernel => up = {}
    /\ verified => list # None /\ (kernel => (DOMAIN nodes) \cap UserNodes \subseteq up)

(* A node that has a buffer to free is one that is initialised with one.     *)
LEMMA FreedBuffers ==
  ASSUME Ready, NEW S
  PROVE  Freed(TornDown(S)) = S \cap up \cap AutoLocal
BY DEF Ready, Freed, TornDown

LEMMA HookKeepsReady ==
  ASSUME TiesInv, Ready, NEW tried, NEW validated, NEW ready, Hook(tried, validated, ready),
         ready \subseteq tried, ready \subseteq validated,
         ready \subseteq DOMAIN nodes, ready \subseteq UserNodes,
         validated \cap AutoLocal = ready \cap AutoLocal, UNCHANGED nodes
  PROVE  Ready' /\ up' = (up \ tried) \cup ready
<1> DEFINE given == validated \cap AutoLocal
           freed == tried \cap up \cap AutoLocal
<1>1. /\ up' = (up \ (tried \cap initialized)) \cup ready
      /\ initialized' = (initialized \ (tried \cap initialized)) \cup ready
      /\ auto' = (auto \ validated) \cup given
      /\ local' = (local \ freed) \cup given
      /\ buffers' = [n \in Nodes |-> buffers[n] + ((IF n \in given THEN 1 ELSE 0)
                                                    - (IF n \in freed THEN 1 ELSE 0))]
  BY FreedBuffers DEF Hook, TornDown
<1> HIDE DEF freed
<1>2. up' = (up \ tried) \cup ready /\ up' = initialized'
  BY <1>1 DEF Ready
<1>3. ASSUME NEW n \in Nodes
      PROVE  buffers'[n] = IF n \in up' \cap AutoLocal THEN 1 ELSE 0
  <2>1. /\ buffers[n] = IF n \in up \cap AutoLocal THEN 1 ELSE 0
        /\ buffers'[n] = buffers[n] + ((IF n \in given THEN 1 ELSE 0)
                                        - (IF n \in freed THEN 1 ELSE 0))
    BY <1>1 DEF Ready
  <2>2. CASE n \in tried /\ n \in up /\ n \in AutoLocal
    BY <1>2, <2>1, <2>2 DEF freed
  <2>3. CASE n \notin tried /\ n \in up /\ n \in AutoLocal
    BY <1>2, <2>1, <2>3 DEF freed
  <2>4. CASE n \notin up \/ n \notin AutoLocal
    BY <1>2, <2>1, <2>4 DEF freed
  <2> QED
    BY <2>2, <2>3, <2>4
<1>4. buffers' = [n \in Nodes |-> IF n \in up' \cap AutoLocal THEN 1 ELSE 0]
  BY <1>1, <1>3
<1>5. /\ up' \subseteq DOMAIN nodes' /\ up' \subseteq UserNodes
      /\ up' \cap AutoLocal \subseteq auto' \cap local'
      /\ up' \cap auto' \subseteq AutoLocal
  BY <1>1, <1>2 DEF Ready, freed
<1> QED
  BY <1>2, <1>4, <1>5 DEF Ready

LEMMA VerifyKeepsHooks ==
  ASSUME TiesInv, HookInv, VerifySucceeds
  PROVE  HookInv'
<1>1. /\ list # None /\ Hook(Hooked, Hooked, Hooked) /\ UNCHANGED <<nodes, list, kernel>>
      /\ ToSet(list) = DOMAIN nodes
  BY DEF VerifySucceeds, TiesInv, ListInv
<1>2. Hooked \subseteq DOMAIN nodes /\ Hooked \subseteq UserNodes
  BY <1>1 DEF Hooked
<1>3. Ready' /\ up' = (up \ Hooked) \cup Hooked
  BY <1>1, <1>2, HookKeepsReady DEF HookInv
<1>4. ~kernel => up' = {}
  BY <1>3 DEF HookInv, Hooked
<1>5. kernel => (DOMAIN nodes) \cap UserNodes \subseteq up'
  BY <1>1, <1>3 DEF Hooked
<1> QED
  BY <1>1, <1>3, <1>4, <1>5 DEF HookInv

LEMMA FailureKeepsHooks ==
  ASSUME TiesInv, HookInv, ~Anything, NEW k, NEW ending, VerifyFails(k, ending)
  PROVE  HookInv'
<1> DEFINE before == {list[j] : j \in 1..(k - 1)} \cap Hooked
           tried  == before \cup {list[k]}
           validated == IF ending = "broken" THEN tried ELSE before
<1>1. /\ list # None /\ Hook(tried, validated, before) /\ list[k] \in Hooked
      /\ ~verified /\ (ending = "broken" => list[k] \notin AutoLocal)
      /\ UNCHANGED <<nodes, list, verified, kernel>>
      /\ ToSet(list) = DOMAIN nodes
  BY DEF VerifyFails, Careful, TiesInv, ListInv
<1>2. before \subseteq Hooked
  OBVIOUS
<1> HIDE DEF before
<1>3. /\ before \subseteq tried /\ before \subseteq validated
      /\ before \subseteq DOMAIN nodes /\ before \subseteq UserNodes
      /\ validated \cap AutoLocal = before \cap AutoLocal
  BY <1>1, <1>2 DEF Hooked
<1> HIDE DEF tried, validated
<1>4. Ready' /\ up' = (up \ tried) \cup before
  BY <1>1, <1>3, HookKeepsReady DEF HookInv
<1>5. kernel
  BY <1>1 DEF Hooked
<1> QED
  BY <1>1, <1>4, <1>5 DEF HookInv

LEMMA ReleaseKeepsHooks ==
  ASSUME TiesInv, HookInv, vxReleaseGraph
  PROVE  HookInv'
<1>1. /\ deinit_user_kernel_node(ToSet(list)) /\ ~verified' /\ kernel' = kernel /\ nodes' = <<>>
      /\ up \subseteq ToSet(list)
  BY DEF vxReleaseGraph, TiesInv, ListInv, HookInv, Ready
<1>2. up' = {} /\ initialized' = {}
  BY <1>1 DEF deinit_user_kernel_node, TornDown, HookInv, Ready
<1>3. Freed(TornDown(ToSet(list))) = up \cap AutoLocal
  BY <1>1, FreedBuffers DEF HookInv
<1>4. buffers' = [n \in Nodes |-> buffers[n] - (IF n \in up \cap AutoLocal THEN 1 ELSE 0)]
  BY <1>1, <1>3 DEF deinit_user_kernel_node
<1>5. ASSUME NEW n \in Nodes PROVE buffers'[n] = 0
  BY <1>4 DEF HookInv, Ready
<1>6. buffers' = [n \in Nodes |-> IF n \in up' \cap AutoLocal THEN 1 ELSE 0]
  BY <1>2, <1>4, <1>5
<1> QED
  BY <1>1, <1>2, <1>6 DEF HookInv, Ready

LEMMA HookStep ==
  ASSUME TiesInv, HookInv, ~Anything, [Next]_vars
  PROVE  HookInv'
<1>1. ASSUME UNCHANGED <<life, list, verified>>, DOMAIN nodes' = DOMAIN nodes
      PROVE  HookInv'
  BY <1>1 DEF HookInv, Ready, life, hook
<1>2. CASE UNCHANGED vars
  BY <1>1, <1>2 DEF vars
<1>3. CASE Counting
  BY <1>1, <1>3 DEF Counting, vxRetainReference, ReleaseObject, vxGetPyramidLevel
<1>4. CASE Setting
  <2>1. PICK n, k, o : Assign(n, k, o) /\ UNCHANGED <<life, list, verified>>
    <3>1. PICK n \in Nodes, k \in 1..Params :
             \/ \E o \in Objects : vxSetParameterByIndex(n, k, o) \/ vxSetParameterByReference(n, k, o)
             \/ \E d \in Delays : \E age \in 0..(Len(Slots[d]) - 1), level \in 0..1 :
                    SetFromDelay(n, k, d, age, level)
      BY <1>4 DEF Setting
    <3>2. ASSUME NEW o, vxSetParameterByIndex(n, k, o) \/ vxSetParameterByReference(n, k, o)
          PROVE  Assign(n, k, o) /\ UNCHANGED <<life, list, verified>>
      BY <3>2 DEF vxSetParameterByIndex, vxSetParameterByReference
    <3>3. ASSUME NEW d, NEW age, NEW level, SetFromDelay(n, k, d, age, level)
          PROVE  \E o : Assign(n, k, o) /\ UNCHANGED <<life, list, verified>>
      BY <3>3 DEF SetFromDelay
    <3> QED
      BY <3>1, <3>2, <3>3
  <2>2. DOMAIN nodes' = DOMAIN nodes
    BY <2>1 DEF Assign
  <2> QED
    BY <1>1, <2>1, <2>2
<1>5. CASE Delaying
  <2>1. UNCHANGED <<life, list, verified>> /\ DOMAIN nodes' = DOMAIN nodes
    BY <1>5 DEF Delaying, vxAgeDelay, vxRegisterAutoAging, vxReleaseDelay,
                resolve_delay_params_for_graph, Follow
  <2> QED
    BY <1>1, <2>1
<1>6. ASSUME NEW fails \in BOOLEAN, vxProcessGraph(fails) PROVE HookInv'
  BY <1>1, <1>6 DEF vxProcessGraph, resolve_delay_params_for_graph, Follow
<1>7. CASE vxRemoveKernel
  BY <1>7 DEF vxRemoveKernel, Careful, HookInv, Ready, hook
<1>8. ASSUME NEW n \in Nodes, vxRemoveNode(n) PROVE HookInv'
  <2>1. /\ n \notin up /\ nodes' = [j \in (DOMAIN nodes) \ {n} |-> nodes[j]] /\ ~verified'
        /\ initialized' = initialized \ {n} /\ auto' = auto \ {n} /\ local' = local \ {n}
        /\ UNCHANGED <<kernel, up, buffers>>
    BY <1>8 DEF vxRemoveNode, Careful
  <2>2. Ready'
    BY <2>1 DEF HookInv, Ready
  <2> QED
    BY <2>1, <2>2 DEF HookInv
<1>9. CASE Graphing
  BY <1>6, <1>7, <1>8, <1>9, VerifyKeepsHooks, FailureKeepsHooks, ReleaseKeepsHooks DEF Graphing
<1> QED
  BY <1>2, <1>3, <1>4, <1>5, <1>9 DEF Next

(* init and deinit of a user node are called in turns, whatever verification *)
(* fails and whatever is removed, and its local buffer is there in between.  *)
THEOREM InitialisedInTurns ==
  ASSUME ~Anything
  PROVE  Spec => []InitialisedOnce
<1>1. Init => TiesInv /\ HookInv
  <2>1. Init => HookInv
    BY DEF Init, HookInv, Ready
  <2> QED
    BY <2>1, InitTies
<1>2. TiesInv /\ HookInv /\ [Next]_vars => (TiesInv /\ HookInv)'
  BY TiesStep, HookStep
<1>3. TiesInv /\ HookInv => InitialisedOnce
  BY DEF TiesInv, ListInv, HookInv, Ready, InitialisedOnce
<1> QED
  BY <1>1, <1>2, <1>3, PTL DEF Spec
-----------------------------------------------------------------------------
(* The maps of images.  While every map of an image is unmapped before the   *)
(* older ones, its kept maps are numbered as they lie, and an id does not    *)
(* come back while the map that had it is open.                              *)
MapFields == {"id", "data", "usage", "at", "copy"}
Mapped(i) == images[i].mapped

ImagesInv ==
    /\ accesses \in Nat /\ IsSeq(images)
    /\ \A i \in DOMAIN images :
          /\ {"mapped", "external"} \subseteq DOMAIN images[i] /\ IsSeq(Mapped(i))
          /\ \A k \in DOMAIN Mapped(i) :
                /\ MapFields \subseteq DOMAIN Mapped(i)[k]
                /\ Mapped(i)[k].id = k
                /\ Mapped(i)[k].copy \in Nat /\ Mapped(i)[k].copy < accesses
          /\ \A j, k \in DOMAIN Mapped(i) : j # k => Mapped(i)[j].copy # Mapped(i)[k].copy

(* The map of image i that the application holds is the k-th kept one.       *)
IsMap(m, i, k) ==
    /\ "bytes" \in DOMAIN m /\ i \in DOMAIN images /\ k \in DOMAIN Mapped(i)
    /\ Mapped(i)[k].copy = m.copy
    /\ ~images[i].external => Mapped(i)[k].data = m.bytes

(* The open maps of an image are its kept ones, in order.                    *)
OpenInv ==
    /\ IsSeq(open)
    /\ \A m \in DOMAIN open : IsMap(open[m], open[m].image, open[m].id)
    /\ \A m, n \in DOMAIN open :
          m < n /\ open[m].image = open[n].image => open[m].id < open[n].id
    /\ \A i \in DOMAIN images : \A k \in DOMAIN Mapped(i) :
          \E m \in DOMAIN open : open[m].image = i /\ open[m].id = k

(* So the id of a map finds that map and no other.                           *)
LEMMA KeptUnderId ==
  ASSUME ImagesInv, NEW i \in DOMAIN images, NEW k \in DOMAIN Mapped(i)
  PROVE  Kept(Mapped(i), k) = k
<1> DEFINE s == Mapped(i)
<1>1. IsSeq(s) /\ \A j \in DOMAIN s : s[j].id = j
  BY DEF ImagesInv
<1> HIDE DEF s
<1>2. DOMAIN s = 1..Len(s) /\ Len(s) \in Nat /\ k \in 1..Len(s)
  BY <1>1, SeqFacts DEF s
<1>3. {j \in 1..Len(s) : s[j].id = k} = {k}
  BY <1>1, <1>2
<1>4. Min({k}) = k
  BY <1>2 DEF Min
<1> QED
  BY <1>3, <1>4 DEF Kept, SelectInSeq, s

LEMMA InvKeepsMaps == ImagesInv /\ OpenInv => MapsAreKept
<1> SUFFICES ASSUME ImagesInv, OpenInv, NEW m \in DOMAIN open
             PROVE  LET mapped == images[open[m].image].mapped
                        pos == Kept(mapped, open[m].id)
                    IN  /\ pos # 0
                        /\ mapped[pos].copy = open[m].copy
                        /\ ~images[open[m].image].external => mapped[pos].data = open[m].bytes
  BY DEF MapsAreKept
<1>1. IsMap(open[m], open[m].image, open[m].id)
  BY DEF OpenInv
<1>2. Kept(Mapped(open[m].image), open[m].id) = open[m].id
  BY <1>1, KeptUnderId DEF IsMap
<1>3. open[m].id # 0
  <2>1. IsSeq(Mapped(open[m].image))
    BY <1>1 DEF IsMap, ImagesInv
  <2> QED
    BY <1>1, <2>1, SeqFacts DEF IsMap
<1> QED
  BY <1>1, <1>2, <1>3 DEF IsMap, Mapped

(* Maps stay what they are when images only change in other ways and new     *)
(* images have no maps.                                                      *)
LEMMA RestKeepsMaps ==
  ASSUME ImagesInv, OpenInv, open' = open, accesses' \in {accesses, accesses + 1},
         IsSeq(images'), DOMAIN images \subseteq DOMAIN images',
         \A i \in DOMAIN images' : {"mapped", "external"} \subseteq DOMAIN images'[i],
         \A i \in DOMAIN images : /\ images'[i].mapped = images[i].mapped
                                  /\ images'[i].external = images[i].external,
         \A i \in DOMAIN images' \ DOMAIN images : images'[i].mapped = <<>>
  PROVE  ImagesInv' /\ OpenInv'
<1>1. \A i \in DOMAIN images : Mapped(i)' = Mapped(i)
  BY DEF Mapped
<1>2. \A i \in DOMAIN images' \ DOMAIN images : IsSeq(Mapped(i)') /\ DOMAIN Mapped(i)' = {}
  <2>1. <<>> \in Seq({}) /\ DOMAIN <<>> = {}
    OBVIOUS
  <2>2. IsSeq(<<>>)
    BY <2>1, IsSeqOf
  <2> QED
    BY <2>1, <2>2 DEF Mapped
<1>3. accesses' \in Nat /\ \A n \in Nat : n < accesses => n < accesses'
  BY DEF ImagesInv
<1>4. ASSUME NEW i \in DOMAIN images'
      PROVE  /\ IsSeq(Mapped(i)')
             /\ \A k \in DOMAIN Mapped(i)' :
                   /\ MapFields \subseteq DOMAIN Mapped(i)'[k]
                   /\ Mapped(i)'[k].id = k
                   /\ Mapped(i)'[k].copy \in Nat /\ Mapped(i)'[k].copy < accesses'
             /\ \A j, k \in DOMAIN Mapped(i)' : j # k => Mapped(i)'[j].copy # Mapped(i)'[k].copy
  <2>1. CASE i \in DOMAIN images
    BY <1>1, <1>3, <2>1 DEF ImagesInv
  <2>2. CASE i \notin DOMAIN images
    BY <1>2, <2>2
  <2> QED
    BY <2>1, <2>2
<1>5. ImagesInv'
  BY <1>3, <1>4 DEF ImagesInv
<1>6. \A m \in DOMAIN open : IsMap(open[m], open[m].image, open[m].id)'
  <2> SUFFICES ASSUME NEW m \in DOMAIN open PROVE IsMap(open[m], open[m].image, open[m].id)'
    OBVIOUS
  <2>1. IsMap(open[m], open[m].image, open[m].id)
    BY DEF OpenInv
  <2>2. open[m].image \in DOMAIN images /\ Mapped(open[m].image)' = Mapped(open[m].image)
    BY <1>1, <2>1 DEF IsMap
  <2> QED
    BY <2>1, <2>2 DEF IsMap
<1>7. \A i \in DOMAIN images' : \A k \in DOMAIN Mapped(i)' :
          \E m \in DOMAIN open : open[m].image = i /\ open[m].id = k
  BY <1>1, <1>2 DEF OpenInv
<1> QED
  BY <1>5, <1>6, <1>7 DEF OpenInv

LEMMA CreatedKeepsMaps ==
  ASSUME ImagesInv, OpenInv, open' = open, accesses' \in {accesses, accesses + 1},
         NEW x, images' = Append(images, x), x.mapped = <<>>, {"mapped", "external"} \subseteq DOMAIN x
  PROVE  ImagesInv' /\ OpenInv'
<1>1. /\ IsSeq(images') /\ DOMAIN images' = DOMAIN images \cup {Len(images) + 1}
      /\ \A i \in DOMAIN images : images'[i] = images[i]
      /\ images'[Len(images) + 1] = x
  BY AppendIsSeq DEF ImagesInv
<1>2. \A i \in DOMAIN images' : {"mapped", "external"} \subseteq DOMAIN images'[i]
  BY <1>1 DEF ImagesInv
<1> QED
  BY <1>1, <1>2, RestKeepsMaps

LEMMA SameKeepsMaps ==
  ASSUME ImagesInv, OpenInv, UNCHANGED <<images, open>>, accesses' \in {accesses, accesses + 1}
  PROVE  ImagesInv' /\ OpenInv'
<1>1. IsSeq(images') /\ \A i \in DOMAIN images : {"mapped", "external"} \subseteq DOMAIN images[i]
  BY DEF ImagesInv
<1> QED
  BY <1>1, RestKeepsMaps

LEMMA CreateKeepsMaps ==
  ASSUME ImagesInv, OpenInv, Create PROVE ImagesInv' /\ OpenInv'
<1>1. accesses \in Nat
  BY DEF ImagesInv
<1>2. ASSUME NEW s, vxCreateImage(s) PROVE ImagesInv' /\ OpenInv'
  <2> DEFINE x == [Record(s.w, s.h, s.format) EXCEPT
                      !.data = Len(memory) + 1, !.pixels = Root(s.format)]
  <2>1. images' = Append(images, x) /\ open' = open /\ accesses' = accesses
    BY <1>2 DEF vxCreateImage, Created
  <2>2. x.mapped = <<>> /\ {"mapped", "external"} \subseteq DOMAIN x
    BY DEF Record
  <2> QED
    BY <2>1, <2>2, CreatedKeepsMaps
<1>3. ASSUME NEW s, vxCreateUniformImage(s) PROVE ImagesInv' /\ OpenInv'
  <2> DEFINE x == [Record(s.w, s.h, s.format) EXCEPT
                      !.data = Len(memory) + 1, !.pixels = Root(s.format)]
  <2>1. images' = Append(images, x) /\ open' = open /\ accesses' = accesses + 1
    BY <1>3 DEF vxCreateUniformImage
  <2>2. x.mapped = <<>> /\ {"mapped", "external"} \subseteq DOMAIN x
    BY DEF Record
  <2> QED
    BY <2>1, <2>2, CreatedKeepsMaps
<1>4. ASSUME NEW s, vxCreateImageFromHandle(s) PROVE ImagesInv' /\ OpenInv'
  <2>1. PICK a, b, c, d :
           /\ images' = Append(images, [Record(s.w, s.h, s.format) EXCEPT
                 !.external = TRUE, !.from_handle = TRUE, !.pixels = a,
                 !.ptrs = b, !.strides = c, !.stride_x = d])
           /\ open' = open /\ accesses' = accesses
    BY <1>4 DEF vxCreateImageFromHandle, Created
  <2> DEFINE x == [Record(s.w, s.h, s.format) EXCEPT
                      !.external = TRUE, !.from_handle = TRUE, !.pixels = a,
                      !.ptrs = b, !.strides = c, !.stride_x = d]
  <2>2. x.mapped = <<>> /\ {"mapped", "external"} \subseteq DOMAIN x
    BY DEF Record
  <2> QED
    BY <2>1, <2>2, CreatedKeepsMaps
<1>5. ASSUME NEW i \in DOMAIN images, NEW r, vxCreateImageFromROI(i, r)
      PROVE  ImagesInv' /\ OpenInv'
  <2>1. PICK a, b, c, d, e :
           /\ images' = Append(images, [Record(r.w, r.h, images[i].format) EXCEPT
                 !.data = images[i].data, !.parent = i, !.external = images[i].external,
                 !.roi = a, !.ptrs = b, !.strides = c, !.stride_x = d, !.pixels = e,
                 !.swaps = images[i].swaps])
           /\ open' = open /\ accesses' = accesses
    BY <1>5, ZenonT(40) DEF vxCreateImageFromROI, Created
  <2> DEFINE x == [Record(r.w, r.h, images[i].format) EXCEPT
                      !.data = images[i].data, !.parent = i, !.external = images[i].external,
                      !.roi = a, !.ptrs = b, !.strides = c, !.stride_x = d, !.pixels = e,
                      !.swaps = images[i].swaps]
  <2>2. x.mapped = <<>> /\ {"mapped", "external"} \subseteq DOMAIN x
    BY DEF Record
  <2> QED
    BY <2>1, <2>2, CreatedKeepsMaps
<1>6. ASSUME NEW i \in DOMAIN images, NEW p, vxCreateImageFromChannel(i, p)
      PROVE  ImagesInv' /\ OpenInv'
  <2> DEFINE w == Extent(i, p)[1]
             h == Extent(i, p)[2]
             outside == [Record(w, h, "U8") EXCEPT
                            !.parent = i, !.external = TRUE, !.ptrs = <<images[i].ptrs[p + 1]>>,
                            !.strides = <<images[i].strides[p + 1]>>, !.stride_x = <<1>>,
                            !.parent_plane = p]
             inside == [Record(w, h, "U8") EXCEPT
                           !.parent = i, !.data = images[i].data,
                           !.channel_offset =
                              plane_offset(images[i].w, images[i].h, images[i].format, p)]
             x == [(IF images[i].external THEN outside ELSE inside) EXCEPT
                      !.pixels = <<images[i].pixels[p + 1]>>, !.swaps = images[i].swaps]
  <2>1. images' = Append(images, x) /\ open' = open /\ accesses' = accesses
    BY <1>6 DEF vxCreateImageFromChannel, Created
  <2>2. outside.mapped = <<>> /\ {"mapped", "external"} \subseteq DOMAIN outside
    BY DEF Record
  <2>3. inside.mapped = <<>> /\ {"mapped", "external"} \subseteq DOMAIN inside
    BY DEF Record
  <2> HIDE DEF outside, inside
  <2>4. x.mapped = <<>> /\ {"mapped", "external"} \subseteq DOMAIN x
    BY <2>2, <2>3
  <2> HIDE DEF x
  <2> QED
    BY <2>1, <2>4, CreatedKeepsMaps
<1> QED
  BY <1>2, <1>3, <1>4, <1>5, <1>6 DEF Create

LEMMA SwapKeepsMaps ==
  ASSUME ImagesInv, OpenInv, NEW i \in DOMAIN images, NEW reclaim \in BOOLEAN,
         vxSwapImageHandle(i, reclaim)
  PROVE  ImagesInv' /\ OpenInv'
<1>1. PICK a, b : /\ images' = [images EXCEPT ![i].ptrs = a, ![i].swaps = b]
                  /\ open' = open /\ accesses' = accesses + 1
  BY DEF vxSwapImageHandle
<1> DEFINE x == [images[i] EXCEPT !.ptrs = a, !.swaps = b]
<1>2. images' = [images EXCEPT ![i] = x]
  BY <1>1
<1>3. {"mapped", "external"} \subseteq DOMAIN images[i] /\ IsSeq(images)
  BY DEF ImagesInv
<1>4. x.mapped = images[i].mapped /\ x.external = images[i].external /\ DOMAIN x = DOMAIN images[i]
  BY <1>3
<1> HIDE DEF x
<1>5. /\ IsSeq(images') /\ DOMAIN images' = DOMAIN images
      /\ \A k \in DOMAIN images : images'[k] = IF k = i THEN x ELSE images[k]
  BY <1>2, <1>3, ChangeIsSeq
<1>6. \A k \in DOMAIN images' : {"mapped", "external"} \subseteq DOMAIN images'[k]
  BY <1>4, <1>5 DEF ImagesInv
<1>7. \A k \in DOMAIN images : /\ images'[k].mapped = images[k].mapped
                               /\ images'[k].external = images[k].external
  BY <1>4, <1>5
<1> QED
  BY <1>1, <1>5, <1>6, <1>7, RestKeepsMaps

LEMMA CloneKeepsMaps ==
  ASSUME ImagesInv, OpenInv, NEW i \in DOMAIN images, NEW r, vxCloneImage(i, r)
  PROVE  ImagesInv' /\ OpenInv'
<1> DEFINE x == [Record(r.w, r.h, images[i].format) EXCEPT
                    !.data = Len(memory) + 1, !.pixels = Root(images[i].format)]
<1>1. images' = Append(images, x) /\ open' = open /\ accesses' = accesses + 1
  BY DEF vxCloneImage, Access
<1>2. x.mapped = <<>> /\ {"mapped", "external"} \subseteq DOMAIN x
  BY DEF Record
<1> QED
  BY <1>1, <1>2, CreatedKeepsMaps

(* A new map is the newest of its image, under an id that no open one has.   *)
LEMMA MapKeepsMaps ==
  ASSUME ImagesInv, OpenInv, NEW i \in DOMAIN images, NEW p, NEW r, NEW u,
         vxMapImagePatch(i, p, r, u)
  PROVE  ImagesInv' /\ OpenInv'
<1> DEFINE s == Mapped(i)
           id == Len(s) + 1
<1>1. IsSeq(s) /\ s = images[i].mapped /\ accesses \in Nat
  BY DEF ImagesInv, Mapped
<1>2. PICK clamped, at, data :
        LET mapped == Append(s, [id |-> id, data |-> data, usage |-> u, at |-> at, copy |-> accesses])
            found  == mapped[Kept(mapped, id)]
            bytes  == IF images[i].external THEN ReadPatch(at) ELSE found.data
        IN  /\ images' = [images EXCEPT ![i].mapped = mapped]
            /\ open' = Append(open, [image |-> i, id |-> id, plane |-> p, rect |-> clamped, usage |-> u,
                                     at |-> at, copy |-> found.copy, bytes |-> bytes])
            /\ accesses' = accesses + 1
  BY <1>1 DEF vxMapImagePatch, Access
<1> DEFINE new == [id |-> id, data |-> data, usage |-> u, at |-> at, copy |-> accesses]
           mapped == Append(s, new)
<1>3. /\ new.id = id /\ new.data = data /\ new.copy = accesses /\ MapFields \subseteq DOMAIN new
  BY DEF MapFields
<1> HIDE DEF new
<1>4. /\ IsSeq(mapped) /\ DOMAIN mapped = DOMAIN s \cup {id} /\ mapped[id] = new
      /\ \A k \in DOMAIN s : mapped[k] = s[k] /\ k # id /\ k < id
  BY <1>1, AppendIsSeq
<1> HIDE DEF mapped, s
<1>5. \A k \in DOMAIN s : /\ MapFields \subseteq DOMAIN s[k] /\ s[k].id = k
                          /\ s[k].copy \in Nat /\ s[k].copy < accesses
  BY DEF ImagesInv, s
<1>6. Kept(mapped, id) = id
  <2>1. DOMAIN mapped = 1..Len(mapped)
    BY <1>4, SeqFacts
  <2>2. {k \in 1..Len(mapped) : mapped[k].id = id} = {id}
    BY <1>3, <1>4, <1>5, <2>1
  <2>3. id \in Nat
    BY <1>1, SeqFacts
  <2>4. Min({id}) = id
    BY <2>3 DEF Min
  <2> HIDE DEF id
  <2> QED
    BY <2>2, <2>4 DEF Kept, SelectInSeq
<1>7. PICK m : /\ m.image = i /\ m.id = id /\ m.copy = accesses /\ "bytes" \in DOMAIN m
               /\ ~images[i].external => m.bytes = data
               /\ open' = Append(open, m)
  <2> DEFINE bytes == IF images[i].external THEN ReadPatch(at) ELSE mapped[id].data
             m == [image |-> i, id |-> id, plane |-> p, rect |-> clamped, usage |-> u,
                   at |-> at, copy |-> mapped[id].copy, bytes |-> bytes]
  <2>1. open' = Append(open, m)
    BY <1>2, <1>6 DEF mapped, new
  <2>2. m.image = i /\ m.id = id /\ m.copy = accesses /\ "bytes" \in DOMAIN m
    BY <1>3, <1>4
  <2>3. ~images[i].external => m.bytes = data
    BY <1>3, <1>4
  <2> QED
    BY <2>1, <2>2, <2>3
<1>8. images' = [images EXCEPT ![i].mapped = mapped] /\ accesses' = accesses + 1
  BY <1>2 DEF mapped, new
<1> HIDE DEF id
<1>9. /\ IsSeq(images') /\ DOMAIN images' = DOMAIN images
      /\ \A j \in DOMAIN images : {"mapped", "external"} \subseteq DOMAIN images'[j]
      /\ \A j \in DOMAIN images : images'[j].external = images[j].external
      /\ \A j \in DOMAIN images : Mapped(j)' = IF j = i THEN mapped ELSE Mapped(j)
  <2> DEFINE x == [images[i] EXCEPT !.mapped = mapped]
  <2>1. IsSeq(images) /\ {"mapped", "external"} \subseteq DOMAIN images[i]
    BY DEF ImagesInv
  <2>2. x.mapped = mapped /\ x.external = images[i].external /\ DOMAIN x = DOMAIN images[i]
    BY <2>1
  <2>3. images' = [images EXCEPT ![i] = x]
    BY <1>8
  <2> HIDE DEF x
  <2>4. /\ IsSeq(images') /\ DOMAIN images' = DOMAIN images
        /\ \A j \in DOMAIN images : images'[j] = IF j = i THEN x ELSE images[j]
    BY <2>1, <2>3, ChangeIsSeq
  <2>5. \A j \in DOMAIN images : {"mapped", "external"} \subseteq DOMAIN images'[j]
    BY <2>1, <2>2, <2>4 DEF ImagesInv
  <2> QED
    BY <2>2, <2>4, <2>5 DEF Mapped
<1>10. ImagesInv'
  <2>1. accesses' \in Nat /\ accesses < accesses' /\ \A n \in Nat : n < accesses => n < accesses'
    BY <1>1, <1>8
  <2>2. ASSUME NEW j \in DOMAIN images
        PROVE  /\ IsSeq(Mapped(j)')
               /\ \A k \in DOMAIN Mapped(j)' :
                     /\ MapFields \subseteq DOMAIN Mapped(j)'[k]
                     /\ Mapped(j)'[k].id = k
                     /\ Mapped(j)'[k].copy \in Nat /\ Mapped(j)'[k].copy < accesses'
               /\ \A a, b \in DOMAIN Mapped(j)' : a # b => Mapped(j)'[a].copy # Mapped(j)'[b].copy
    <3>1. CASE j # i
      BY <1>9, <2>1, <3>1 DEF ImagesInv
    <3>2. CASE j = i
      <4>1. \A k \in DOMAIN mapped : /\ MapFields \subseteq DOMAIN mapped[k] /\ mapped[k].id = k
                                     /\ mapped[k].copy \in Nat /\ mapped[k].copy < accesses'
        BY <1>1, <1>3, <1>4, <1>5, <2>1
      <4>2. \A a, b \in DOMAIN s : a # b => s[a].copy # s[b].copy
        BY DEF ImagesInv, s
      <4>3. \A a \in DOMAIN s : s[a].copy # accesses
        BY <1>1, <1>5
      <4>4. \A a, b \in DOMAIN mapped : a # b => mapped[a].copy # mapped[b].copy
        BY <1>3, <1>4, <4>2, <4>3
      <4> QED
        BY <1>4, <1>9, <3>2, <4>1, <4>4
    <3> QED
      BY <3>1, <3>2
  <2> QED
    BY <1>9, <2>1, <2>2 DEF ImagesInv
<1>11. /\ IsSeq(open) /\ IsSeq(open') /\ DOMAIN open' = DOMAIN open \cup {Len(open) + 1}
       /\ \A k \in DOMAIN open : open'[k] = open[k] /\ k < Len(open) + 1
       /\ open'[Len(open) + 1] = m /\ Len(open) \in Nat /\ DOMAIN open = 1..Len(open)
  <2>1. IsSeq(open)
    BY DEF OpenInv
  <2> QED
    BY <1>7, <2>1, AppendIsSeq, SeqFacts
<1> DEFINE e == Len(open) + 1
<1>12. \A k \in DOMAIN open' : IsMap(open[k], open[k].image, open[k].id)'
  <2> SUFFICES ASSUME NEW k \in DOMAIN open' PROVE IsMap(open[k], open[k].image, open[k].id)'
    OBVIOUS
  <2>1. CASE k = e
    <3>1. open'[k] = m
      BY <1>11, <2>1
    <3>2. m.id \in DOMAIN mapped /\ mapped[m.id].copy = m.copy
          /\ (~images[i].external => mapped[m.id].data = m.bytes)
      BY <1>3, <1>4, <1>7
    <3>3. "bytes" \in DOMAIN m /\ i \in DOMAIN images' /\ images'[i].external = images[i].external
      BY <1>7, <1>9
    <3>4. m.id \in DOMAIN Mapped(i)' /\ Mapped(i)'[m.id] = mapped[m.id]
      BY <1>9, <3>2
    <3>5. IsMap(m, i, m.id)'
      BY <3>2, <3>3, <3>4 DEF IsMap
    <3> QED
      BY <1>7, <3>1, <3>5
  <2>2. CASE k \in DOMAIN open
    <3>1. PICK o, j, n : o = open[k] /\ o = open'[k] /\ j = o.image /\ n = o.id
      BY <1>11, <2>2
    <3>2. IsMap(o, j, n)
      BY <2>2, <3>1 DEF OpenInv
    <3>3. j \in DOMAIN images /\ n \in DOMAIN Mapped(j)
      BY <3>2 DEF IsMap
    <3>4. n \in DOMAIN Mapped(j)' /\ Mapped(j)'[n] = Mapped(j)[n]
      BY <1>4, <1>9, <3>3 DEF s
    <3>5. j \in DOMAIN images' /\ images'[j].external = images[j].external
      BY <1>9, <3>3
    <3>6. IsMap(o, j, n)'
      BY <3>2, <3>4, <3>5 DEF IsMap
    <3> QED
      BY <3>1, <3>6 DEF IsMap
  <2> QED
    BY <1>11, <2>1, <2>2
<1>13. \A a, b \in DOMAIN open' : a < b /\ open'[a].image = open'[b].image => open'[a].id < open'[b].id
  <2> SUFFICES ASSUME NEW a \in DOMAIN open', NEW b \in DOMAIN open', a < b,
                      open'[a].image = open'[b].image
               PROVE  open'[a].id < open'[b].id
    OBVIOUS
  <2>1. a \in DOMAIN open /\ open'[a] = open[a]
    BY <1>11
  <2>2. CASE b \in DOMAIN open
    <3>1. open'[b] = open[b]
      BY <1>11, <2>2
    <3> QED
      BY <2>1, <2>2, <3>1 DEF OpenInv
  <2>3. CASE b = e
    <3>1. open'[b] = m /\ open[a].image = i
      BY <1>7, <1>11, <2>1, <2>3
    <3>2. open[a].id \in DOMAIN s
      BY <2>1, <3>1 DEF OpenInv, IsMap, s
    <3> QED
      BY <1>4, <1>7, <2>1, <3>1, <3>2
  <2> QED
    BY <1>11, <2>2, <2>3
<1>14. ASSUME NEW j \in DOMAIN images, NEW k \in DOMAIN Mapped(j)'
       PROVE  \E a \in DOMAIN open' : open'[a].image = j /\ open'[a].id = k
  <2>1. CASE k \in DOMAIN Mapped(j)
    <3>1. PICK a \in DOMAIN open : open[a].image = j /\ open[a].id = k
      BY <2>1 DEF OpenInv
    <3> QED
      BY <1>11, <3>1
  <2>2. CASE k \notin DOMAIN Mapped(j)
    <3>1. j = i /\ k = id
      BY <1>4, <1>9, <2>2 DEF s
    <3> QED
      BY <1>7, <1>11, <3>1
  <2> QED
    BY <2>1, <2>2
<1>15. OpenInv'
  BY <1>9, <1>11, <1>12, <1>13, <1>14 DEF OpenInv
<1> QED
  BY <1>10, <1>15

(* Writing through a map changes its own copy, because no two copies of an   *)
(* image have the same mark.                                                 *)
LEMMA EditKeepsMaps ==
  ASSUME ImagesInv, OpenInv, NEW m \in DOMAIN open, WriteThroughMap(m)
  PROVE  ImagesInv' /\ OpenInv'
<1>1. PICK o, i, k, bytes : /\ o = open[m] /\ i = o.image /\ k = o.id
                            /\ bytes = Fresh(Len(o.bytes))
  OBVIOUS
<1>2. /\ IsMap(o, i, k) /\ i \in DOMAIN images /\ k \in DOMAIN Mapped(i) /\ IsSeq(Mapped(i))
      /\ "bytes" \in DOMAIN o
  BY <1>1 DEF OpenInv, IsMap, ImagesInv
<1>3. {j \in 1..Len(images[open[m].image].mapped) :
          images[open[m].image].mapped[j].copy = open[m].copy} = {k} /\ Min({k}) = k
  <2> DEFINE s == Mapped(i)
  <2>1. DOMAIN s = 1..Len(s) /\ k \in 1..Len(s) /\ s[k].copy = o.copy
    BY <1>2, SeqFacts DEF IsMap
  <2>2. \A j \in DOMAIN s : j # k => s[j].copy # s[k].copy
    BY <1>2 DEF ImagesInv
  <2>3. s = images[open[m].image].mapped
    BY <1>1 DEF Mapped
  <2> HIDE DEF s
  <2>4. {j \in 1..Len(s) : s[j].copy = o.copy} = {k}
    BY <2>1, <2>2
  <2>5. Min({k}) = k
    BY <2>1 DEF Min
  <2> QED
    BY <1>1, <2>3, <2>4, <2>5
<1>4. PICK c : /\ accesses' = accesses + 1 /\ open' = [open EXCEPT ![m].bytes = bytes]
               /\ IF images[i].external THEN images' = images
                  ELSE c = k /\ images' = [images EXCEPT ![i].mapped[c].data = bytes]
  <2>1. accesses' = accesses + 1 /\ open' = [open EXCEPT ![m].bytes = bytes]
    BY <1>1 DEF WriteThroughMap, Access
  <2>2. CASE images[i].external
    <3>1. images[open[m].image].external
      BY <1>1, <2>2
    <3>2. images' = images
      BY <3>1, Zenon DEF WriteThroughMap
    <3> QED
      BY <2>1, <2>2, <3>2
  <2>3. CASE ~images[i].external
    <3>1. PICK c : /\ images' = [images EXCEPT ![i].mapped[c].data = bytes]
                   /\ c = IF {j \in 1..Len(images[open[m].image].mapped) :
                                images[open[m].image].mapped[j].copy = open[m].copy} # {}
                          THEN Min({j \in 1..Len(images[open[m].image].mapped) :
                                images[open[m].image].mapped[j].copy = open[m].copy})
                          ELSE 0
      BY <1>1, <2>3 DEF WriteThroughMap, SelectInSeq
    <3>2. c = k
      BY <1>3, <3>1
    <3> QED
      BY <2>1, <2>3, <3>1, <3>2
  <2> QED
    BY <2>2, <2>3
<1>5. /\ IsSeq(images) /\ \A j \in DOMAIN images : {"mapped", "external"} \subseteq DOMAIN images[j]
      /\ accesses \in Nat
  BY DEF ImagesInv
<1> DEFINE z == [o EXCEPT !.bytes = bytes]
<1>6. z.bytes = bytes /\ z.image = i /\ z.id = k /\ z.copy = o.copy /\ "bytes" \in DOMAIN z
  BY <1>1, <1>2
<1>7. open' = [open EXCEPT ![m] = z]
  BY <1>1, <1>4
<1> HIDE DEF z
<1>8. /\ IsSeq(open') /\ DOMAIN open' = DOMAIN open
      /\ \A n \in DOMAIN open : open'[n] = IF n = m THEN z ELSE open[n]
  <2>1. IsSeq(open)
    BY DEF OpenInv
  <2> QED
    BY <1>7, <2>1, ChangeIsSeq
<1>9. /\ IsSeq(images') /\ DOMAIN images' = DOMAIN images
      /\ \A j \in DOMAIN images : /\ {"mapped", "external"} \subseteq DOMAIN images'[j]
                                  /\ images'[j].external = images[j].external
      /\ \A j \in DOMAIN images : j # i => Mapped(j)' = Mapped(j)
      /\ IsSeq(Mapped(i)') /\ DOMAIN Mapped(i)' = DOMAIN Mapped(i)
      /\ \A n \in DOMAIN Mapped(i) :
            /\ MapFields \subseteq DOMAIN Mapped(i)'[n]
            /\ Mapped(i)'[n].id = n
            /\ Mapped(i)'[n].copy = Mapped(i)[n].copy
            /\ n # k => Mapped(i)'[n] = Mapped(i)[n]
      /\ ~images[i].external => Mapped(i)'[k].data = bytes
  <2>1. CASE images[i].external
    <3>1. images' = images
      BY <1>4, <2>1
    <3>2. \A n \in DOMAIN Mapped(i) : MapFields \subseteq DOMAIN Mapped(i)[n] /\ Mapped(i)[n].id = n
      BY <1>2 DEF ImagesInv
    <3>3. \A j \in DOMAIN images : Mapped(j)' = Mapped(j)
      BY <3>1 DEF Mapped
    <3> QED
      BY <1>2, <1>5, <2>1, <3>1, <3>2, <3>3
  <2>2. CASE ~images[i].external
    <3> DEFINE s == Mapped(i)
               w == [s[c] EXCEPT !.data = bytes]
               t == [s EXCEPT ![c] = w]
               x == [images[i] EXCEPT !.mapped = t]
    <3>1. \A n \in DOMAIN s : MapFields \subseteq DOMAIN s[n] /\ s[n].id = n
      BY <1>2 DEF ImagesInv
    <3>2. images' = [images EXCEPT ![i] = x] /\ c = k
      BY <1>4, <2>2 DEF Mapped
    <3>3. MapFields \subseteq DOMAIN w /\ w.id = k /\ w.copy = s[k].copy /\ w.data = bytes
      BY <1>2, <3>1, <3>2 DEF MapFields
    <3> HIDE DEF w, s
    <3>4. /\ IsSeq(t) /\ DOMAIN t = DOMAIN s
          /\ \A n \in DOMAIN s : t[n] = IF n = k THEN w ELSE s[n]
      BY <1>2, <3>2, ChangeIsSeq DEF s
    <3> HIDE DEF t
    <3>5. x.mapped = t /\ x.external = images[i].external /\ DOMAIN x = DOMAIN images[i]
      BY <1>2, <1>5
    <3> HIDE DEF x
    <3>6. /\ IsSeq(images') /\ DOMAIN images' = DOMAIN images
          /\ \A j \in DOMAIN images : images'[j] = IF j = i THEN x ELSE images[j]
      BY <1>2, <1>5, <3>2, ChangeIsSeq
    <3>7. \A j \in DOMAIN images : /\ {"mapped", "external"} \subseteq DOMAIN images'[j]
                                   /\ images'[j].external = images[j].external
      BY <1>5, <3>5, <3>6
    <3>8. Mapped(i)' = t /\ \A j \in DOMAIN images : j # i => Mapped(j)' = Mapped(j)
      BY <1>2, <3>5, <3>6 DEF Mapped
    <3>9. \A n \in DOMAIN s : /\ MapFields \subseteq DOMAIN t[n] /\ t[n].id = n /\ t[n].copy = s[n].copy
                              /\ n # k => t[n] = s[n]
      BY <3>1, <3>3, <3>4
    <3>10. t[k].data = bytes /\ Mapped(i) = s
      BY <1>2, <3>3, <3>4 DEF s
    <3> QED
      BY <3>4, <3>6, <3>7, <3>8, <3>9, <3>10
  <2> QED
    BY <2>1, <2>2
<1>10. ImagesInv'
  <2>1. accesses' \in Nat /\ \A n \in Nat : n < accesses => n < accesses'
    BY <1>4, <1>5
  <2>2. ASSUME NEW j \in DOMAIN images
        PROVE  /\ IsSeq(Mapped(j)')
               /\ \A n \in DOMAIN Mapped(j)' :
                     /\ MapFields \subseteq DOMAIN Mapped(j)'[n]
                     /\ Mapped(j)'[n].id = n
                     /\ Mapped(j)'[n].copy \in Nat /\ Mapped(j)'[n].copy < accesses'
               /\ \A a, b \in DOMAIN Mapped(j)' : a # b => Mapped(j)'[a].copy # Mapped(j)'[b].copy
    <3>1. /\ IsSeq(Mapped(j))
          /\ \A n \in DOMAIN Mapped(j) : /\ MapFields \subseteq DOMAIN Mapped(j)[n]
                                         /\ Mapped(j)[n].id = n
                                         /\ Mapped(j)[n].copy \in Nat /\ Mapped(j)[n].copy < accesses
          /\ \A a, b \in DOMAIN Mapped(j) : a # b => Mapped(j)[a].copy # Mapped(j)[b].copy
      BY DEF ImagesInv
    <3>2. CASE j # i
      BY <1>9, <2>1, <3>1, <3>2
    <3>3. CASE j = i
      BY <1>9, <2>1, <3>1, <3>3
    <3> QED
      BY <3>2, <3>3
  <2> QED
    BY <1>9, <2>1, <2>2 DEF ImagesInv
<1>11. \A n \in DOMAIN open : open'[n].image = open[n].image /\ open'[n].id = open[n].id
  BY <1>1, <1>6, <1>8
<1>12. \A n \in DOMAIN open' : IsMap(open[n], open[n].image, open[n].id)'
  <2> SUFFICES ASSUME NEW n \in DOMAIN open' PROVE IsMap(open[n], open[n].image, open[n].id)'
    OBVIOUS
  <2>1. CASE n = m
    <3>1. k \in DOMAIN Mapped(i)' /\ Mapped(i)'[k].copy = Mapped(i)[k].copy
      BY <1>2, <1>9
    <3>2. i \in DOMAIN images' /\ images'[i].external = images[i].external
      BY <1>2, <1>9
    <3>3. Mapped(i)[k].copy = o.copy /\ (~images[i].external => Mapped(i)'[k].data = bytes)
      BY <1>2, <1>9 DEF IsMap
    <3>4. IsMap(z, i, k)'
      BY <1>6, <3>1, <3>2, <3>3 DEF IsMap
    <3>5. open'[n] = z
      BY <1>8, <2>1
    <3> QED
      BY <1>6, <3>4, <3>5
  <2>2. CASE n # m
    <3>1. PICK q, j, l : q = open[n] /\ q = open'[n] /\ j = q.image /\ l = q.id
      BY <1>8, <2>2
    <3>2. IsMap(q, j, l) /\ j \in DOMAIN images /\ l \in DOMAIN Mapped(j)
      <4>1. IsMap(open[n], open[n].image, open[n].id)
        BY <1>8 DEF OpenInv
      <4> QED
        BY <3>1, <4>1 DEF IsMap
    <3>3. j = i => l # k
      <4>1. n \in DOMAIN open /\ \A a \in DOMAIN open : a \in Nat
        <5>1. IsSeq(open)
          BY DEF OpenInv
        <5> QED
          BY <1>8, <5>1, SeqFacts
      <4>2. n < m \/ m < n
        BY <2>2, <4>1
      <4>3. \A a, b \in DOMAIN open :
               a < b /\ open[a].image = open[b].image => open[a].id < open[b].id
        BY DEF OpenInv
      <4>4. k \in Nat /\ (j = i => l \in Nat)
        BY <1>2, <3>2, SeqFacts
      <4>5. j = i => l < k \/ k < l
        BY <1>1, <3>1, <4>1, <4>2, <4>3
      <4> QED
        BY <4>4, <4>5
    <3>4. l \in DOMAIN Mapped(j)' /\ Mapped(j)'[l] = Mapped(j)[l]
      BY <1>9, <3>2, <3>3
    <3>5. j \in DOMAIN images' /\ images'[j].external = images[j].external
      BY <1>9, <3>2
    <3>6. IsMap(q, j, l)'
      BY <3>2, <3>4, <3>5 DEF IsMap
    <3> QED
      BY <3>1, <3>6
  <2> QED
    BY <2>1, <2>2
<1>13. \A j \in DOMAIN images : DOMAIN Mapped(j)' = DOMAIN Mapped(j)
  BY <1>9
<1>14. \A a, b \in DOMAIN open' : a < b /\ open'[a].image = open'[b].image => open'[a].id < open'[b].id
  BY <1>8, <1>11 DEF OpenInv
<1>15. \A j \in DOMAIN images' : \A n \in DOMAIN Mapped(j)' :
          \E a \in DOMAIN open' : open'[a].image = j /\ open'[a].id = n
  BY <1>8, <1>9, <1>11, <1>13 DEF OpenInv
<1>16. OpenInv'
  BY <1>8, <1>12, <1>14, <1>15 DEF OpenInv
<1> QED
  BY <1>10, <1>16

(* The elements left when one is removed, by the places they had.            *)
LEMMA RemovedIsSeq ==
  ASSUME NEW s, IsSeq(s), NEW i \in DOMAIN s
  PROVE  LET r    == RemoveAt(s, i)
             at(j) == IF j < i THEN j ELSE j + 1
         IN  /\ IsSeq(r) /\ DOMAIN r = 1..(Len(s) - 1)
             /\ \A j \in DOMAIN r : at(j) \in DOMAIN s \ {i} /\ r[j] = s[at(j)]
             /\ \A a, b \in DOMAIN r : a < b => at(a) < at(b)
             /\ \A k \in DOMAIN s \ {i} : \E j \in DOMAIN r : at(j) = k
<1> DEFINE r == RemoveAt(s, i)
           at(j) == IF j < i THEN j ELSE j + 1
<1>1. DOMAIN s = 1..Len(s) /\ Len(s) \in Nat /\ i \in 1..Len(s) /\ s \in Seq(ToSet(s))
  BY SeqFacts DEF IsSeq
<1>2. /\ r \in Seq(ToSet(s)) /\ DOMAIN r = 1..(Len(s) - 1)
      /\ \A j \in 1..(Len(s) - 1) : r[j] = IF j < i THEN s[j] ELSE s[j + 1]
  BY <1>1, RemovedAt
<1>3. IsSeq(r)
  BY <1>2, IsSeqOf
<1> HIDE DEF r
<1>4. \A j \in DOMAIN r : at(j) \in DOMAIN s \ {i} /\ r[j] = s[at(j)]
  BY <1>1, <1>2
<1>5. \A a, b \in DOMAIN r : a < b => at(a) < at(b)
  BY <1>1, <1>2
<1>6. ASSUME NEW k \in DOMAIN s \ {i} PROVE \E j \in DOMAIN r : at(j) = k
  <2>1. CASE k < i
    BY <1>1, <1>2, <2>1
  <2>2. CASE k > i
    <3>1. k - 1 \in DOMAIN r /\ at(k - 1) = k
      BY <1>1, <1>2, <2>2
    <3> QED
      BY <3>1
  <2> QED
    BY <1>1, <2>1, <2>2
<1> HIDE DEF at
<1> QED
  BY <1>2, <1>3, <1>4, <1>5, <1>6 DEF r, at

(* The newest map of an image is the last one kept: what is left stays where *)
(* it was.                                                                   *)
LEMMA UnmapKeepsMaps ==
  ASSUME ImagesInv, OpenInv, NEW m \in DOMAIN open, MayUnmap(m), vxUnmapImagePatch(m)
  PROVE  ImagesInv' /\ OpenInv'
<1>1. PICK o, i, k : o = open[m] /\ i = o.image /\ k = o.id
  OBVIOUS
<1>2. /\ IsMap(o, i, k) /\ i \in DOMAIN images /\ k \in DOMAIN Mapped(i) /\ IsSeq(Mapped(i))
      /\ IsSeq(open) /\ IsSeq(images)
  BY <1>1 DEF OpenInv, IsMap, ImagesInv
<1> DEFINE s == Mapped(i)
           l == Len(s)
<1>3. DOMAIN s = 1..l /\ l \in Nat /\ k \in 1..l /\ DOMAIN open = 1..Len(open) /\ Len(open) \in Nat
  BY <1>2, SeqFacts
<1>4. k = l
  <2>l. l \in DOMAIN Mapped(i)
    BY <1>3
  <2> HIDE DEF l
  <2>1. PICK n \in DOMAIN open : open[n].image = i /\ open[n].id = l
    BY <1>2, <2>l DEF OpenInv
  <2>2. n <= m
    BY <1>1, <2>1 DEF MayUnmap
  <2>3. n < m => l < k
    BY <1>1, <2>1 DEF OpenInv
  <2> QED
    BY <1>1, <1>3, <2>1, <2>2, <2>3
<1>5. /\ images' = [images EXCEPT ![i].mapped = RemoveAt(@, k)]
      /\ open' = RemoveAt(open, m) /\ accesses' = accesses
  <2>1. Kept(images[open[m].image].mapped, open[m].id) = k
    BY <1>1, <1>2, KeptUnderId DEF Mapped
  <2> QED
    BY <1>1, <2>1 DEF vxUnmapImagePatch
<1> DEFINE t == RemoveAt(s, k)
<1>6. IsSeq(t) /\ DOMAIN t = 1..(l - 1) /\ \A j \in 1..(l - 1) : t[j] = s[j] /\ j # k /\ j \in 1..l
  <2>1. IsSeq(t) /\ DOMAIN t = 1..(l - 1)
        /\ \A j \in DOMAIN t : t[j] = s[IF j < k THEN j ELSE j + 1]
    BY <1>2, RemovedIsSeq
  <2> HIDE DEF t, s
  <2> QED
    BY <1>3, <1>4, <2>1
<1> HIDE DEF t
<1>7. /\ IsSeq(images') /\ DOMAIN images' = DOMAIN images
      /\ \A j \in DOMAIN images : /\ {"mapped", "external"} \subseteq DOMAIN images'[j]
                                  /\ images'[j].external = images[j].external
      /\ \A j \in DOMAIN images : Mapped(j)' = IF j = i THEN t ELSE Mapped(j)
  <2> DEFINE x == [images[i] EXCEPT !.mapped = t]
  <2>1. \A j \in DOMAIN images : {"mapped", "external"} \subseteq DOMAIN images[j]
    BY DEF ImagesInv
  <2>2. images' = [images EXCEPT ![i] = x]
    BY <1>5 DEF t, Mapped
  <2>3. x.mapped = t /\ x.external = images[i].external /\ DOMAIN x = DOMAIN images[i]
    BY <1>2, <2>1
  <2> HIDE DEF x
  <2>4. \A j \in DOMAIN images : images'[j] = IF j = i THEN x ELSE images[j]
    BY <1>2, <2>2, ChangeIsSeq
  <2>5. IsSeq(images') /\ DOMAIN images' = DOMAIN images
    BY <1>2, <2>2, ChangeIsSeq
  <2> QED
    BY <1>2, <2>1, <2>3, <2>4, <2>5 DEF Mapped
<1> HIDE DEF s, l
<1>8. ImagesInv'
  <2>1. ASSUME NEW j \in DOMAIN images
        PROVE  /\ IsSeq(Mapped(j)')
               /\ \A n \in DOMAIN Mapped(j)' :
                     /\ MapFields \subseteq DOMAIN Mapped(j)'[n]
                     /\ Mapped(j)'[n].id = n
                     /\ Mapped(j)'[n].copy \in Nat /\ Mapped(j)'[n].copy < accesses'
               /\ \A a, b \in DOMAIN Mapped(j)' : a # b => Mapped(j)'[a].copy # Mapped(j)'[b].copy
    <3>1. /\ IsSeq(Mapped(j))
          /\ \A n \in DOMAIN Mapped(j) : /\ MapFields \subseteq DOMAIN Mapped(j)[n]
                                         /\ Mapped(j)[n].id = n
                                         /\ Mapped(j)[n].copy \in Nat /\ Mapped(j)[n].copy < accesses
          /\ \A a, b \in DOMAIN Mapped(j) : a # b => Mapped(j)[a].copy # Mapped(j)[b].copy
      BY DEF ImagesInv
    <3>2. CASE j # i
      BY <1>5, <1>7, <3>1, <3>2
    <3>3. CASE j = i
      <4>1. Mapped(j)' = t /\ Mapped(j) = s
        BY <1>7, <3>3 DEF s
      <4> QED
        BY <1>3, <1>5, <1>6, <3>1, <4>1
    <3> QED
      BY <3>2, <3>3
  <2>2. accesses' \in Nat
    BY <1>5 DEF ImagesInv
  <2> QED
    BY <1>7, <2>1, <2>2 DEF ImagesInv
<1> DEFINE at(n) == IF n < m THEN n ELSE n + 1
<1>9. /\ IsSeq(open') /\ DOMAIN open' = 1..(Len(open) - 1)
      /\ \A n \in DOMAIN open' : at(n) \in DOMAIN open \ {m} /\ open'[n] = open[at(n)]
      /\ \A a, b \in DOMAIN open' : a < b => at(a) < at(b)
      /\ \A a \in DOMAIN open \ {m} : \E n \in DOMAIN open' : at(n) = a
  BY <1>2, <1>5, RemovedIsSeq
<1> HIDE DEF at
<1>10. ASSUME NEW a \in DOMAIN open \ {m}, open[a].image = i
       PROVE  open[a].id \in 1..(l - 1)
  <2>1. a \in Nat /\ m \in Nat /\ a <= m
    BY <1>1, <1>3, <1>10 DEF MayUnmap
  <2>2. open[a].id < k
    BY <1>1, <1>10, <2>1 DEF OpenInv
  <2>3. open[a].id \in 1..l
    BY <1>3, <1>10 DEF OpenInv, IsMap, s
  <2> QED
    BY <1>3, <1>4, <2>2, <2>3
<1>11. \A n \in DOMAIN open' : IsMap(open[n], open[n].image, open[n].id)'
  <2> SUFFICES ASSUME NEW n \in DOMAIN open' PROVE IsMap(open[n], open[n].image, open[n].id)'
    OBVIOUS
  <2>1. PICK a, q, j, p : /\ a \in DOMAIN open \ {m} /\ q = open[a] /\ q = open'[n]
                          /\ j = q.image /\ p = q.id
    BY <1>9
  <2>2. IsMap(q, j, p) /\ j \in DOMAIN images /\ p \in DOMAIN Mapped(j)
    <3>1. IsMap(open[a], open[a].image, open[a].id)
      BY <2>1 DEF OpenInv
    <3> QED
      BY <2>1, <3>1 DEF IsMap
  <2>3. p \in DOMAIN Mapped(j)' /\ Mapped(j)'[p] = Mapped(j)[p]
    <3>1. CASE j = i
      <4>1. p \in 1..(l - 1)
        BY <1>10, <2>1, <3>1
      <4> QED
        BY <1>6, <1>7, <2>2, <3>1, <4>1 DEF s
    <3>2. CASE j # i
      BY <1>7, <2>2, <3>2
    <3> QED
      BY <3>1, <3>2
  <2>4. j \in DOMAIN images' /\ images'[j].external = images[j].external
    BY <1>7, <2>2
  <2>5. IsMap(q, j, p)'
    BY <2>2, <2>3, <2>4 DEF IsMap
  <2> QED
    BY <2>1, <2>5
<1>12. \A a, b \in DOMAIN open' : a < b /\ open'[a].image = open'[b].image => open'[a].id < open'[b].id
  BY <1>9 DEF OpenInv
<1>13. ASSUME NEW j \in DOMAIN images, NEW n \in DOMAIN Mapped(j)'
       PROVE  \E a \in DOMAIN open' : open'[a].image = j /\ open'[a].id = n
  <2>1. n \in DOMAIN Mapped(j) /\ (j = i => n # k)
    BY <1>3, <1>6, <1>7 DEF s
  <2>2. PICK a \in DOMAIN open : open[a].image = j /\ open[a].id = n
    BY <2>1 DEF OpenInv
  <2>3. a # m
    BY <1>1, <2>1, <2>2
  <2>4. PICK b \in DOMAIN open' : at(b) = a
    BY <1>9, <2>3
  <2> QED
    BY <1>9, <2>2, <2>4
<1>14. OpenInv'
  BY <1>7, <1>9, <1>11, <1>12, <1>13 DEF OpenInv
<1> QED
  BY <1>8, <1>14

LEMMA MapsInit == ImageInit => ImagesInv /\ OpenInv
<1> SUFFICES ASSUME ImageInit PROVE ImagesInv /\ OpenInv
  OBVIOUS
<1>1. images = <<>> /\ open = <<>> /\ accesses = 0
  BY DEF ImageInit
<1>2. <<>> \in Seq({}) /\ DOMAIN <<>> = {}
  OBVIOUS
<1>3. IsSeq(<<>>)
  BY <1>2, IsSeqOf
<1> QED
  BY <1>1, <1>2, <1>3 DEF ImagesInv, OpenInv

LEMMA MapsStep ==
  ASSUME ~Anything, ImagesInv, OpenInv, [ImageNext]_(imageVars)
  PROVE  ImagesInv' /\ OpenInv'
<1>0. accesses \in Nat
  BY DEF ImagesInv
<1>1. CASE Create
  BY <1>1, CreateKeepsMaps
<1>2. CASE ExchangeHandle
  BY <1>2, SwapKeepsMaps DEF ExchangeHandle
<1>3. CASE Map
  BY <1>3, MapKeepsMaps DEF Map
<1>4. CASE Edit
  BY <1>4, EditKeepsMaps DEF Edit
<1>5. CASE Unmap
  BY <1>5, UnmapKeepsMaps DEF Unmap, Careful
<1>6. CASE Copy
  <2>1. PICK i, p, r, u : vxCopyImagePatch(i, p, r, u)
    BY <1>6 DEF Copy
  <2>2. UNCHANGED <<images, open>> /\ accesses' = accesses + 1
    BY <2>1 DEF vxCopyImagePatch, Access
  <2> QED
    BY <2>2, SameKeepsMaps
<1>7. CASE CopyPlane
  <2>1. PICK i, p : vxCopyImagePlane(i, p)
    BY <1>7 DEF CopyPlane
  <2>2. UNCHANGED <<images, open>> /\ accesses' = accesses + 1
    BY <2>1 DEF vxCopyImagePlane, Access
  <2> QED
    BY <2>2, SameKeepsMaps
<1>8. CASE Kernel
  <2>1. UNCHANGED <<images, open>> /\ accesses' = accesses + 1
    BY <1>8 DEF Kernel, KernelReads, KernelWrites, Access
  <2> QED
    BY <2>1, SameKeepsMaps
<1>9. CASE Clone
  BY <1>9, CloneKeepsMaps DEF Clone
<1>10. CASE UNCHANGED imageVars
  <2>1. UNCHANGED <<images, open>> /\ accesses' = accesses
    BY <1>10 DEF imageVars
  <2> QED
    BY <2>1, SameKeepsMaps
<1> QED
  BY <1>1, <1>2, <1>3, <1>4, <1>5, <1>6, <1>7, <1>8, <1>9, <1>10 DEF ImageNext

(* What the application wrote through a map and what it reads there is what  *)
(* the unmap of that map writes back, for any images and any number of maps  *)
(* of each, when the maps of an image are unmapped newest first.             *)
THEOREM MapsKeepTheirCopies ==
  ASSUME ~Anything
  PROVE  ImageSpec => []MapsAreKept
<1>1. ImageInit => ImagesInv /\ OpenInv
  BY MapsInit
<1>2. ImagesInv /\ OpenInv /\ [ImageNext]_(imageVars) => ImagesInv' /\ OpenInv'
  BY MapsStep
<1>3. ImagesInv /\ OpenInv => MapsAreKept
  BY InvKeepsMaps
<1> QED
  BY <1>1, <1>2, <1>3, PTL DEF ImageSpec
=============================================================================
