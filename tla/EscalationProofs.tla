-------------------------- MODULE EscalationProofs --------------------------
(* Proofs about Escalation, for any rules, workers, failures and bounds:    *)
(* copies stay bounded and stop with an acknowledgement, chains end and do  *)
(* not return to a Channel, and no state is closed without a copy or a      *)
(* reason.                                                                  *)
EXTENDS Escalation, FiniteSetTheorems, WellFoundedInduction, TLAPS

-----------------------------------------------------------------------------
(* Induction over messages: a parent is older than its copy.               *)

LEMMA LeastElement ==
    ASSUME NEW S \in SUBSET Nat, S # {}
    PROVE  \E x \in S : \A y \in S : x <= y
<1> DEFINE R == OpToRel(<, Nat)
<1>1. IsWellFoundedOn(R, Nat)
  BY NatLessThanWellFounded, Zenon
<1>2. \A x, y \in Nat : x < y => <<x, y>> \in R
  BY Zenon DEF OpToRel
<1> HIDE DEF R
<1>3. PICK x \in S : \A y \in S : <<y, x>> \notin R
  BY <1>1, WFMin, Zenon
<1>4. \A y \in S : ~(y < x)
  BY <1>2, <1>3
<1> QED  BY <1>4

Collects(f, n, parent, own, ends) ==
  f = [k \in 0..n |-> IF k = 0 \/ k \in ends THEN {} ELSE own[k] \cup f[parent[k]]]

\* A set that grows along the parents, up to where it stops, is well defined.
LEMMA ChainExists ==
    ASSUME NEW n \in Nat, NEW parent, \A k \in 1..n : parent[k] \in 0..(k - 1),
           NEW own, NEW ends
    PROVE  \E f : Collects(f, n, parent, own, ends)
<1> DEFINE Upto(j, f) == Collects(f, j, parent, own, ends)
<1> DEFINE T == {j \in 0..n : ~\E f : Upto(j, f)}
<1>1. SUFFICES ASSUME T # {} PROVE FALSE
  <2>1. n \in 0..n
    OBVIOUS
  <2> HIDE DEF Upto
  <2>2. \E f : Upto(n, f)
    BY <1>1, <2>1
  <2> QED  BY <2>2 DEF Upto
<1>2. PICK j \in T : \A i \in T : j <= i
  <2>1. T \in SUBSET Nat
    OBVIOUS
  <2> HIDE DEF T
  <2> QED  BY <1>1, <2>1, LeastElement
<1>3. CASE j = 0
  <2> DEFINE f == [k \in 0..0 |-> {}]
  <2>1. Upto(0, f)
    <3>1. \A k \in 0..0 : k = 0
      OBVIOUS
    <3> QED  BY <3>1 DEF Collects
  <2> HIDE DEF Upto, f
  <2> QED  BY <1>2, <1>3, <2>1
<1>4. CASE j # 0
  <2>1. j \in 1..n /\ j - 1 \in 0..n
    BY <1>2, <1>4
  <2>2. \E f : Upto(j - 1, f)
    <3> HIDE DEF Upto
    <3>1. j - 1 \notin T
      BY <1>2, <2>1
    <3> QED  BY <2>1, <3>1
  <2>3. PICK f : Upto(j - 1, f)
    BY <2>2
  <2> DEFINE g == [k \in 0..j |-> IF k = j THEN (IF j \in ends THEN {} ELSE own[j] \cup f[parent[j]]) ELSE f[k]]
  <2>4. \A k \in 0..(j - 1) : /\ g[k] = f[k]
                              /\ f[k] = IF k = 0 \/ k \in ends THEN {} ELSE own[k] \cup f[parent[k]]
    <3>1. \A k \in 0..(j - 1) : g[k] = f[k]
      BY <2>1
    <3>2. \A k \in 0..(j - 1) : f[k] = IF k = 0 \/ k \in ends THEN {} ELSE own[k] \cup f[parent[k]]
      <4> HIDE DEF g, T
      <4> QED  BY <2>3 DEF Collects
    <3> QED  BY <3>1, <3>2
  <2>5. g[j] = IF j \in ends THEN {} ELSE own[j] \cup f[parent[j]]
    BY <2>1
  <2>6. g = [k \in 0..j |-> g[k]]
    OBVIOUS
  <2> HIDE DEF g, T, Upto
  <2>7. \A k \in 1..j : parent[k] \in 0..(j - 1)
    BY <2>1
  <2>8. \A k \in 0..j : g[k] = IF k = 0 \/ k \in ends THEN {} ELSE own[k] \cup g[parent[k]]
    <3> SUFFICES ASSUME NEW k \in 0..j
                 PROVE  g[k] = IF k = 0 \/ k \in ends THEN {} ELSE own[k] \cup g[parent[k]]
      OBVIOUS
    <3>1. CASE k = j
      <4>1. g[parent[j]] = f[parent[j]]
        BY <2>1, <2>4, <2>7
      <4> QED  BY <2>1, <2>5, <3>1, <4>1
    <3>2. CASE k # j
      <4>1. k \in 0..(j - 1) /\ (k # 0 => k \in 1..j)
        BY <2>1, <3>2
      <4>2. k # 0 => g[parent[k]] = f[parent[k]]
        BY <2>4, <2>7, <4>1
      <4> QED  BY <2>4, <4>1, <4>2
    <3> QED  BY <3>1, <3>2
  <2>9. Upto(j, g)
    BY <2>6, <2>8 DEF Upto, Collects
  <2> QED  BY <1>2, <2>9 DEF T
<1> QED  BY <1>3, <1>4

\* The recursive functions of Ancestors and of ChainApps.
Up(ms) == CHOOSE up : up = [k \in 0..Len(ms) |-> IF k = 0 THEN {} ELSE {k} \cup up[ms[k].parent]]
UpApps(ms) == CHOOSE up : up = [k \in 0..Len(ms) |->
                              IF k = 0 \/ ~(k \in DOMAIN ms /\ ms[k].alive) THEN {} ELSE {ms[k].app} \cup up[ms[k].parent]]

LEMMA UpNames ==
    ASSUME NEW m
    PROVE  /\ Ancestors(m) = Up(msgs)[msgs[m].parent]
           /\ ChainApps(m) = {msgs[m].app} \cup UpApps(msgs)[msgs[m].parent]
BY DEF Ancestors, ChainApps, Up, UpApps, Alive

ParentsOlder(ms) == \A k \in 1..Len(ms) : ms[k].parent \in 0..(k - 1)

LEMMA UpFacts ==
    ASSUME NEW ms, Len(ms) \in Nat, ParentsOlder(ms)
    PROVE  /\ Up(ms) = [k \in 0..Len(ms) |-> IF k = 0 THEN {} ELSE {k} \cup Up(ms)[ms[k].parent]]
           /\ UpApps(ms) = [k \in 0..Len(ms) |->
                          IF k = 0 \/ ~(k \in DOMAIN ms /\ ms[k].alive) THEN {} ELSE {ms[k].app} \cup UpApps(ms)[ms[k].parent]]
<1>0. PICK n \in Nat : n = Len(ms)
  OBVIOUS
<1>1. PICK parent : parent = [k \in 1..n |-> ms[k].parent]
  OBVIOUS
<1>2. \A k \in 1..n : parent[k] = ms[k].parent /\ parent[k] \in 0..(k - 1)
  BY <1>0, <1>1 DEF ParentsOlder
<1>3. \A own, ends : \E f : Collects(f, n, parent, own, ends)
  BY <1>2, ChainExists
<1>4. \E f : f = [k \in 0..n |-> IF k = 0 THEN {} ELSE {k} \cup f[ms[k].parent]]
  <2>1. PICK own : own = [k \in 1..n |-> {k}]
    OBVIOUS
  <2>2. PICK ends : ends = {}
    OBVIOUS
  <2>3. \A f : \A k \in 0..n : (IF k = 0 \/ k \in ends THEN {} ELSE own[k] \cup f[parent[k]])
                               = (IF k = 0 THEN {} ELSE {k} \cup f[ms[k].parent])
    <3>1. \A k \in 0..n : k # 0 => own[k] = {k} /\ parent[k] = ms[k].parent
      BY <1>2, <2>1
    <3> QED  BY <2>2, <3>1
  <2>4. \A f : [k \in 0..n |-> IF k = 0 \/ k \in ends THEN {} ELSE own[k] \cup f[parent[k]]]
               = [k \in 0..n |-> IF k = 0 THEN {} ELSE {k} \cup f[ms[k].parent]]
    BY <2>3, Zenon
  <2>5. PICK f : Collects(f, n, parent, own, ends)
    BY <1>3
  <2>6. f = [k \in 0..n |-> IF k = 0 \/ k \in ends THEN {} ELSE own[k] \cup f[parent[k]]]
    BY <2>5 DEF Collects
  <2>7. f = [k \in 0..n |-> IF k = 0 THEN {} ELSE {k} \cup f[ms[k].parent]]
    BY <2>4, <2>6, Zenon
  <2> WITNESS f
  <2> QED  BY <2>7
<1>5. \E f : f = [k \in 0..n |-> IF k = 0 \/ ~(k \in DOMAIN ms /\ ms[k].alive) THEN {} ELSE {ms[k].app} \cup f[ms[k].parent]]
  <2>1. PICK own : own = [k \in 1..n |-> {ms[k].app}]
    OBVIOUS
  <2>2. PICK ends : ends = {k \in 1..n : ~(k \in DOMAIN ms /\ ms[k].alive)}
    OBVIOUS
  <2>3. \A f : \A k \in 0..n : (IF k = 0 \/ k \in ends THEN {} ELSE own[k] \cup f[parent[k]])
                               = (IF k = 0 \/ ~(k \in DOMAIN ms /\ ms[k].alive) THEN {} ELSE {ms[k].app} \cup f[ms[k].parent])
    <3>1. \A k \in 0..n : k # 0 => /\ own[k] = {ms[k].app} /\ parent[k] = ms[k].parent
                                   /\ (k \in ends <=> ~(k \in DOMAIN ms /\ ms[k].alive))
      BY <1>2, <2>1, <2>2
    <3> QED  BY <3>1
  <2>4. \A f : [k \in 0..n |-> IF k = 0 \/ k \in ends THEN {} ELSE own[k] \cup f[parent[k]]]
               = [k \in 0..n |-> IF k = 0 \/ ~(k \in DOMAIN ms /\ ms[k].alive) THEN {} ELSE {ms[k].app} \cup f[ms[k].parent]]
    BY <2>3, Zenon
  <2>5. PICK f : Collects(f, n, parent, own, ends)
    BY <1>3
  <2>6. f = [k \in 0..n |-> IF k = 0 \/ k \in ends THEN {} ELSE own[k] \cup f[parent[k]]]
    BY <2>5 DEF Collects
  <2>7. f = [k \in 0..n |-> IF k = 0 \/ ~(k \in DOMAIN ms /\ ms[k].alive) THEN {} ELSE {ms[k].app} \cup f[ms[k].parent]]
    BY <2>4, <2>6, Zenon
  <2> WITNESS f
  <2> QED  BY <2>7
<1> QED  BY <1>0, <1>4, <1>5 DEF Up, UpApps

LEMMA UpAt ==
    ASSUME NEW ms, Len(ms) \in Nat, ParentsOlder(ms), NEW k \in 0..Len(ms)
    PROVE  /\ Up(ms)[k] = IF k = 0 THEN {} ELSE {k} \cup Up(ms)[ms[k].parent]
           /\ UpApps(ms)[k] = IF k = 0 \/ ~(k \in DOMAIN ms /\ ms[k].alive) THEN {}
                              ELSE {ms[k].app} \cup UpApps(ms)[ms[k].parent]
BY UpFacts

\* The ancestors of a message are older; those of the messages there are do not
\* change when others are stored.
LEMMA UpRange ==
    ASSUME NEW ms, Len(ms) \in Nat, ParentsOlder(ms)
    PROVE  \A k \in 0..Len(ms) : Up(ms)[k] \subseteq 1..k
<1> DEFINE T == {k \in 0..Len(ms) : ~(Up(ms)[k] \subseteq 1..k)}
<1>1. SUFFICES ASSUME T # {} PROVE FALSE
  OBVIOUS
<1>2. PICK k \in T : \A i \in T : k <= i
  <2>1. T \in SUBSET Nat
    OBVIOUS
  <2> HIDE DEF T
  <2> QED  BY <1>1, <2>1, LeastElement
<1>3. Up(ms)[k] = IF k = 0 THEN {} ELSE {k} \cup Up(ms)[ms[k].parent]
  <2> HIDE DEF T
  <2>1. k \in 0..Len(ms)
    BY DEF T
  <2> QED  BY <2>1, UpAt
<1>4. CASE k = 0
  BY <1>3, <1>4
<1>5. CASE k # 0
  <2>1. k \in 1..Len(ms) /\ ms[k].parent \in 0..(k - 1)
    BY <1>5 DEF ParentsOlder
  <2>2. ms[k].parent \in 0..Len(ms) /\ ms[k].parent \notin T
    BY <1>2, <2>1
  <2>3. Up(ms)[ms[k].parent] \subseteq 1..ms[k].parent
    BY <2>2
  <2>4. 1..ms[k].parent \subseteq 1..k
    BY <2>1
  <2>5. Up(ms)[k] \subseteq 1..k
    BY <1>3, <1>5, <2>1, <2>3, <2>4
  <2> QED  BY <2>5
<1> QED  BY <1>4, <1>5

LEMMA UpGrows ==
    ASSUME NEW ms, NEW longer, Len(ms) \in Nat, ParentsOlder(ms),
           Len(longer) \in Nat, ParentsOlder(longer),
           Len(ms) <= Len(longer), \A k \in 1..Len(ms) : longer[k].parent = ms[k].parent
    PROVE  \A k \in 0..Len(ms) : Up(longer)[k] = Up(ms)[k]
<1> DEFINE T == {k \in 0..Len(ms) : Up(longer)[k] # Up(ms)[k]}
<1>1. SUFFICES ASSUME T # {} PROVE FALSE
  OBVIOUS
<1>2. PICK k \in T : \A i \in T : k <= i
  <2>1. T \in SUBSET Nat
    OBVIOUS
  <2> HIDE DEF T
  <2> QED  BY <1>1, <2>1, LeastElement
<1>3. k \in 0..Len(ms) /\ k \in 0..Len(longer)
  OBVIOUS
<1>4. Up(ms)[k] = IF k = 0 THEN {} ELSE {k} \cup Up(ms)[ms[k].parent]
  <2> HIDE DEF T
  <2> QED  BY <1>3, UpAt
<1>5. Up(longer)[k] = IF k = 0 THEN {} ELSE {k} \cup Up(longer)[longer[k].parent]
  <2> HIDE DEF T
  <2> QED  BY <1>3, UpAt
<1>6. k # 0 => k \in 1..Len(ms) /\ ms[k].parent \in 0..(k - 1)
  BY <1>3 DEF ParentsOlder
<1>7. k # 0 => ms[k].parent \in 0..Len(ms) /\ ms[k].parent \notin T
  BY <1>2, <1>3, <1>6
<1> QED  BY <1>4, <1>5, <1>6, <1>7

\* escalationWouldCycle sees the Channels of the ancestors while they are alive.
LEMMA UpAppsCover ==
    ASSUME NEW ms, Len(ms) \in Nat, ParentsOlder(ms)
    PROVE  \A k \in 0..Len(ms) :
             (\A a \in Up(ms)[k] : ms[a].alive) => \A a \in Up(ms)[k] : ms[a].app \in UpApps(ms)[k]
<1> DEFINE P(k) == (\A a \in Up(ms)[k] : ms[a].alive) => \A a \in Up(ms)[k] : ms[a].app \in UpApps(ms)[k]
<1> DEFINE T == {k \in 0..Len(ms) : ~P(k)}
<1>1. SUFFICES ASSUME T # {} PROVE FALSE
  OBVIOUS
<1>2. PICK k \in T : \A i \in T : k <= i
  <2>1. T \in SUBSET Nat
    OBVIOUS
  <2> HIDE DEF T
  <2> QED  BY <1>1, <2>1, LeastElement
<1>3. k \in 0..Len(ms)
  OBVIOUS
<1>4. /\ Up(ms)[k] = IF k = 0 THEN {} ELSE {k} \cup Up(ms)[ms[k].parent]
      /\ UpApps(ms)[k] = IF k = 0 \/ ~(k \in DOMAIN ms /\ ms[k].alive) THEN {} ELSE {ms[k].app} \cup UpApps(ms)[ms[k].parent]
  <2> HIDE DEF T
  <2> QED  BY <1>3, UpAt
<1>5. CASE k = 0
  BY <1>4, <1>5
<1>6. CASE k # 0
  <2>1. k \in 1..Len(ms) /\ ms[k].parent \in 0..(k - 1)
    BY <1>3, <1>6 DEF ParentsOlder
  <2>2. ms[k].parent \in 0..Len(ms) /\ ms[k].parent \notin T
    BY <1>2, <1>3, <2>1
  <2>3. P(ms[k].parent)
    BY <2>2
  <2>4. DOMAIN ms = 1..Len(ms) => P(k)
    BY <1>4, <1>6, <2>1, <2>3 
  <2> QED  BY <2>4
<1> QED  BY <1>5, <1>6
-----------------------------------------------------------------------------
(* The invariants, each proved from the ones before it.                    *)

MsgRows == [app : Apps, prio : Nat, parent : Nat, root : Nat, depth : Nat,
            rule : RuleIds \cup {0}, key : {NoKey} \cup (StateIds \X Nat), alive : BOOLEAN]
StateRows == [due : Nat, count : Nat, completed : BOOLEAN]
Items == [id : StateIds, st : StateRows, rule : RuleDefs \cup {NoRule}, child : Nat]

Waiting  == {"idle", "next"}                           \* no state in work
Checking == {"ack", "ackRoot", "rule"}                 \* the rule is not read yet
Ruled    == {"resolve", "store", "deliver", "chain"}   \* the rule is read
Stored   == {"deliver", "chain"}                       \* the copy is stored
InWork(w) == pc[w] \notin Waiting

MsgsTyped ==
    /\ msgs \in Seq(MsgRows)
    /\ \A k \in 1..Len(msgs) : msgs[k].parent \in 0..(k - 1)
    /\ \A k \in 1..Len(msgs) :
         IF msgs[k].key = NoKey
         THEN msgs[k].rule = 0 /\ msgs[k].parent = 0 /\ msgs[k].depth = 0
         ELSE msgs[k].rule = msgs[k].key[1][1] /\ msgs[k].parent = msgs[k].key[1][2]
    /\ publishing \subseteq 1..Len(msgs)

TablesTyped ==
    /\ clock \in Nat
    /\ rules \in [RuleIds -> RuleDefs \cup {NoRule}]
    /\ states \in [StateIds -> StateRows \cup {NoState}]
    /\ \A s \in StateIds : states[s] # NoState => s[2] \in 1..Len(msgs)

TurnsTyped ==
    /\ pc \in [Workers -> Waiting \cup Checking \cup Ruled \cup {"save"}]
    /\ now \in [Workers -> Nat]
    /\ todo \in [Workers -> SUBSET Items]
    /\ cur \in [Workers -> Items \cup {NoItem}]
    /\ \A w \in Workers : \A item \in todo[w] : item.id[2] \in 1..Len(msgs)
    /\ \A w \in Workers :
         /\ InWork(w) => cur[w] \in Items /\ cur[w].id[2] \in 1..Len(msgs)
         /\ pc[w] \in Ruled => cur[w].rule \in RuleDefs
         /\ pc[w] \in Stored => cur[w].child \in 1..Len(msgs)

Typed == MsgsTyped /\ TablesTyped /\ TurnsTyped

\* A state exists only where queueEscalations found depth and chain in order,
\* by a rule that was enabled, or could not load the chain.
Chain(m) == {m} \cup Ancestors(m)
Clear(m, rule) ==
    rule.kind = "channel" => \/ \E a \in Chain(m) : ~msgs[a].alive
                             \/ \A a \in Chain(m) : msgs[a].app # rule.target
Escalates(s) ==
    /\ s[2] \in 1..Len(msgs)
    /\ msgs[s[2]].depth < MaxDepth
    /\ s[1] \notin touched => /\ rules[s[1]] \in RuleDefs /\ rules[s[1]].enabled
                              /\ \/ Clear(s[2], rules[s[1]])
                                 \/ <<"parent", s>> \in misled

MsgsEscalate ==
    \A k \in 1..Len(msgs) :
        /\ msgs[k].depth <= MaxDepth
        /\ msgs[k].key # NoKey =>
             /\ Escalates(msgs[k].key[1])
             /\ msgs[k].rule \notin touched => msgs[k].app = rules[msgs[k].rule].target

WorkEscalates ==
    /\ \A s \in StateIds : states[s] # NoState => Escalates(s)
    /\ \A w \in Workers : \A item \in todo[w] : Escalates(item.id)
    /\ \A w \in Workers : InWork(w) => Escalates(cur[w].id)
    /\ \A w \in Workers : pc[w] \in Ruled /\ cur[w].id[1] \notin touched
                             => cur[w].rule = rules[cur[w].id[1]]

Chained == MsgsEscalate /\ WorkEscalates

\* A count stands for the copies of all lower counts, and stays below the
\* maximum of the rule until the state is completed.
IsStored(s, n) == \E k \in 1..Len(msgs) : msgs[k].key = <<s, n>>
Behind(s, n) == \A i \in Nat : i < n => IsStored(s, i)
Room(s, n) == s[1] \notin touched => n < MaxCopies(rules[s[1]])
Counted(s, st) == Behind(s, st.count) /\ (st.completed \/ Room(s, st.count))

MsgsCounted ==
    /\ \A k \in 1..Len(msgs) :
         msgs[k].key # NoKey => LET s == msgs[k].key[1]
                                    n == msgs[k].key[2]
                                IN  Behind(s, n) /\ Room(s, n)
    /\ \A i, j \in 1..Len(msgs) :
         i < j /\ msgs[i].key # NoKey /\ msgs[i].key = msgs[j].key => ~msgs[i].alive

WorkCounted ==
    /\ \A s \in StateIds : states[s] # NoState => Counted(s, states[s])
    /\ \A w \in Workers : \A item \in todo[w] : Counted(item.id, item.st) /\ ~item.st.completed
    /\ \A w \in Workers : InWork(w) => Counted(cur[w].id, cur[w].st)
    /\ \A w \in Workers : pc[w] \in Checking \cup Ruled => ~cur[w].st.completed
    /\ \A w \in Workers : pc[w] \in Stored => IsStored(cur[w].id, cur[w].st.count)

CopiesCounted == MsgsCounted /\ WorkCounted

\* Of the late copies of a state at most one is the first with its count: a turn
\* past its look at the acknowledgement has no higher count.
Dead == {k \in 1..Len(msgs) : ~msgs[k].alive}
First(l) == \A k \in 1..Len(msgs) : k < l => msgs[k].key # msgs[l].key
PastCheck(w, q) ==
    cur[w].id = q[1] /\ pc[w] \in {"rule", "resolve", "store"}
                                     \cup (IF q[2] = "message" THEN {"ackRoot"} ELSE {})

AcksSettled ==
    /\ deleted \in Nat /\ Cardinality(Dead) = deleted
    /\ \A u \in Users, k \in Nat : <<u, k>> \in acks => k \in everAcked
    /\ late \in [LateKeys -> SUBSET (1..Len(msgs))]
LateOK(q) ==
    /\ late[q] # {} => q[1][2] \in 1..Len(msgs) /\ AckedBy(q[2], q[1][2])
    /\ \A l \in late[q] : msgs[l].key # NoKey /\ msgs[l].key[1] = q[1]
    /\ \A l \in late[q] : First(l) =>
         /\ \A k \in late[q] : First(k) => k = l
         /\ \A w \in Workers : PastCheck(w, q) => cur[w].st.count <= msgs[l].key[2]
LateSettled == AcksSettled /\ \A q \in LateKeys : LateOK(q)

\* A state that is closed without a copy has an excuse.
Reasoned(s, st) == st.completed /\ st.count = 0 => Excused(s)
WorkReasoned ==
    /\ \A s \in StateIds : states[s] # NoState => Reasoned(s, states[s])
    /\ \A w \in Workers : InWork(w) => Reasoned(cur[w].id, cur[w].st)
-----------------------------------------------------------------------------
(* Types.                                                                  *)

LEMMA Shapes ==
    /\ \A d \in RuleDefs : /\ d.source \in Apps /\ d.target \in Apps /\ d.enabled \in BOOLEAN
                           /\ d.delay \in Nat /\ d.repeat \in Nat /\ d.maxRepeats \in Nat
                           /\ d # NoRule
    /\ \A d \in RuleDefs \cup {NoRule} : d.enabled => d \in RuleDefs
    /\ \A st \in StateRows : /\ st # NoState
                             /\ st.due \in Nat /\ st.count \in Nat /\ st.completed \in BOOLEAN
    /\ \A item \in Items : /\ item.id \in StateIds /\ item.st \in StateRows
                           /\ item.rule \in RuleDefs \cup {NoRule} /\ item.child \in Nat
    /\ \A s \in StateIds, n \in Nat : <<s, n>> # NoKey
    /\ MaxMessages \in Nat /\ MaxDepth \in Nat
<1>1. \A d \in RuleDefs : /\ d.source \in Apps /\ d.target \in Apps /\ d.enabled \in BOOLEAN
                          /\ d.delay \in Nat /\ d.repeat \in Nat /\ d.maxRepeats \in Nat
  BY EscalationAssumption
<1>2. \A d \in RuleDefs : d # NoRule
  <2>1. DOMAIN NoRule = {"enabled"}
    BY DEF NoRule
  <2>2. \A d \in RuleDefs : "source" \in DOMAIN d
    BY EscalationAssumption
  <2> QED  BY <2>1, <2>2
<1>3. ~NoRule.enabled
  BY DEF NoRule
<1>4. \A st \in StateRows : st # NoState
  <2>1. DOMAIN NoState = {"completed"}
    BY DEF NoState
  <2>2. \A st \in StateRows : "due" \in DOMAIN st
    BY DEF StateRows
  <2> QED  BY <2>1, <2>2
<1>5. \A st \in StateRows : st.due \in Nat /\ st.count \in Nat /\ st.completed \in BOOLEAN
  BY DEF StateRows
<1>6. \A item \in Items : /\ item.id \in StateIds /\ item.st \in StateRows
                          /\ item.rule \in RuleDefs \cup {NoRule} /\ item.child \in Nat
  BY DEF Items
<1>7. \A s \in StateIds, n \in Nat : <<s, n>> # NoKey
  BY DEF NoKey
<1>8. MaxMessages \in Nat /\ MaxDepth \in Nat
  BY EscalationAssumption
<1> QED  BY <1>1, <1>2, <1>3, <1>4, <1>5, <1>6, <1>7, <1>8

LEMMA InitTyped == Init => Typed
<1> SUFFICES ASSUME Init PROVE Typed
  OBVIOUS
<1>1. MsgsTyped
  BY DEF Init, MsgsTyped
<1>2. TablesTyped
  BY Shapes DEF Init, TablesTyped
<1>3. TurnsTyped
  BY DEF Init, TurnsTyped, InWork, Waiting, Checking, Ruled, Stored
<1> QED  BY <1>1, <1>2, <1>3 DEF Typed

\* A row that is stored has the type of a row.
LEMMA Appended ==
    ASSUME MsgsTyped, NEW x \in MsgRows, msgs' = Append(msgs, x),
           x.parent \in 0..Len(msgs), publishing' \subseteq 1..(Len(msgs) + 1),
           IF x.key = NoKey THEN x.rule = 0 /\ x.parent = 0 /\ x.depth = 0
           ELSE x.rule = x.key[1][1] /\ x.parent = x.key[1][2]
    PROVE  /\ MsgsTyped'
           /\ Len(msgs') = Len(msgs) + 1 /\ msgs'[Len(msgs) + 1] = x
           /\ \A k \in 1..Len(msgs) : msgs'[k] = msgs[k]
<1>1. msgs' \in Seq(MsgRows) /\ Len(msgs) \in Nat /\ Len(msgs') = Len(msgs) + 1
  BY DEF MsgsTyped
<1>2. msgs'[Len(msgs) + 1] = x /\ \A k \in 1..Len(msgs) : msgs'[k] = msgs[k]
  BY DEF MsgsTyped
<1>3. \A k \in 1..Len(msgs') : k \in 1..Len(msgs) \/ k = Len(msgs) + 1
  BY <1>1
<1> QED  BY <1>1, <1>2, <1>3 DEF MsgsTyped

\* What queueEscalations inserts: states of the rules that match, against the
\* chain only where a parent could not be loaded.
Misread(m, r) == r \notin Queued(m) => <<"parent", <<r, m>>>> \in misled'

LEMMA QueueInserts ==
    ASSUME NEW m, queueEscalations(m)
    PROVE  /\ misled \subseteq misled'
           /\ \E rs \in SUBSET Matching(m) : Insert(m, rs) /\ \A r \in rs : Misread(m, r)
<1>1. Queued(m) \subseteq Matching(m) /\ Unseen(m) \subseteq Matching(m)
  BY DEF Queued, Unseen
<1>2. ASSUME NEW rs \in SUBSET Queued(m), Insert(m, rs), UNCHANGED misled
      PROVE  /\ misled \subseteq misled'
             /\ \E qs \in SUBSET Matching(m) : Insert(m, qs) /\ \A r \in qs : Misread(m, r)
  BY <1>1, <1>2 DEF Misread
<1>3. ASSUME NEW rs \in SUBSET Unseen(m), Insert(m, rs),
             misled' = misled \cup ({"parent"} \X ((rs \ Queued(m)) \X {m}))
      PROVE  /\ misled \subseteq misled'
             /\ \E qs \in SUBSET Matching(m) : Insert(m, qs) /\ \A r \in qs : Misread(m, r)
  <2>1. \A r \in rs : Misread(m, r)
    BY <1>3 DEF Misread
  <2> QED  BY <1>1, <1>3, <2>1
<1> QED  BY <1>2, <1>3 DEF queueEscalations

\* A state enters the table by queueEscalations, for a message that is there.
LEMMA QueueTyped ==
    ASSUME Typed, NEW m \in 1..Len(msgs), queueEscalations(m), UNCHANGED <<clock, msgs, rules>>
    PROVE  TablesTyped'
<1>1. PICK rs \in SUBSET Matching(m) : Insert(m, rs)
  BY QueueInserts
<1>2. \A r \in rs : rules[r] \in RuleDefs /\ rules[r].delay \in Nat
  BY Shapes DEF Matching, Typed, TablesTyped
<1>3. \A s \in StateIds : s[2] = m /\ s[1] \in rs => State(clock + rules[s[1]].delay, 0, FALSE) \in StateRows
  BY <1>2 DEF State, StateRows, Typed, TablesTyped
<1>4. states' \in [StateIds -> StateRows \cup {NoState}]
  BY <1>1, <1>3 DEF Insert, Typed, TablesTyped
<1>5. \A s \in StateIds : states'[s] # NoState => s[2] \in 1..Len(msgs)
  BY <1>1 DEF Insert, Typed, TablesTyped
<1> QED  BY <1>4, <1>5 DEF Typed, TablesTyped
LEMMA RowFacts ==
    ASSUME MsgsTyped
    PROVE  /\ Len(msgs) \in Nat /\ DOMAIN msgs = 1..Len(msgs)
           /\ \A k \in 1..Len(msgs) :
                /\ msgs[k] \in MsgRows
                /\ msgs[k].app \in Apps /\ msgs[k].prio \in Nat /\ msgs[k].parent \in Nat
                /\ msgs[k].root \in Nat /\ msgs[k].depth \in Nat
                /\ msgs[k].rule \in RuleIds \cup {0} /\ msgs[k].alive \in BOOLEAN
                /\ msgs[k].key \in {NoKey} \cup (StateIds \X Nat)
<1>1. Len(msgs) \in Nat /\ DOMAIN msgs = 1..Len(msgs) /\ \A k \in 1..Len(msgs) : msgs[k] \in MsgRows
  BY DEF MsgsTyped
<1>2. \A x \in MsgRows : /\ x.app \in Apps /\ x.prio \in Nat /\ x.parent \in Nat
                         /\ x.root \in Nat /\ x.depth \in Nat
                         /\ x.rule \in RuleIds \cup {0} /\ x.alive \in BOOLEAN
                         /\ x.key \in {NoKey} \cup (StateIds \X Nat)
  BY DEF MsgRows
<1> QED  BY <1>1, <1>2

LEMMA StoredTyped ==
    ASSUME Typed, NEW w \in Workers, pc[w] = "store", StoreNew(w), UNCHANGED publishing
    PROVE  /\ Child(w) \in MsgRows
           /\ MsgsTyped'
           /\ Len(msgs') = Len(msgs) + 1 /\ msgs'[Len(msgs) + 1] = Child(w)
           /\ \A k \in 1..Len(msgs) : msgs'[k] = msgs[k]
<1>1. /\ cur[w] \in Items /\ cur[w].id \in StateIds /\ cur[w].id[2] \in 1..Len(msgs)
      /\ cur[w].st.count \in Nat /\ cur[w].rule \in RuleDefs /\ cur[w].rule.target \in Apps
      /\ cur[w].id[1] \in RuleIds
  BY Shapes DEF Typed, TurnsTyped, InWork, Waiting, Checking, Ruled, StateIds
<1>2. /\ Len(msgs) \in Nat /\ msgs[cur[w].id[2]].prio \in Nat
      /\ msgs[cur[w].id[2]].depth + 1 \in Nat
      /\ RootOf(cur[w].id[2]) \in Nat /\ cur[w].id[2] \in Nat
  BY <1>1, RowFacts DEF Typed, RootOf
<1>3. Child(w) \in MsgRows
  <2>1. <<cur[w].id, cur[w].st.count>> \in StateIds \X Nat
    BY <1>1
  <2> QED  BY <1>1, <1>2, <2>1 DEF Child, MsgRows
<1>4. /\ Child(w).key # NoKey /\ Child(w).parent \in 0..Len(msgs)
      /\ Child(w).rule = Child(w).key[1][1] /\ Child(w).parent = Child(w).key[1][2]
  BY <1>1, <1>2, Shapes DEF Child
<1>5. msgs' = Append(msgs, Child(w)) /\ publishing' \subseteq 1..(Len(msgs) + 1)
  BY <1>2 DEF StoreNew, Typed, MsgsTyped
<1> HIDE DEF Child
<1> QED  BY <1>3, <1>4, <1>5, Appended DEF Typed

\* The steps that delete rules.
LEMMA RulesDropped ==
    ASSUME \/ \E r \in RuleIds : DeleteEscalationRule(r)
           \/ \E a \in Apps : DeleteApplicationByID(a)
    PROVE  \E rs \in SUBSET RuleIds : DropRules(rs)
<1>1. ASSUME NEW r \in RuleIds, DeleteEscalationRule(r) PROVE \E rs \in SUBSET RuleIds : DropRules(rs)
  <2>1. {r} \in SUBSET RuleIds /\ DropRules({r})
    BY <1>1 DEF DeleteEscalationRule
  <2> QED  BY <2>1
<1>2. ASSUME NEW a \in Apps, DeleteApplicationByID(a) PROVE \E rs \in SUBSET RuleIds : DropRules(rs)
  <2>1. Naming(a) \in SUBSET RuleIds /\ DropRules(Naming(a))
    BY <1>2 DEF DeleteApplicationByID, Naming
  <2> QED  BY <2>1
<1> QED  BY <1>1, <1>2

LEMMA TypedMsgs ==
    ASSUME Typed, [Next]_vars
    PROVE  MsgsTyped' /\ Len(msgs) <= Len(msgs')
<1> USE DEF Typed
<1>0. Len(msgs) \in Nat /\ DOMAIN msgs = 1..Len(msgs)
  BY DEF MsgsTyped
<1>1. ASSUME UNCHANGED msgs, publishing' \subseteq publishing PROVE MsgsTyped' /\ Len(msgs) <= Len(msgs')
  BY <1>0, <1>1 DEF MsgsTyped
<1>2. ASSUME NEW a \in Apps, NEW p \in Priorities, Publish(a, p)
      PROVE  MsgsTyped' /\ Len(msgs) <= Len(msgs')
  <2>1. PICK x : x = [app |-> a, prio |-> p, parent |-> 0, root |-> 0, depth |-> 0,
                      rule |-> 0, key |-> NoKey, alive |-> TRUE]
    OBVIOUS
  <2>2. /\ x \in MsgRows /\ x.parent \in 0..Len(msgs) /\ x.key = NoKey
        /\ x.rule = 0 /\ x.parent = 0 /\ x.depth = 0
    BY <1>0, <2>1, EscalationAssumption DEF MsgRows
  <2>3. msgs' = Append(msgs, x)
    BY <1>2, <2>1 DEF Publish
  <2>4. publishing' \subseteq 1..(Len(msgs) + 1)
    <3>1. publishing' = publishing \cup {Len(msgs) + 1} /\ publishing \subseteq 1..Len(msgs)
      BY <1>2 DEF Publish, MsgsTyped
    <3>2. Len(msgs) + 1 \in 1..(Len(msgs) + 1) /\ 1..Len(msgs) \subseteq 1..(Len(msgs) + 1)
      BY <1>0
    <3> QED  BY <3>1, <3>2
  <2> QED  BY <1>0, <2>2, <2>3, <2>4, Appended
<1>3. ASSUME NEW m \in 1..Len(msgs), DeleteMessage(m)
      PROVE  MsgsTyped' /\ Len(msgs) <= Len(msgs')
  <2>1. /\ msgs' = [msgs EXCEPT ![m] = [msgs[m] EXCEPT !.alive = FALSE]]
        /\ publishing' = publishing
    BY <1>3 DEF DeleteMessage
  <2>2. PICK x : x = [msgs[m] EXCEPT !.alive = FALSE]
    OBVIOUS
  <2>3. /\ x \in MsgRows /\ x.key = msgs[m].key /\ x.parent = msgs[m].parent
        /\ x.rule = msgs[m].rule /\ x.depth = msgs[m].depth
    <3>1. \A y \in MsgRows : LET z == [y EXCEPT !.alive = FALSE]
                            IN  /\ z \in MsgRows /\ z.key = y.key /\ z.parent = y.parent
                                /\ z.rule = y.rule /\ z.depth = y.depth
      BY DEF MsgRows
    <3>2. PICK y \in MsgRows : y = msgs[m]
      BY RowFacts
    <3>3. x = [y EXCEPT !.alive = FALSE]
      BY <2>2, <3>2
    <3> QED  BY <3>1, <3>2, <3>3, Zenon
  <2>4. /\ msgs' \in Seq(MsgRows) /\ Len(msgs') = Len(msgs)
        /\ \A k \in 1..Len(msgs) : msgs'[k] = IF k = m THEN x ELSE msgs[k]
    BY <2>1, <2>2, <2>3 DEF MsgsTyped
  <2>5. \A k \in 1..Len(msgs) : /\ msgs'[k].key = msgs[k].key /\ msgs'[k].parent = msgs[k].parent
                                /\ msgs'[k].rule = msgs[k].rule /\ msgs'[k].depth = msgs[k].depth
    BY <2>3, <2>4
  <2> HIDE DEF Typed
  <2> QED  BY <1>0, <2>1, <2>4, <2>5 DEF MsgsTyped, Typed
<1>5. ASSUME UNCHANGED <<msgs, publishing>> PROVE MsgsTyped' /\ Len(msgs) <= Len(msgs')
  BY <1>1, <1>5
<1>4. ASSUME NEW w \in Workers, Turn(w) \/ Crash(w)
      PROVE  MsgsTyped' /\ Len(msgs) <= Len(msgs')
  <2>1. CASE CreateMessageOnce(w)
    <3>1. CASE StoreNew(w)
      BY <1>0, <2>1, <3>1, StoredTyped DEF CreateMessageOnce
    <3>2. CASE ~StoreNew(w)
      BY <1>1, <2>1, <3>2 DEF CreateMessageOnce, StoreDuplicate, StoreError
    <3> QED  BY <3>1, <3>2
  <2>2. CASE ~CreateMessageOnce(w)
    <3>1. CASE GetSource(w) \/ CheckSourceAck(w) \/ CheckRootAck(w) \/ Deliver(w)
      BY <1>5, <3>1 DEF GetSource, CheckSourceAck, CheckRootAck, CheckAck, Deliver, TurnOnly, TurnKeeps, dbVars
    <3>2. CASE GetEscalationRuleByID(w) \/ ResolveEscalationTargetApplication(w)
      BY <1>5, <3>2 DEF GetEscalationRuleByID, ResolveEscalationTargetApplication, TurnOnly, TurnKeeps, dbVars
    <3>3. CASE GetDueEscalations(w) \/ QueueChain(w) \/ SaveEscalationState(w)
      BY <1>5, <3>3 DEF GetDueEscalations, QueueChain, SaveEscalationState, dbVars
    <3>4. CASE EndTurn(w) \/ Crash(w)
      BY <1>5, <3>4 DEF EndTurn, Crash, Idle, dbVars
    <3> QED  BY <1>4, <2>2, <3>1, <3>2, <3>3, <3>4 DEF Turn
  <2> QED  BY <2>1, <2>2
<1>6. ASSUME NEW m \in publishing, PublishQueue(m) \/ PublishFails(m)
      PROVE  MsgsTyped' /\ Len(msgs) <= Len(msgs')
  BY <1>1, <1>6 DEF PublishQueue, PublishFails, dbVars
<1>7. ASSUME NEW u \in Users, NEW m \in DOMAIN msgs, AcknowledgeMessage(u, m) \/ UnacknowledgeMessage(u, m)
      PROVE  MsgsTyped' /\ Len(msgs) <= Len(msgs')
  BY <1>5, <1>7 DEF AcknowledgeMessage, UnacknowledgeMessage
<1>8. ASSUME NEW r \in RuleIds, NEW def \in RuleDefs, CreateEscalation(r, def) \/ UpdateEscalation(r, def)
      PROVE  MsgsTyped' /\ Len(msgs) <= Len(msgs')
  BY <1>5, <1>8 DEF CreateEscalation, UpdateEscalation, SaveEscalationRule
<1>9. ASSUME (\E r \in RuleIds, def \in RuleDefs : UpdateRead(r, def)) \/ (\E rs \in SUBSET RuleIds : DropRules(rs))
      PROVE  MsgsTyped' /\ Len(msgs) <= Len(msgs')
  BY <1>5, <1>9 DEF UpdateRead, DropRules, dbVars
<1>10. CASE ClockTick
  BY <1>5, <1>10 DEF ClockTick, dbVars
<1>11. CASE UNCHANGED vars
  BY <1>5, <1>11 DEF vars, dbVars
<1> QED  BY <1>0, <1>2, <1>3, <1>4, <1>6, <1>7, <1>8, <1>9, <1>10, <1>11, RulesDropped DEF Next
\* A step of a turn that leaves the tables as they are.
TurnKeepsTables(w) ==
    \/ GetDueEscalations(w) \/ GetSource(w) \/ CheckSourceAck(w) \/ CheckRootAck(w)
    \/ GetEscalationRuleByID(w) \/ ResolveEscalationTargetApplication(w)
    \/ CreateMessageOnce(w) \/ Deliver(w) \/ EndTurn(w) \/ Crash(w)

LEMMA TablesKept ==
    ASSUME NEW w, TurnKeepsTables(w)
    PROVE  UNCHANGED <<clock, rules, states>>
<1>1. CASE GetSource(w) \/ CheckSourceAck(w) \/ CheckRootAck(w) \/ Deliver(w)
  BY <1>1 DEF GetSource, CheckSourceAck, CheckRootAck, CheckAck, Deliver, TurnOnly, TurnKeeps, dbVars
<1>2. CASE GetEscalationRuleByID(w) \/ ResolveEscalationTargetApplication(w)
  BY <1>2 DEF GetEscalationRuleByID, ResolveEscalationTargetApplication, TurnOnly, TurnKeeps, dbVars
<1>3. CASE GetDueEscalations(w) \/ CreateMessageOnce(w)
  BY <1>3 DEF GetDueEscalations, CreateMessageOnce, dbVars
<1>4. CASE EndTurn(w) \/ Crash(w)
  BY <1>4 DEF EndTurn, Crash, Idle, dbVars
<1> QED  BY <1>1, <1>2, <1>3, <1>4 DEF TurnKeepsTables

LEMMA TypedTables ==
    ASSUME Typed, [Next]_vars
    PROVE  TablesTyped'
<1>0. /\ Len(msgs) \in Nat /\ Len(msgs') \in Nat /\ Len(msgs) <= Len(msgs')
      /\ 1..Len(msgs) \subseteq 1..Len(msgs') /\ DOMAIN msgs = 1..Len(msgs)
  <2>1. Len(msgs) \in Nat /\ Len(msgs') \in Nat /\ Len(msgs) <= Len(msgs')
    BY TypedMsgs DEF Typed, MsgsTyped
  <2>2. 1..Len(msgs) \subseteq 1..Len(msgs')
    BY <2>1
  <2> QED  BY <2>1, <2>2, RowFacts DEF Typed
<1>1. ASSUME UNCHANGED <<clock, rules, states>> PROVE TablesTyped'
  BY <1>0, <1>1 DEF Typed, TablesTyped
<1>2. ASSUME NEW a \in Apps, NEW p \in Priorities, Publish(a, p) PROVE TablesTyped'
  BY <1>1, <1>2 DEF Publish
<1>3. ASSUME NEW m \in publishing, PublishQueue(m) \/ PublishFails(m) PROVE TablesTyped'
  <2>1. CASE PublishQueue(m)
    <3>1. m \in 1..Len(msgs) /\ queueEscalations(m) /\ UNCHANGED <<clock, msgs, rules>>
      BY <1>3, <2>1 DEF PublishQueue, Typed, MsgsTyped
    <3> QED  BY <3>1, QueueTyped
  <2>2. CASE PublishFails(m)
    BY <1>1, <2>2 DEF PublishFails, dbVars
  <2> QED  BY <1>3, <2>1, <2>2
<1>4. ASSUME NEW m \in DOMAIN msgs, DeleteMessage(m) PROVE TablesTyped'
  <2>1. /\ clock' = clock /\ rules' = rules
        /\ states' = [s \in StateIds |-> IF s[2] = m THEN NoState ELSE states[s]]
    BY <1>4 DEF DeleteMessage
  <2> QED  BY <1>0, <2>1 DEF Typed, TablesTyped
<1>5. ASSUME NEW u \in Users, NEW m \in DOMAIN msgs, AcknowledgeMessage(u, m) \/ UnacknowledgeMessage(u, m)
      PROVE  TablesTyped'
  BY <1>1, <1>5 DEF AcknowledgeMessage, UnacknowledgeMessage
<1>6. ASSUME NEW r \in RuleIds, NEW def \in RuleDefs, CreateEscalation(r, def) \/ UpdateEscalation(r, def)
      PROVE  TablesTyped'
  <2>1. rules' = [rules EXCEPT ![r] = def] /\ UNCHANGED <<clock, msgs, states>>
    BY <1>6 DEF CreateEscalation, UpdateEscalation, SaveEscalationRule
  <2> QED  BY <1>0, <2>1 DEF Typed, TablesTyped
<1>7. ASSUME NEW r \in RuleIds, NEW def \in RuleDefs, UpdateRead(r, def) PROVE TablesTyped'
  BY <1>1, <1>7 DEF UpdateRead, dbVars
<1>8. ASSUME NEW rs \in SUBSET RuleIds, DropRules(rs) PROVE TablesTyped'
  <2>1. /\ rules' = [r \in RuleIds |-> IF r \in rs THEN NoRule ELSE rules[r]] /\ UNCHANGED <<clock, msgs>>
        /\ states' = [s \in StateIds |-> IF s[1] \in rs THEN NoState ELSE states[s]]
    BY <1>8 DEF DropRules
  <2> QED  BY <1>0, <2>1 DEF Typed, TablesTyped
<1>9. ASSUME NEW w \in Workers, Turn(w) \/ Crash(w) PROVE TablesTyped'
  <2>1. CASE QueueChain(w)
    <3>1. cur[w].child \in 1..Len(msgs)
      BY <2>1 DEF QueueChain, Typed, TurnsTyped, Stored
    <3>2. queueEscalations(cur[w].child) /\ UNCHANGED <<clock, msgs, rules>>
      BY <2>1 DEF QueueChain
    <3> QED  BY <3>1, <3>2, QueueTyped
  <2>2. CASE SaveEscalationState(w)
    <3>1. cur[w] \in Items /\ cur[w].id[2] \in 1..Len(msgs)
      BY <2>2 DEF SaveEscalationState, Typed, TurnsTyped, InWork, Waiting
    <3>2. cur[w].id \in StateIds /\ cur[w].st \in StateRows
      BY <3>1, Shapes
    <3>3. UNCHANGED <<clock, msgs, rules>> /\ states' \in {states, [states EXCEPT ![cur[w].id] = cur[w].st]}
      BY <2>2 DEF SaveEscalationState
    <3> QED  BY <1>0, <3>1, <3>2, <3>3 DEF Typed, TablesTyped
  <2>3. CASE TurnKeepsTables(w)
    BY <1>1, <2>3, TablesKept
  <2> QED  BY <1>9, <2>1, <2>2, <2>3 DEF Turn, TurnKeepsTables
<1>10. CASE ClockTick
  BY <1>0, <1>10 DEF ClockTick, dbVars, Typed, TablesTyped
<1>11. CASE UNCHANGED vars
  BY <1>1, <1>11 DEF vars, dbVars
<1> QED  BY <1>2, <1>3, <1>4, <1>5, <1>6, <1>7, <1>8, <1>9, <1>10, <1>11, RulesDropped DEF Next


-----------------------------------------------------------------------------
(* What a call of a turn does to the turn itself.                          *)

Becomes(w, p, st, rule, child) ==
    /\ pc'[w] = p
    /\ cur'[w] = [id |-> cur[w].id, st |-> st, rule |-> rule, child |-> child]
    /\ todo'[w] = todo[w]

Closed(st) == [due |-> st.due, count |-> st.count, completed |-> TRUE]

Fetches(w) ==
    /\ pc[w] = "idle" /\ pc'[w] = "next" /\ cur'[w] = cur[w]
    /\ \A item \in todo'[w] : \E s \in StateIds : Pending(s) /\ item = Item(s, states[s])
Drops(w) == pc'[w] \in Waiting /\ cur'[w] = NoItem /\ todo'[w] \subseteq todo[w]
Takes(w) ==
    /\ pc[w] = "next" /\ todo'[w] \subseteq todo[w]
    /\ \E item \in todo[w] :
         \/ Alive(item.id[2]) /\ pc'[w] = "ack" /\ cur'[w] = item
         \/ /\ Alive(item.id[2]) => <<"source", item.id>> \in misled'
            /\ pc'[w] = "save"
            /\ cur'[w] = [id |-> item.id, st |-> Closed(item.st), rule |-> item.rule,
                          child |-> item.child]
Goes(w) ==
    /\ cur'[w] = cur[w] /\ todo'[w] = todo[w]
    /\ LET m == cur[w].id[2]
       IN  \/ /\ pc[w] = "ack" /\ ~IsMessageAcknowledged(m)
              /\ pc'[w] = IF RootOf(m) = m THEN "rule" ELSE "ackRoot"
           \/ pc[w] = "ackRoot" /\ ~IsMessageAcknowledged(RootOf(m)) /\ pc'[w] = "rule"
           \/ pc[w] = "resolve" /\ pc'[w] = "store"
           \/ pc[w] = "deliver" /\ pc'[w] = "chain"
Cancels(w) ==
    /\ pc[w] \in Checking
    /\ Becomes(w, "save", Closed(cur[w].st), cur[w].rule, cur[w].child)
    /\ \/ pc[w] = "ack" /\ IsMessageAcknowledged(cur[w].id[2])
       \/ pc[w] = "ackRoot" /\ IsMessageAcknowledged(RootOf(cur[w].id[2]))
       \/ pc[w] = "rule" /\ (rules[cur[w].id[1]].enabled => <<"rule", cur[w].id>> \in misled')
ReadsRule(w) ==
    /\ pc[w] = "rule" /\ rules[cur[w].id[1]].enabled
    /\ Becomes(w, "resolve", cur[w].st, rules[cur[w].id[1]], cur[w].child)
Stores(w) ==
    /\ pc[w] = "store" /\ StoreNew(w)
    /\ Becomes(w, "deliver", cur[w].st, cur[w].rule, Len(msgs) + 1)
Advances(w) ==
    /\ pc[w] \in {"store", "deliver", "chain"} /\ (pc[w] = "store" => StoredKey(Child(w).key))
    /\ Becomes(w, "save", Advanced(cur[w].st, cur[w].rule, now[w]), cur[w].rule, cur[w].child)
    
Move(w) == \/ Fetches(w) \/ Drops(w) \/ Takes(w) \/ Goes(w) \/ Cancels(w) \/ ReadsRule(w)
           \/ Stores(w) \/ Advances(w)

LEMMA ItemUpdates ==
    ASSUME NEW item \in Items
    PROVE  /\ item = [id |-> item.id, st |-> item.st, rule |-> item.rule, child |-> item.child]
           /\ [item EXCEPT !.st.completed = TRUE]
              = [id |-> item.id, st |-> Closed(item.st), rule |-> item.rule, child |-> item.child]
           /\ [item.st EXCEPT !.completed = TRUE] = Closed(item.st)
           /\ \A st : [item EXCEPT !.st = st]
              = [id |-> item.id, st |-> st, rule |-> item.rule, child |-> item.child]
           /\ \A rule : [item EXCEPT !.rule = rule]
              = [id |-> item.id, st |-> item.st, rule |-> rule, child |-> item.child]
           /\ \A child : [item EXCEPT !.child = child]
              = [id |-> item.id, st |-> item.st, rule |-> item.rule, child |-> child]
<1>0. \A st \in StateRows : [st EXCEPT !.completed = TRUE] = Closed(st)
  <2> SUFFICES ASSUME NEW st \in StateRows PROVE [st EXCEPT !.completed = TRUE] = Closed(st)
    OBVIOUS
  <2>2. PICK d \in Nat, c \in Nat, b \in BOOLEAN : st = [due |-> d, count |-> c, completed |-> b]
    BY DEF StateRows
  <2>3. \E z : z = [st EXCEPT !.completed = TRUE]
    OBVIOUS
  <2>4. PICK z : z = [st EXCEPT !.completed = TRUE]
    BY <2>3
  <2>5. /\ z = [k \in {"due", "count", "completed"} |-> z[k]]
        /\ z.due = d /\ z.count = c /\ z.completed = TRUE
    BY <2>2, <2>4
  <2>6. z = [due |-> d, count |-> c, completed |-> TRUE]
    BY <2>5
  <2> QED  BY <2>2, <2>4, <2>6 DEF Closed
<1>1. [item.st EXCEPT !.completed = TRUE] = Closed(item.st)
  <2>1. item.st \in StateRows
    BY Shapes
  <2> QED  BY <1>0, <2>1, Zenon
<1>3. \A st : [item EXCEPT !.st = st]
            = [id |-> item.id, st |-> st, rule |-> item.rule, child |-> item.child]
  BY DEF Items
<1>4. \A rule : [item EXCEPT !.rule = rule]
            = [id |-> item.id, st |-> item.st, rule |-> rule, child |-> item.child]
  BY DEF Items
<1>5. \A child : [item EXCEPT !.child = child]
            = [id |-> item.id, st |-> item.st, rule |-> item.rule, child |-> child]
  BY DEF Items
<1>6. item = [id |-> item.id, st |-> item.st, rule |-> item.rule, child |-> item.child]
  BY DEF Items
<1>2. [item EXCEPT !.st.completed = TRUE] = [item EXCEPT !.st = [item.st EXCEPT !.completed = TRUE]]
  OBVIOUS
<1> QED  BY <1>1, <1>2, <1>3, <1>4, <1>5, <1>6

\* The item of w is changed, the other turns are not.
LEMMA SavesAs ==
    ASSUME Typed, NEW w \in Workers, InWork(w), NEW st, SaveAs(w, st), UNCHANGED todo
    PROVE  Becomes(w, "save", st, cur[w].rule, cur[w].child)
<1>1. cur[w] \in Items /\ cur \in [Workers -> Items \cup {NoItem}]
      /\ pc \in [Workers -> Waiting \cup Checking \cup Ruled \cup {"save"}]
  BY DEF Typed, TurnsTyped
<1>2. cur'[w] = [cur[w] EXCEPT !.st = st] /\ pc'[w] = "save"
  BY <1>1 DEF SaveAs, Goto
<1> QED  BY <1>1, <1>2, ItemUpdates DEF Becomes
Untouched(v) == pc'[v] = pc[v] /\ now'[v] = now[v] /\ todo'[v] = todo[v] /\ cur'[v] = cur[v]

\* A call of one turn leaves the other turns alone.
KeepsOthers(w) ==
    /\ \A v \in Workers : v # w => Untouched(v)
    /\ pc' = [v \in Workers |-> pc'[v]] /\ now' = [v \in Workers |-> now'[v]]
    /\ todo' = [v \in Workers |-> todo'[v]] /\ cur' = [v \in Workers |-> cur'[v]]
    /\ now'[w] \in {now[w], clock, 0}

Changes(w, p, n, l, c) ==
    /\ n \in {now[w], clock, 0}
    /\ pc' = [pc EXCEPT ![w] = p] /\ now' = [now EXCEPT ![w] = n]
    /\ todo' \in {todo, [todo EXCEPT ![w] = l]} /\ cur' \in {cur, [cur EXCEPT ![w] = c]}

LEMMA Changed ==
    ASSUME Typed, NEW w \in Workers, NEW p, NEW n, NEW l, NEW c, Changes(w, p, n, l, c)
    PROVE  KeepsOthers(w)
<1>1. /\ pc = [v \in Workers |-> pc[v]] /\ now = [v \in Workers |-> now[v]]
      /\ todo = [v \in Workers |-> todo[v]] /\ cur = [v \in Workers |-> cur[v]]
  BY DEF Typed, TurnsTyped
<1> QED  BY <1>1 DEF KeepsOthers, Untouched, Changes

LEMMA Alone ==
    ASSUME Typed, NEW w \in Workers, Turn(w) \/ Crash(w)
    PROVE  KeepsOthers(w)
<1>5. now = [now EXCEPT ![w] = now[w]]
  BY DEF Typed, TurnsTyped
<1>6. ASSUME NEW p, NEW l, NEW c, Goto(w, p), UNCHANGED now,
             todo' \in {todo, [todo EXCEPT ![w] = l]}, cur' \in {cur, [cur EXCEPT ![w] = c]}
      PROVE  KeepsOthers(w)
  <2>1. Changes(w, p, now[w], l, c)
    BY <1>5, <1>6 DEF Changes, Goto
  <2> QED  BY <2>1, Changed
<1>7. ASSUME NextItem(w), UNCHANGED <<todo, now>> PROVE KeepsOthers(w)
  BY <1>6, <1>7 DEF NextItem
<1>8. ASSUME NEW st, SaveAs(w, st), UNCHANGED <<todo, now>> PROVE KeepsOthers(w)
  BY <1>6, <1>8 DEF SaveAs
<1>9. ASSUME NEW p, Goto(w, p), UNCHANGED <<todo, now, cur>> PROVE KeepsOthers(w)
  BY <1>6, <1>9
<1>10. ASSUME Idle(w) PROVE KeepsOthers(w)
  <2>1. Changes(w, "idle", 0, {}, NoItem)
    BY <1>10 DEF Changes, Idle, Goto
  <2> QED  BY <2>1, Changed
<1>11. CASE GetDueEscalations(w)
  <2>1. PICK l : todo' = [todo EXCEPT ![w] = l]
    BY <1>11 DEF GetDueEscalations
  <2>2. Changes(w, "next", clock, l, cur[w])
    BY <1>11, <2>1 DEF Changes, GetDueEscalations, Goto
  <2> QED  BY <2>2, Changed
<1>12. CASE GetSource(w)
  <2>1. PICK item \in todo[w] :
          /\ todo' = [todo EXCEPT ![w] = @ \ {item}]
          /\ \/ Goto(w, "ack") /\ cur' = [cur EXCEPT ![w] = item]
             \/ Goto(w, "save") /\ cur' = [cur EXCEPT ![w] = [item EXCEPT !.st.completed = TRUE]]
    BY <1>12, Zenon DEF GetSource
  <2> QED  BY <1>6, <1>12, <2>1 DEF GetSource, TurnKeeps
<1>13. ASSUME NEW m, NEW next, CheckAck(w, m, next) PROVE KeepsOthers(w)
  BY <1>7, <1>8, <1>9, <1>13 DEF CheckAck, Cancel, TurnOnly, TurnKeeps
<1>14. CASE CheckSourceAck(w) \/ CheckRootAck(w)
  BY <1>13, <1>14 DEF CheckSourceAck, CheckRootAck
<1>15. CASE GetEscalationRuleByID(w)
  <2>1. CASE Cancel(w)
    BY <1>8, <1>15, <2>1 DEF GetEscalationRuleByID, TurnKeeps, Cancel
  <2>2. CASE ~Cancel(w)
    <3>1. PICK c : cur' = [cur EXCEPT ![w] = c]
      BY <1>15, <2>2 DEF GetEscalationRuleByID
    <3> QED  BY <1>6, <1>15, <2>2, <3>1 DEF GetEscalationRuleByID, TurnKeeps
  <2> QED  BY <2>1, <2>2
<1>16. CASE ResolveEscalationTargetApplication(w)
  BY <1>7, <1>9, <1>16 DEF ResolveEscalationTargetApplication, TurnOnly, TurnKeeps
<1>17. CASE CreateMessageOnce(w)
  <2>1. CASE StoreNew(w)
    <3>1. PICK c : cur' = [cur EXCEPT ![w] = c]
      BY <2>1 DEF StoreNew
    <3> QED  BY <1>6, <1>17, <2>1, <3>1 DEF CreateMessageOnce, StoreNew
  <2>2. CASE StoreDuplicate(w) \/ StoreError(w)
    BY <1>7, <1>8, <1>17, <2>2 DEF CreateMessageOnce, StoreDuplicate, StoreError, AdvanceItem
  <2> QED  BY <1>17, <2>1, <2>2 DEF CreateMessageOnce
<1>18. CASE Deliver(w)
  BY <1>7, <1>8, <1>9, <1>18 DEF Deliver, AdvanceItem, TurnOnly, TurnKeeps
<1>19. CASE QueueChain(w)
  BY <1>8, <1>19 DEF QueueChain, AdvanceItem
<1>20. CASE SaveEscalationState(w)
  BY <1>7, <1>20 DEF SaveEscalationState
<1>21. CASE EndTurn(w) \/ Crash(w)
  BY <1>10, <1>21 DEF EndTurn, Crash
<1> QED  BY <1>11, <1>12, <1>14, <1>15, <1>16, <1>17, <1>18, <1>19, <1>20, <1>21 DEF Turn

LEMMA Moves ==
    ASSUME Typed, NEW w \in Workers, Turn(w) \/ Crash(w)
    PROVE  Move(w)
<1>0. /\ pc \in [Workers -> Waiting \cup Checking \cup Ruled \cup {"save"}]
      /\ cur \in [Workers -> Items \cup {NoItem}] /\ todo \in [Workers -> SUBSET Items]
      /\ InWork(w) => cur[w] \in Items
  BY DEF Typed, TurnsTyped
<1> USE DEF Waiting, Checking, Ruled, InWork
<1>1. ASSUME NextItem(w), UNCHANGED todo PROVE Drops(w)
  BY <1>0, <1>1 DEF NextItem, Goto, Drops
<1>2. ASSUME Cancel(w), InWork(w), UNCHANGED todo
      PROVE  Becomes(w, "save", Closed(cur[w].st), cur[w].rule, cur[w].child)
  <2>1. PICK item \in Items : item = cur[w]
    BY <1>0, <1>2
  <2>2. [item.st EXCEPT !.completed = TRUE] = Closed(item.st)
    BY ItemUpdates
  <2>3. SaveAs(w, Closed(cur[w].st))
    BY <1>2, <2>1, <2>2 DEF Cancel
  <2> QED  BY <1>2, <2>3, SavesAs
<1>3. ASSUME AdvanceItem(w), InWork(w), UNCHANGED todo
      PROVE  Becomes(w, "save", Advanced(cur[w].st, cur[w].rule, now[w]), cur[w].rule, cur[w].child)
  BY <1>0, <1>3, SavesAs DEF AdvanceItem
<1>4. ASSUME NEW p, Goto(w, p) PROVE pc'[w] = p
  BY <1>0, <1>4 DEF Goto
<1>5. CASE GetDueEscalations(w)
  <2>1. /\ pc[w] = "idle" /\ pc'[w] = "next" /\ cur'[w] = cur[w]
        /\ todo'[w] = {Item(s, states[s]) : s \in {s \in StateIds : Pending(s) /\ states[s].due <= clock}}
    BY <1>0, <1>4, <1>5 DEF GetDueEscalations
  <2> QED  BY <2>1 DEF Move, Fetches
<1>6. CASE GetSource(w)
  <2>1. PICK item \in todo[w] :
          /\ todo' = [todo EXCEPT ![w] = @ \ {item}]
          /\ \/ Alive(item.id[2]) /\ Goto(w, "ack") /\ cur' = [cur EXCEPT ![w] = item]
             \/ /\ IF Alive(item.id[2]) THEN FailsOn("source", item.id) ELSE Succeeds
                /\ Goto(w, "save")
                /\ cur' = [cur EXCEPT ![w] = [item EXCEPT !.st.completed = TRUE]]
    BY <1>6, Zenon DEF GetSource
  <2>2. pc[w] = "next" /\ todo'[w] \subseteq todo[w] /\ item \in Items
    BY <1>0, <1>6, <2>1 DEF GetSource
  <2>3. CASE Alive(item.id[2]) /\ Goto(w, "ack") /\ cur' = [cur EXCEPT ![w] = item]
    <3>1. Alive(item.id[2]) /\ pc'[w] = "ack" /\ cur'[w] = item
      BY <1>0, <1>4, <2>3
    <3> QED  BY <2>2, <3>1 DEF Move, Takes
  <2>4. CASE /\ IF Alive(item.id[2]) THEN FailsOn("source", item.id) ELSE Succeeds
             /\ Goto(w, "save")
             /\ cur' = [cur EXCEPT ![w] = [item EXCEPT !.st.completed = TRUE]]
    <3>1. cur'[w] = [item EXCEPT !.st.completed = TRUE]
      BY <1>0, <2>4
    <3>2. /\ Alive(item.id[2]) => <<"source", item.id>> \in misled'
          /\ pc'[w] = "save"
          /\ cur'[w] = [id |-> item.id, st |-> Closed(item.st), rule |-> item.rule, child |-> item.child]
      BY <1>4, <2>2, <2>4, <3>1, ItemUpdates DEF FailsOn
    <3> QED  BY <2>2, <3>2 DEF Move, Takes
  <2> QED  BY <2>1, <2>3, <2>4
<1>7. CASE CheckSourceAck(w)
  <2>1. PICK m : m = cur[w].id[2]
    OBVIOUS
  <2>2. PICK next : next = IF RootOf(m) = m THEN "rule" ELSE "ackRoot"
    OBVIOUS
  <2>3. pc[w] = "ack" /\ CheckAck(w, m, next)
    BY <1>7, <2>1, <2>2 DEF CheckSourceAck
  <2>4. CASE IsMessageAcknowledged(m) /\ Cancel(w)
    BY <1>2, <2>1, <2>3, <2>4 DEF CheckAck, Move, Cancels
  <2>5. CASE ~IsMessageAcknowledged(m) /\ Goto(w, next) /\ UNCHANGED cur
    BY <1>4, <2>1, <2>2, <2>3, <2>5 DEF CheckAck, Move, Goes
  <2>6. CASE NextItem(w)
    BY <1>1, <2>3, <2>6 DEF CheckAck, Move
  <2> QED  BY <2>3, <2>4, <2>5, <2>6 DEF CheckAck
<1>8. CASE CheckRootAck(w)
  <2>1. PICK m : m = RootOf(cur[w].id[2])
    OBVIOUS
  <2>3. pc[w] = "ackRoot" /\ CheckAck(w, m, "rule")
    BY <1>8, <2>1 DEF CheckRootAck
  <2>4. CASE IsMessageAcknowledged(m) /\ Cancel(w)
    BY <1>2, <2>1, <2>3, <2>4 DEF CheckAck, Move, Cancels
  <2>5. CASE ~IsMessageAcknowledged(m) /\ Goto(w, "rule") /\ UNCHANGED cur
    BY <1>4, <2>1, <2>3, <2>5 DEF CheckAck, Move, Goes
  <2>6. CASE NextItem(w)
    BY <1>1, <2>3, <2>6 DEF CheckAck, Move
  <2> QED  BY <2>3, <2>4, <2>5, <2>6 DEF CheckAck
<1>9. CASE GetEscalationRuleByID(w)
  <2>1. PICK rule : rule = rules[cur[w].id[1]]
    OBVIOUS
  <2>2. /\ pc[w] = "rule" /\ UNCHANGED todo
        /\ \/ rule.enabled /\ Goto(w, "resolve") /\ cur' = [cur EXCEPT ![w].rule = rule]
           \/ (rule.enabled => <<"rule", cur[w].id>> \in misled') /\ Cancel(w)
    BY <1>9, <2>1 DEF GetEscalationRuleByID, FailsOn
  <2>3. CASE rule.enabled /\ Goto(w, "resolve") /\ cur' = [cur EXCEPT ![w].rule = rule]
    <3>1. cur'[w] = [cur[w] EXCEPT !.rule = rule] /\ pc'[w] = "resolve"
      BY <1>0, <1>4, <2>3
    <3>2. cur[w] \in Items
      BY <1>0, <2>2
    <3>3. cur'[w] = [id |-> cur[w].id, st |-> cur[w].st, rule |-> rule, child |-> cur[w].child]
      BY <3>1, <3>2, ItemUpdates
    <3> QED  BY <2>1, <2>2, <2>3, <3>1, <3>3 DEF Move, ReadsRule, Becomes
  <2>4. CASE (rule.enabled => <<"rule", cur[w].id>> \in misled') /\ Cancel(w)
    BY <1>2, <2>1, <2>2, <2>4 DEF Move, Cancels
  <2> QED  BY <2>2, <2>3, <2>4
<1>10. CASE ResolveEscalationTargetApplication(w)
  <2>1. CASE Goto(w, "store") /\ UNCHANGED cur
    BY <1>4, <1>10, <2>1 DEF ResolveEscalationTargetApplication, Move, Goes
  <2>2. CASE NextItem(w)
    BY <1>1, <1>10, <2>2 DEF ResolveEscalationTargetApplication, Move
  <2> QED  BY <1>10, <2>1, <2>2 DEF ResolveEscalationTargetApplication
<1>11. CASE CreateMessageOnce(w)
  <2>0. pc[w] = "store" /\ UNCHANGED todo /\ cur[w] \in Items
    BY <1>0, <1>11 DEF CreateMessageOnce
  <2>1. CASE StoreNew(w)
    <3>1. Goto(w, "deliver") /\ cur' = [cur EXCEPT ![w].child = Len(msgs) + 1]
      BY <2>1 DEF StoreNew
    <3>2. cur'[w] = [cur[w] EXCEPT !.child = Len(msgs) + 1] /\ pc'[w] = "deliver"
      BY <1>0, <1>4, <3>1
    <3>3. Becomes(w, "deliver", cur[w].st, cur[w].rule, Len(msgs) + 1)
      BY <2>0, <3>2, ItemUpdates DEF Becomes
    <3> QED  BY <2>0, <2>1, <3>3 DEF Move, Stores
  <2>2. CASE StoreDuplicate(w)
    BY <1>3, <2>0, <2>2 DEF StoreDuplicate, Move, Advances
  <2>3. CASE StoreError(w)
    BY <1>1, <2>0, <2>3 DEF StoreError, Move
  <2> QED  BY <1>11, <2>1, <2>2, <2>3 DEF CreateMessageOnce
<1>12. CASE Deliver(w)
  <2>0. pc[w] = "deliver" /\ UNCHANGED todo
    BY <1>12 DEF Deliver
  <2>1. CASE Goto(w, "chain") /\ UNCHANGED cur
    BY <1>4, <2>0, <2>1 DEF Move, Goes
  <2>2. CASE AdvanceItem(w)
    BY <1>3, <2>0, <2>2 DEF Move, Advances
  <2>3. CASE NextItem(w)
    BY <1>1, <2>0, <2>3 DEF Move
  <2> QED  BY <1>12, <2>1, <2>2, <2>3 DEF Deliver
<1>13. CASE QueueChain(w)
  BY <1>3, <1>13 DEF QueueChain, Move, Advances
<1>14. CASE SaveEscalationState(w)
  BY <1>1, <1>14 DEF SaveEscalationState, Move
<1>15. CASE EndTurn(w) \/ Crash(w)
  BY <1>0, <1>15 DEF EndTurn, Crash, Idle, Goto, Move, Drops
<1> QED  BY <1>5, <1>6, <1>7, <1>8, <1>9, <1>10, <1>11, <1>12, <1>13, <1>14, <1>15 DEF Turn
-----------------------------------------------------------------------------

WorkerTyped(w) ==
    /\ pc[w] \in Waiting \cup Checking \cup Ruled \cup {"save"}
    /\ now[w] \in Nat /\ todo[w] \in SUBSET Items /\ cur[w] \in Items \cup {NoItem}
    /\ \A item \in todo[w] : item.id[2] \in 1..Len(msgs)
    /\ InWork(w) => cur[w] \in Items /\ cur[w].id[2] \in 1..Len(msgs)
    /\ pc[w] \in Ruled => cur[w].rule \in RuleDefs
    /\ pc[w] \in Stored => cur[w].child \in 1..Len(msgs)

LEMMA WorkersTyped ==
    TurnsTyped <=> /\ pc = [v \in Workers |-> pc[v]] /\ now = [v \in Workers |-> now[v]]
                   /\ todo = [v \in Workers |-> todo[v]] /\ cur = [v \in Workers |-> cur[v]]
                   /\ \A w \in Workers : WorkerTyped(w)
BY DEF TurnsTyped, WorkerTyped

LEMMA AdvancedType ==
    ASSUME NEW st \in StateRows, NEW rule \in RuleDefs, NEW t \in Nat
    PROVE  /\ Advanced(st, rule, t) \in StateRows /\ Closed(st) \in StateRows
           /\ Advanced(st, rule, t).count = st.count + 1
           /\ ~Advanced(st, rule, t).completed => rule.repeat > 0 /\ st.count + 1 <= rule.maxRepeats
<1>1. /\ st.due \in Nat /\ st.count \in Nat /\ rule.repeat \in Nat /\ rule.maxRepeats \in Nat
  BY Shapes
<1>2. CASE rule.repeat > 0 /\ st.count + 1 <= rule.maxRepeats
  <2>1. Advanced(st, rule, t) = [due |-> t + rule.repeat, count |-> st.count + 1, completed |-> FALSE]
    BY <1>2 DEF Advanced, State
  <2> QED  BY <1>1, <1>2, <2>1 DEF StateRows, Closed
<1>3. CASE ~(rule.repeat > 0 /\ st.count + 1 <= rule.maxRepeats)
  <2>1. Advanced(st, rule, t) = [due |-> st.due, count |-> st.count + 1, completed |-> TRUE]
    BY <1>3 DEF Advanced, State
  <2> QED  BY <1>1, <2>1 DEF StateRows, Closed
<1> QED  BY <1>2, <1>3

LEMMA TypedMove ==
    ASSUME Typed, NEW w \in Workers, Turn(w) \/ Crash(w), [Next]_vars
    PROVE  WorkerTyped(w)'
<1>0. /\ Len(msgs) \in Nat /\ 1..Len(msgs) \subseteq 1..Len(msgs')
  <2>1. Len(msgs) \in Nat /\ Len(msgs') \in Nat /\ Len(msgs) <= Len(msgs')
    BY TypedMsgs DEF Typed, MsgsTyped
  <2> QED  BY <2>1
<1>1. WorkerTyped(w) /\ now'[w] \in Nat
  <2>1. WorkerTyped(w) /\ clock \in Nat
    BY WorkersTyped DEF Typed, TablesTyped
  <2>2. now'[w] \in {now[w], clock, 0}
    BY Alone DEF KeepsOthers
  <2> QED  BY <2>1, <2>2 DEF WorkerTyped
<1>2. \A item \in Items : item.id \in StateIds /\ item.st \in StateRows /\ item.child \in Nat
                          /\ item.rule \in RuleDefs \cup {NoRule}
  BY Shapes
<1>3. ASSUME NEW p \in {"save"} \cup Ruled, NEW st \in StateRows,
             NEW rule \in RuleDefs \cup {NoRule}, p \in Ruled => rule \in RuleDefs, 
             NEW child \in Nat, p \in Stored => child \in 1..Len(msgs'),
             InWork(w), Becomes(w, p, st, rule, child)
      PROVE  WorkerTyped(w)'
  <2>1. cur[w] \in Items /\ cur[w].id \in StateIds /\ cur[w].id[2] \in 1..Len(msgs')
    BY <1>0, <1>1, <1>2, <1>3 DEF WorkerTyped
  <2>2. PICK c : c = [id |-> cur[w].id, st |-> st, rule |-> rule, child |-> child]
    OBVIOUS
  <2>3. c \in Items /\ c.id = cur[w].id /\ c.rule = rule /\ c.child = child
    BY <1>3, <2>1, <2>2 DEF Items
  <2>4. cur'[w] = c /\ pc'[w] = p /\ todo'[w] = todo[w]
    BY <1>3, <2>2 DEF Becomes
  <2>5. \A item \in todo'[w] : item.id[2] \in 1..Len(msgs')
    BY <1>0, <1>1, <2>4 DEF WorkerTyped
  <2> QED  BY <1>1, <1>3, <2>1, <2>3, <2>4, <2>5 DEF WorkerTyped
<1>4. CASE Fetches(w)
  <2>1. ASSUME NEW item \in todo'[w] PROVE item \in Items /\ item.id[2] \in 1..Len(msgs')
    <3>1. PICK s \in StateIds : Pending(s) /\ item = Item(s, states[s])
      BY <1>4, <2>1 DEF Fetches
    <3>2. states[s] \in StateRows /\ s[2] \in 1..Len(msgs')
      BY <1>0, <3>1 DEF Pending, Typed, TablesTyped
    <3> QED  BY <3>1, <3>2 DEF Item, Items
  <2> QED  BY <1>1, <1>4, <2>1 DEF Fetches, WorkerTyped, InWork, Waiting, Ruled, Stored
<1>5. CASE Drops(w)
  BY <1>0, <1>1, <1>5 DEF Drops, WorkerTyped, InWork, Waiting, Ruled, Stored
<1>6. CASE Takes(w)
  <2>1. PICK item \in todo[w] :
         \/ Alive(item.id[2]) /\ pc'[w] = "ack" /\ cur'[w] = item
         \/ /\ Alive(item.id[2]) => <<"source", item.id>> \in misled'
            /\ pc'[w] = "save"
            /\ cur'[w] = [id |-> item.id, st |-> Closed(item.st), rule |-> item.rule,
                          child |-> item.child]
    BY <1>6 DEF Takes
  <2>2. /\ item \in Items /\ item.id[2] \in 1..Len(msgs') /\ todo'[w] \subseteq todo[w]
        /\ \A i \in todo'[w] : i.id[2] \in 1..Len(msgs')
    BY <1>0, <1>1, <1>6 DEF Takes, WorkerTyped
  <2>3. item.id \in StateIds /\ Closed(item.st) \in StateRows /\ item.child \in Nat
        /\ item.rule \in RuleDefs \cup {NoRule}
    BY <1>2, <2>2, Shapes DEF Closed, StateRows
  <2>4. cur'[w] \in Items /\ cur'[w].id = item.id
    BY <2>1, <2>2, <2>3 DEF Items
  <2>5. pc'[w] \in {"ack", "save"}
    BY <2>1
  <2> QED  BY <1>1, <2>2, <2>4, <2>5 DEF WorkerTyped, InWork, Waiting, Checking, Ruled, Stored
<1>7. CASE Goes(w)
  BY <1>0, <1>1, <1>7 DEF Goes, WorkerTyped, InWork, Waiting, Checking, Ruled, Stored
<1>8. CASE Cancels(w)
  <2>1. InWork(w) /\ cur[w] \in Items
    BY <1>1, <1>8 DEF Cancels, WorkerTyped, InWork, Waiting, Checking
  <2>2. Closed(cur[w].st) \in StateRows
    BY <1>2, <2>1, Shapes DEF Closed, StateRows
  <2> QED  BY <1>2, <1>3, <1>8, <2>1, <2>2 DEF Cancels, Ruled, Stored
<1>9. CASE ReadsRule(w)
  <2>1. InWork(w) /\ cur[w] \in Items /\ cur[w].id[1] \in RuleIds
    BY <1>1, <1>2, <1>9 DEF ReadsRule, WorkerTyped, InWork, Waiting, StateIds
  <2>2. rules[cur[w].id[1]] \in RuleDefs
    BY <1>9, <2>1, Shapes DEF ReadsRule, Typed, TablesTyped
  <2> QED  BY <1>2, <1>3, <1>9, <2>1, <2>2 DEF ReadsRule, Ruled, Stored
<1>10. CASE Stores(w)
  <2>1. InWork(w) /\ cur[w] \in Items /\ cur[w].rule \in RuleDefs
    BY <1>1, <1>10 DEF Stores, WorkerTyped, InWork, Waiting, Ruled
  <2>2. Len(msgs) + 1 \in 1..Len(msgs')
    BY <1>0, <1>10 DEF Stores, StoreNew, Typed, MsgsTyped
  <2> QED  BY <1>0, <1>2, <1>3, <1>10, <2>1, <2>2 DEF Stores, Ruled, Stored
<1>11. CASE Advances(w)
  <2>1. InWork(w) /\ cur[w] \in Items /\ cur[w].rule \in RuleDefs /\ now[w] \in Nat
    BY <1>1, <1>11 DEF Advances, WorkerTyped, InWork, Waiting, Ruled
  <2>2. Advanced(cur[w].st, cur[w].rule, now[w]) \in StateRows
    BY <1>2, <2>1, AdvancedType
  <2> QED  BY <1>2, <1>3, <1>11, <2>1, <2>2 DEF Advances, Ruled, Stored
<1> QED  BY <1>4, <1>5, <1>6, <1>7, <1>8, <1>9, <1>10, <1>11, Moves DEF Move

LEMMA TypedTurns ==
    ASSUME Typed, [Next]_vars
    PROVE  TurnsTyped'
<1>0. 1..Len(msgs) \subseteq 1..Len(msgs')
  <2>1. Len(msgs) \in Nat /\ Len(msgs') \in Nat /\ Len(msgs) <= Len(msgs')
    BY TypedMsgs DEF Typed, MsgsTyped
  <2> QED  BY <2>1
<1>1. ASSUME NEW v \in Workers, Untouched(v) PROVE WorkerTyped(v)'
  <2>1. WorkerTyped(v)
    BY WorkersTyped DEF Typed
  <2> QED  BY <1>0, <1>1, <2>1 DEF WorkerTyped, Untouched, InWork
<1>2. ASSUME UNCHANGED turnVars PROVE TurnsTyped'
  <2>1. \A v \in Workers : WorkerTyped(v)'
    BY <1>1, <1>2 DEF Untouched, turnVars
  <2>2. TurnsTyped
    BY DEF Typed
  <2>3. /\ pc' = [v \in Workers |-> pc'[v]] /\ now' = [v \in Workers |-> now'[v]]
        /\ todo' = [v \in Workers |-> todo'[v]] /\ cur' = [v \in Workers |-> cur'[v]]
    BY <1>2, <2>2, WorkersTyped DEF turnVars
  <2> QED  BY <2>1, <2>3 DEF TurnsTyped, WorkerTyped
<1>3. ASSUME NEW w \in Workers, Turn(w) \/ Crash(w) PROVE TurnsTyped'
  <2>1. \A v \in Workers : WorkerTyped(v)'
    BY <1>1, <1>3, Alone, TypedMove DEF KeepsOthers
  <2>2. KeepsOthers(w)
    BY <1>3, Alone
  <2> QED  BY <2>1, <2>2 DEF TurnsTyped, WorkerTyped, KeepsOthers
<1>4. ASSUME NEW a \in Apps, NEW p \in Priorities, Publish(a, p) PROVE TurnsTyped'
  BY <1>2, <1>4 DEF Publish
<1>5. ASSUME NEW m \in publishing, PublishQueue(m) \/ PublishFails(m) PROVE TurnsTyped'
  BY <1>2, <1>5 DEF PublishQueue, PublishFails
<1>6. ASSUME NEW m \in DOMAIN msgs, DeleteMessage(m) PROVE TurnsTyped'
  BY <1>2, <1>6 DEF DeleteMessage
<1>7. ASSUME NEW u \in Users, NEW m \in DOMAIN msgs, AcknowledgeMessage(u, m) \/ UnacknowledgeMessage(u, m)
      PROVE  TurnsTyped'
  BY <1>2, <1>7 DEF AcknowledgeMessage, UnacknowledgeMessage
<1>8. ASSUME NEW r \in RuleIds, NEW def \in RuleDefs, CreateEscalation(r, def) \/ UpdateEscalation(r, def)
      PROVE  TurnsTyped'
  BY <1>2, <1>8 DEF CreateEscalation, UpdateEscalation, SaveEscalationRule
<1>9. ASSUME (\E r \in RuleIds, def \in RuleDefs : UpdateRead(r, def)) \/ (\E rs \in SUBSET RuleIds : DropRules(rs))
      PROVE  TurnsTyped'
  BY <1>2, <1>9 DEF UpdateRead, DropRules
<1>10. CASE ClockTick
  BY <1>2, <1>10 DEF ClockTick
<1>11. CASE UNCHANGED vars
  BY <1>2, <1>11 DEF vars
<1> QED  BY <1>3, <1>4, <1>5, <1>6, <1>7, <1>8, <1>9, <1>10, <1>11, RulesDropped DEF Next

\* Every row, state and turn has the type of the code's structures.
THEOREM AlwaysTyped == Spec => []Typed
<1>1. Typed /\ [Next]_vars => Typed'
  BY TypedMsgs, TypedTables, TypedTurns DEF Typed
<1> QED  BY <1>1, InitTyped, PTL DEF Spec
-----------------------------------------------------------------------------
(* What a step does to the messages, the rules and the states.             *)

PublishedRow(x) == /\ x \in MsgRows /\ x.key = NoKey /\ x.rule = 0 /\ x.parent = 0 /\ x.depth = 0
                   /\ x.alive

\* The forms of a step.
StepForms ==
    \/ UNCHANGED <<clock, msgs, rules, states, acks, turnVars, deleted, history>>
    \/ \E a \in Apps, p \in Priorities : Publish(a, p)
    \/ \E m \in 1..Len(msgs) : PublishQueue(m)
    \/ \E m \in 1..Len(msgs) : DeleteMessage(m)
    \/ \E u \in Users, m \in 1..Len(msgs) : AcknowledgeMessage(u, m) \/ UnacknowledgeMessage(u, m)
    \/ \E r \in RuleIds, def \in RuleDefs : CreateEscalation(r, def) \/ UpdateEscalation(r, def)
    \/ \E rs \in SUBSET RuleIds : DropRules(rs)
    \/ \E w \in Workers : Turn(w) \/ Crash(w)
    \/ ClockTick

LEMMA Forms ==
    ASSUME Typed, [Next]_vars
    PROVE  StepForms
<1>0. DOMAIN msgs = 1..Len(msgs) /\ publishing \subseteq 1..Len(msgs)
  BY RowFacts DEF Typed, MsgsTyped
<1>1. CASE UNCHANGED vars
  BY <1>1 DEF vars, StepForms, counters, dbVars
<1>2. ASSUME NEW m \in publishing, PublishQueue(m) \/ PublishFails(m) PROVE StepForms
  BY <1>0, <1>2 DEF PublishFails, StepForms, dbVars
<1>3. ASSUME NEW r \in RuleIds, NEW def \in RuleDefs, UpdateRead(r, def) PROVE StepForms
  BY <1>3 DEF UpdateRead, StepForms, dbVars, counters
<1>5. CASE (\E r \in RuleIds : DeleteEscalationRule(r)) \/ (\E a \in Apps : DeleteApplicationByID(a))
  <2>1. \E rs \in SUBSET RuleIds : DropRules(rs)
    BY <1>5, RulesDropped
  <2> QED  BY <2>1 DEF StepForms
<1>4. CASE Next
  BY <1>0, <1>2, <1>3, <1>4, <1>5, Zenon DEF Next, StepForms
<1> QED  BY <1>1, <1>4

SameRow(y, x) ==
    /\ y.app = x.app /\ y.prio = x.prio /\ y.parent = x.parent /\ y.root = x.root
    /\ y.depth = x.depth /\ y.rule = x.rule /\ y.key = x.key
    /\ y.alive => x.alive

\* Rows are only added and marked as deleted; rules nobody edits stay.
Grows ==
    /\ Len(msgs) \in Nat /\ Len(msgs') \in Nat /\ Len(msgs) <= Len(msgs')
    /\ \A k \in 1..Len(msgs) : SameRow(msgs'[k], msgs[k])
    /\ touched \subseteq touched' /\ everAcked \subseteq everAcked' /\ misled \subseteq misled'
    /\ \A r \in RuleIds : r \notin touched' /\ rules[r] # NoRule => rules'[r] = rules[r]

LEMMA Published ==
    ASSUME Typed, NEW a \in Apps, NEW p \in Priorities, Publish(a, p)
    PROVE  /\ Len(msgs') = Len(msgs) + 1 /\ PublishedRow(msgs'[Len(msgs) + 1])
           /\ \A k \in 1..Len(msgs) : msgs'[k] = msgs[k]
           /\ UNCHANGED <<rules, states, turnVars, acks, late, deleted, touched>>
<1>0. msgs \in Seq(MsgRows) /\ Len(msgs) \in Nat
  BY DEF Typed, MsgsTyped
<1>1. PICK x : x = [app |-> a, prio |-> p, parent |-> 0, root |-> 0, depth |-> 0,
                    rule |-> 0, key |-> NoKey, alive |-> TRUE]
  OBVIOUS
<1>2. PublishedRow(x)
  BY <1>0, <1>1, EscalationAssumption DEF MsgRows, PublishedRow
<1>3. msgs' = Append(msgs, x)
  BY <1>1 DEF Publish
<1>4. Len(msgs') = Len(msgs) + 1 /\ msgs'[Len(msgs) + 1] = x /\ \A k \in 1..Len(msgs) : msgs'[k] = msgs[k]
  BY <1>0, <1>3
<1> QED  BY <1>2, <1>4 DEF Publish, history

LEMMA Deleted ==
    ASSUME Typed, NEW m \in 1..Len(msgs), DeleteMessage(m)
    PROVE  /\ Len(msgs') = Len(msgs)
           /\ \A k \in 1..Len(msgs) : k # m => msgs'[k] = msgs[k]
           /\ SameRow(msgs'[m], msgs[m]) /\ ~msgs'[m].alive
<1>0. msgs \in Seq(MsgRows) /\ Len(msgs) \in Nat
  BY DEF Typed, MsgsTyped
<1>1. /\ msgs' = [msgs EXCEPT ![m] = [msgs[m] EXCEPT !.alive = FALSE]]
  BY DEF DeleteMessage
<1>2. PICK x : x = [msgs[m] EXCEPT !.alive = FALSE]
  OBVIOUS
<1>3. SameRow(x, msgs[m]) /\ ~x.alive
  <2>1. \A y \in MsgRows : LET z == [y EXCEPT !.alive = FALSE]
                          IN  SameRow(z, y) /\ ~z.alive
    BY DEF MsgRows, SameRow
  <2>2. PICK y \in MsgRows : y = msgs[m]
    BY RowFacts DEF Typed
  <2>3. x = [y EXCEPT !.alive = FALSE]
    BY <1>2, <2>2
  <2> QED  BY <2>1, <2>2, <2>3, Zenon
<1>4. Len(msgs') = Len(msgs) /\ \A k \in 1..Len(msgs) : msgs'[k] = IF k = m THEN x ELSE msgs[k]
  BY <1>0, <1>1, <1>2
<1> QED  BY <1>3, <1>4

\* The only call of a turn that stores a message.
LEMMA TurnStores ==
    ASSUME Typed, NEW w \in Workers, Turn(w) \/ Crash(w)
    PROVE  \/ UNCHANGED <<msgs, late>>
           \/ /\ CreateMessageOnce(w) /\ StoreNew(w)
              /\ Len(msgs') = Len(msgs) + 1 /\ msgs'[Len(msgs) + 1] = Child(w)
              /\ \A k \in 1..Len(msgs) : msgs'[k] = msgs[k]
<1>1. CASE CreateMessageOnce(w)
  <2>1. CASE StoreNew(w)
    BY <1>1, <2>1, StoredTyped DEF CreateMessageOnce
  <2>2. CASE ~StoreNew(w)
    BY <1>1, <2>2 DEF CreateMessageOnce, StoreDuplicate, StoreError
  <2> QED  BY <2>1, <2>2
<1>2. CASE ~CreateMessageOnce(w)
  <2>1. CASE GetSource(w) \/ CheckSourceAck(w) \/ CheckRootAck(w) \/ Deliver(w)
    BY <2>1 DEF GetSource, CheckSourceAck, CheckRootAck, CheckAck, Deliver, TurnOnly, TurnKeeps, dbVars, history
  <2>2. CASE GetEscalationRuleByID(w) \/ ResolveEscalationTargetApplication(w)
    BY <2>2 DEF GetEscalationRuleByID, ResolveEscalationTargetApplication, TurnOnly, TurnKeeps, dbVars, history
  <2>3. CASE GetDueEscalations(w) \/ QueueChain(w) \/ SaveEscalationState(w)
    BY <2>3 DEF GetDueEscalations, QueueChain, SaveEscalationState, dbVars, history
  <2>4. CASE EndTurn(w) \/ Crash(w)
    BY <2>4 DEF EndTurn, Crash, Idle, dbVars, history
  <2> QED  BY <1>2, <2>1, <2>2, <2>3, <2>4 DEF Turn
<1> QED  BY <1>1, <1>2

\* The calls that change messages.
LEMMA MsgSteps ==
    ASSUME Typed, [Next]_vars
    PROVE  \/ UNCHANGED msgs
           \/ /\ Len(msgs') = Len(msgs) + 1 /\ PublishedRow(msgs'[Len(msgs) + 1])
              /\ \A k \in 1..Len(msgs) : msgs'[k] = msgs[k]
              /\ UNCHANGED <<rules, states, turnVars, acks, late, deleted, touched>>
           \/ \E m \in 1..Len(msgs) :
                /\ DeleteMessage(m) /\ Len(msgs') = Len(msgs)
                /\ \A k \in 1..Len(msgs) : k # m => msgs'[k] = msgs[k]
                /\ SameRow(msgs'[m], msgs[m]) /\ ~msgs'[m].alive
           \/ \E w \in Workers :
                /\ CreateMessageOnce(w) /\ StoreNew(w)
                /\ Len(msgs') = Len(msgs) + 1 /\ msgs'[Len(msgs) + 1] = Child(w)
                /\ \A k \in 1..Len(msgs) : msgs'[k] = msgs[k]
<1>0. msgs \in Seq(MsgRows) /\ Len(msgs) \in Nat
  BY DEF Typed, MsgsTyped
<1>1. CASE UNCHANGED <<clock, msgs, rules, states, acks, turnVars, deleted, history>> \/ ClockTick
  BY <1>1 DEF dbVars, ClockTick
<1>5. CASE \E m \in 1..Len(msgs) : PublishQueue(m)
  BY <1>5 DEF PublishQueue
<1>6. CASE \E u \in Users, m \in 1..Len(msgs) : AcknowledgeMessage(u, m) \/ UnacknowledgeMessage(u, m)
  BY <1>6 DEF AcknowledgeMessage, UnacknowledgeMessage
<1>7. CASE \E r \in RuleIds, def \in RuleDefs : CreateEscalation(r, def) \/ UpdateEscalation(r, def)
  BY <1>7 DEF CreateEscalation, UpdateEscalation, SaveEscalationRule
<1>8. CASE \E rs \in SUBSET RuleIds : DropRules(rs)
  BY <1>8 DEF DropRules
<1> QED  BY <1>1, <1>5, <1>6, <1>7, <1>8, Forms, Published, Deleted, TurnStores DEF StepForms

\* The calls of a turn change neither acknowledgements nor rules.
LEMMA TurnsKeep ==
    ASSUME NEW w, Turn(w) \/ Crash(w)
    PROVE  UNCHANGED <<clock, rules, acks, deleted, everAcked, touched>> /\ misled \subseteq misled'
<1>1. CASE GetSource(w) \/ CheckSourceAck(w) \/ CheckRootAck(w) \/ Deliver(w)
  BY <1>1 DEF GetSource, CheckSourceAck, CheckRootAck, CheckAck, Deliver, FailsOn, TurnOnly, TurnKeeps, dbVars
<1>2. CASE GetEscalationRuleByID(w) \/ ResolveEscalationTargetApplication(w)
  BY <1>2 DEF GetEscalationRuleByID, ResolveEscalationTargetApplication, FailsOn, TurnOnly, TurnKeeps, dbVars
<1>3. CASE GetDueEscalations(w) \/ CreateMessageOnce(w)
  BY <1>3 DEF GetDueEscalations, CreateMessageOnce, dbVars, history, counters
<1>4. CASE EndTurn(w) \/ Crash(w)
  BY <1>4 DEF EndTurn, Crash, Idle, dbVars, history
<1>5. CASE QueueChain(w) \/ SaveEscalationState(w)
  BY <1>5, QueueInserts DEF QueueChain, SaveEscalationState, history
<1> QED  BY <1>1, <1>2, <1>3, <1>4, <1>5 DEF Turn

\* What becomes of the rules and the acknowledgements.
LEMMA RuleSteps ==
    ASSUME Typed, [Next]_vars
    PROVE  /\ touched \subseteq touched' /\ everAcked \subseteq everAcked' /\ misled \subseteq misled'
           /\ \A r \in RuleIds : r \notin touched' /\ rules[r] # NoRule => rules'[r] = rules[r]
<1>0. rules \in [RuleIds -> RuleDefs \cup {NoRule}]
  BY DEF Typed, TablesTyped
<1>1. CASE UNCHANGED <<clock, msgs, rules, states, acks, turnVars, deleted, history>> \/ ClockTick
  BY <1>1 DEF dbVars, ClockTick, history
<1>2. CASE \E a \in Apps, p \in Priorities : Publish(a, p)
  BY <1>2 DEF Publish, history
<1>3. CASE \E m \in 1..Len(msgs) : PublishQueue(m) \/ DeleteMessage(m)
  BY <1>3, QueueInserts DEF PublishQueue, DeleteMessage
<1>4. CASE \E w \in Workers : Turn(w) \/ Crash(w)
  BY <1>4, TurnsKeep
<1>5. CASE \E u \in Users, m \in 1..Len(msgs) : AcknowledgeMessage(u, m) \/ UnacknowledgeMessage(u, m)
  BY <1>5 DEF AcknowledgeMessage, UnacknowledgeMessage
<1>6. ASSUME NEW r \in RuleIds, NEW def \in RuleDefs, CreateEscalation(r, def) \/ UpdateEscalation(r, def)
      PROVE  /\ touched \subseteq touched' /\ everAcked \subseteq everAcked' /\ misled \subseteq misled'
             /\ \A s \in RuleIds : s \notin touched' /\ rules[s] # NoRule => rules'[s] = rules[s]
  <2>1. rules' = [rules EXCEPT ![r] = def] /\ everAcked' = everAcked /\ misled' = misled
    BY <1>6 DEF CreateEscalation, UpdateEscalation, SaveEscalationRule
  <2>2. touched \subseteq touched' /\ (rules[r] = NoRule \/ r \in touched')
    BY <1>6 DEF CreateEscalation, UpdateEscalation
  <2> QED  BY <1>0, <2>1, <2>2
<1>7. CASE \E rs \in SUBSET RuleIds : DropRules(rs)
  BY <1>0, <1>7 DEF DropRules
<1> QED  BY <1>1, <1>2, <1>3, <1>4, <1>5, <1>6, <1>7, Forms DEF StepForms

LEMMA NextGrows ==
    ASSUME Typed, [Next]_vars
    PROVE  Grows
<1>0. Len(msgs) \in Nat /\ Len(msgs') \in Nat /\ Len(msgs) <= Len(msgs')
  BY TypedMsgs DEF Typed, MsgsTyped
<1>1. ASSUME NEW k \in 1..Len(msgs) PROVE SameRow(msgs'[k], msgs[k])
  <2>1. msgs'[k] = msgs[k] \/ SameRow(msgs'[k], msgs[k])
    <3>1. CASE UNCHANGED msgs
      BY <3>1
    <3>2. CASE \A j \in 1..Len(msgs) : msgs'[j] = msgs[j]
      BY <3>2
    <3>3. CASE \E m \in 1..Len(msgs) : /\ \A j \in 1..Len(msgs) : j # m => msgs'[j] = msgs[j]
                                       /\ SameRow(msgs'[m], msgs[m])
      BY <3>3
    <3> QED  BY <3>1, <3>2, <3>3, MsgSteps
  <2> QED  BY <2>1 DEF SameRow
<1> QED  BY <1>0, <1>1, RuleSteps DEF Grows

\* Where a state in the table comes from.
LEMMA StateSteps ==
    ASSUME Typed, [Next]_vars, NEW s \in StateIds, states'[s] # NoState
    PROVE  \/ states'[s] = states[s]
           \/ /\ s[2] \in 1..Len(msgs) /\ s[1] \in Matching(s[2]) /\ Misread(s[2], s[1])
              /\ Grows /\ UNCHANGED <<msgs, rules, touched>>
              /\ \E due : states'[s] = State(due, 0, FALSE)
           \/ \E w \in Workers : pc[w] = "save" /\ s = cur[w].id /\ states'[s] = cur[w].st
<1>0. states \in [StateIds -> StateRows \cup {NoState}]
  BY DEF Typed, TablesTyped
<1>1. ASSUME UNCHANGED states PROVE states'[s] = states[s]
  BY <1>1
<1>2. ASSUME NEW m \in 1..Len(msgs), queueEscalations(m), UNCHANGED <<msgs, rules, touched>>
      PROVE  \/ states'[s] = states[s]
             \/ /\ s[2] \in 1..Len(msgs) /\ s[1] \in Matching(s[2]) /\ Misread(s[2], s[1])
                /\ Grows /\ UNCHANGED <<msgs, rules, touched>>
                /\ \E due : states'[s] = State(due, 0, FALSE)
  <2>1. PICK rs \in SUBSET Matching(m) : Insert(m, rs) /\ \A r \in rs : Misread(m, r)
    BY <1>2, QueueInserts
  <2>2. states'[s] = IF s[2] = m /\ s[1] \in rs /\ states[s] = NoState
                     THEN State(clock + rules[s[1]].delay, 0, FALSE) ELSE states[s]
    BY <2>1 DEF Insert
  <2> QED  BY <1>2, <2>1, <2>2, NextGrows
<1>3. CASE UNCHANGED <<clock, msgs, rules, states, acks, turnVars, deleted, history>> \/ ClockTick
  BY <1>3 DEF dbVars, ClockTick
<1>4. CASE \E a \in Apps, p \in Priorities : Publish(a, p)
  BY <1>4 DEF Publish
<1>5. ASSUME NEW m \in 1..Len(msgs), PublishQueue(m)
      PROVE  \/ states'[s] = states[s]
             \/ /\ s[2] \in 1..Len(msgs) /\ s[1] \in Matching(s[2]) /\ Misread(s[2], s[1])
                /\ Grows /\ UNCHANGED <<msgs, rules, touched>>
                /\ \E due : states'[s] = State(due, 0, FALSE)
  <2>1. queueEscalations(m) /\ UNCHANGED <<msgs, rules, touched>>
    BY <1>5 DEF PublishQueue
  <2> QED  BY <1>2, <2>1
<1>6. CASE \E m \in 1..Len(msgs) : DeleteMessage(m)
  BY <1>6 DEF DeleteMessage
<1>7. CASE \E rs \in SUBSET RuleIds : DropRules(rs)
  BY <1>7 DEF DropRules
<1>8. CASE \E u \in Users, m \in 1..Len(msgs) : AcknowledgeMessage(u, m) \/ UnacknowledgeMessage(u, m)
  BY <1>8 DEF AcknowledgeMessage, UnacknowledgeMessage
<1>9. CASE \E r \in RuleIds, def \in RuleDefs : CreateEscalation(r, def) \/ UpdateEscalation(r, def)
  BY <1>9 DEF CreateEscalation, UpdateEscalation, SaveEscalationRule
<1>10. ASSUME NEW w \in Workers, Turn(w) \/ Crash(w)
      PROVE  \/ states'[s] = states[s]
             \/ /\ s[2] \in 1..Len(msgs) /\ s[1] \in Matching(s[2]) /\ Misread(s[2], s[1])
                /\ Grows /\ UNCHANGED <<msgs, rules, touched>>
                /\ \E due : states'[s] = State(due, 0, FALSE)
             \/ pc[w] = "save" /\ s = cur[w].id /\ states'[s] = cur[w].st
  <2>1. CASE QueueChain(w)
    <3>1. cur[w].child \in 1..Len(msgs)
      BY <2>1 DEF QueueChain, Typed, TurnsTyped, Stored
    <3>2. queueEscalations(cur[w].child) /\ UNCHANGED <<msgs, rules, touched>>
      BY <2>1 DEF QueueChain
    <3> QED  BY <1>2, <3>1, <3>2
  <2>2. CASE SaveEscalationState(w)
    <3>1. pc[w] = "save" /\ states' \in {states, [states EXCEPT ![cur[w].id] = cur[w].st]}
      BY <2>2 DEF SaveEscalationState
    <3> QED  BY <1>0, <3>1
  <2>3. CASE TurnKeepsTables(w)
    BY <2>3, TablesKept
  <2> QED  BY <1>10, <2>1, <2>2, <2>3 DEF Turn, TurnKeepsTables
<1> QED  BY <1>3, <1>4, <1>5, <1>6, <1>7, <1>8, <1>9, <1>10, Forms DEF StepForms

LEMMA TurnSteps ==
    ASSUME Typed, [Next]_vars
    PROVE  \/ UNCHANGED turnVars
           \/ \E w \in Workers : (Turn(w) \/ Crash(w)) /\ Move(w) /\ KeepsOthers(w)
<1>1. CASE UNCHANGED <<clock, msgs, rules, states, acks, turnVars, deleted, history>> \/ ClockTick
  BY <1>1 DEF ClockTick
<1>2. CASE \E a \in Apps, p \in Priorities : Publish(a, p)
  BY <1>2 DEF Publish
<1>3. CASE \E m \in 1..Len(msgs) : PublishQueue(m) \/ DeleteMessage(m)
  BY <1>3 DEF PublishQueue, DeleteMessage
<1>4. CASE \E w \in Workers : Turn(w) \/ Crash(w)
  BY <1>4, Moves, Alone
<1>5. CASE \E u \in Users, m \in 1..Len(msgs) : AcknowledgeMessage(u, m) \/ UnacknowledgeMessage(u, m)
  BY <1>5 DEF AcknowledgeMessage, UnacknowledgeMessage
<1>6. CASE \E r \in RuleIds, def \in RuleDefs : CreateEscalation(r, def) \/ UpdateEscalation(r, def)
  BY <1>6 DEF CreateEscalation, UpdateEscalation, SaveEscalationRule
<1>7. CASE \E rs \in SUBSET RuleIds : DropRules(rs)
  BY <1>7 DEF DropRules
<1> QED  BY <1>1, <1>2, <1>3, <1>4, <1>5, <1>6, <1>7, Forms DEF StepForms

-----------------------------------------------------------------------------
(* Chains.                                                                 *)

LEMMA Older == ASSUME MsgsTyped PROVE ParentsOlder(msgs) /\ Len(msgs) \in Nat
BY DEF MsgsTyped, ParentsOlder

LEMMA ChainNames ==
    ASSUME NEW m
    PROVE  /\ Chain(m) = {m} \cup Up(msgs)[msgs[m].parent]
           /\ Chain(m)' = {m} \cup Up(msgs')[msgs'[m].parent]
<1>1. Chain(m) = {m} \cup Up(msgs)[msgs[m].parent]
  BY DEF Ancestors, Chain, Up
<1>2. Chain(m)' = {m} \cup Up(msgs')[msgs'[m].parent]
  BY DEF Ancestors, Chain, Up
<1> QED  BY <1>1, <1>2

LEMMA ChainIs ==
    ASSUME MsgsTyped, NEW m \in 1..Len(msgs)
    PROVE  Chain(m) = Up(msgs)[m] /\ Chain(m) \subseteq 1..m
<1>1. Chain(m) = {m} \cup Up(msgs)[msgs[m].parent]
  BY ChainNames
<1>2. Up(msgs)[m] = {m} \cup Up(msgs)[msgs[m].parent]
  BY Older, UpAt, m \in 0..Len(msgs), m # 0
<1>3. Up(msgs)[m] \subseteq 1..m
  BY Older, UpRange
<1> QED  BY <1>1, <1>2, <1>3

LEMMA ChainStays ==
    ASSUME MsgsTyped, MsgsTyped', Grows, NEW m \in 1..Len(msgs)
    PROVE  Chain(m)' = Chain(m)
<1>0. /\ Len(msgs) \in Nat /\ Len(msgs') \in Nat /\ Len(msgs) <= Len(msgs')
      /\ ParentsOlder(msgs) /\ ParentsOlder(msgs')
      /\ \A k \in 1..Len(msgs) : msgs'[k].parent = msgs[k].parent
  BY DEF MsgsTyped, ParentsOlder, Grows, SameRow
<1>1. msgs'[m].parent = msgs[m].parent /\ msgs[m].parent \in 0..Len(msgs)
  BY <1>0 DEF ParentsOlder
<1>2. Up(msgs')[msgs[m].parent] = Up(msgs)[msgs[m].parent]
  BY <1>0, <1>1, UpGrows
<1> QED  BY <1>1, <1>2, ChainNames

LEMMA EscalatesStays ==
    ASSUME Typed, Typed', Grows, NEW s \in StateIds, Escalates(s)
    PROVE  Escalates(s)'
<1>0. /\ Len(msgs) \in Nat /\ Len(msgs') \in Nat /\ Len(msgs) <= Len(msgs')
      /\ \A k \in 1..Len(msgs) : /\ msgs'[k].app = msgs[k].app /\ msgs'[k].depth = msgs[k].depth
                                 /\ msgs'[k].alive => msgs[k].alive
      /\ touched \subseteq touched' /\ misled \subseteq misled' /\ s[1] \in RuleIds
      /\ \A r \in RuleIds : r \notin touched' /\ rules[r] # NoRule => rules'[r] = rules[r]
  BY DEF Grows, SameRow, StateIds
<1>1. s[2] \in 1..Len(msgs) /\ s[2] \in 1..Len(msgs') /\ msgs'[s[2]].depth < MaxDepth
  BY <1>0 DEF Escalates
<1>2. Chain(s[2])' = Chain(s[2])
  BY <1>1, ChainStays DEF Typed
<1>3. Chain(s[2]) \subseteq 1..Len(msgs)
  <2>1. Chain(s[2]) \subseteq 1..s[2]
    BY <1>1, ChainIs DEF Typed
  <2> QED  BY <1>0, <1>1, <2>1
<1>4. ASSUME s[1] \notin touched'
      PROVE  (/\ rules[s[1]] \in RuleDefs /\ rules[s[1]].enabled
              /\ Clear(s[2], rules[s[1]]) \/ <<"parent", s>> \in misled)'
  <2>1. /\ rules[s[1]] \in RuleDefs /\ rules[s[1]].enabled
        /\ Clear(s[2], rules[s[1]]) \/ <<"parent", s>> \in misled
    BY <1>0, <1>4 DEF Escalates
  <2>2. rules'[s[1]] = rules[s[1]]
    BY <1>0, <1>4, <2>1, Shapes
  <2>3. PICK rule : rule = rules[s[1]]
    OBVIOUS
  <2>4. ASSUME Clear(s[2], rules[s[1]]) PROVE Clear(s[2], rules[s[1]])'
    <3>1. Clear(s[2], rule)
      BY <2>3, <2>4
    <3>2. Clear(s[2], rule)'
      BY <1>0, <1>2, <1>3, <3>1 DEF Clear
    <3> QED  BY <2>2, <2>3, <3>2 DEF Clear
  <2>5. <<"parent", s>> \in misled => <<"parent", s>> \in misled'
    BY <1>0
  <2> QED  BY <2>1, <2>2, <2>4, <2>5
<1> QED  BY <1>1, <1>4 DEF Escalates

\* escalationWouldCycle keeps a rule away from the Channels of the chain.
LEMMA QueueClear ==
    ASSUME Typed, NEW m \in 1..Len(msgs), NEW r \in Queued(m)
    PROVE  Clear(m, rules[r])
<1>0. MsgsTyped /\ Len(msgs) \in Nat /\ DOMAIN msgs = 1..Len(msgs)
  BY RowFacts DEF Typed
<1>1. ~escalationWouldCycle(m, rules[r])
  BY DEF Queued
<1>3. Clear(m, rules[r])
  <2>1. SUFFICES ASSUME rules[r].kind = "channel", \A a \in Chain(m) : msgs[a].alive
                 PROVE  \A a \in Chain(m) : msgs[a].app # rules[r].target
    <3>1. \A a \in Chain(m) : msgs[a].alive \in BOOLEAN
      BY <1>0, ChainIs, RowFacts
    <3> QED  BY <3>1 DEF Clear
  <2>2. rules[r].target \notin {msgs[m].app} \cup UpApps(msgs)[msgs[m].parent]
    BY <1>1, <2>1, UpNames DEF escalationWouldCycle
  <2>3. Chain(m) = {m} \cup Up(msgs)[msgs[m].parent]
    BY ChainNames
  <2>4. msgs[m].parent \in 0..Len(msgs)
    BY <1>0, Older DEF ParentsOlder
  <2>5. \A a \in Up(msgs)[msgs[m].parent] : msgs[a].alive /\ msgs[a].app \in UpApps(msgs)[msgs[m].parent]
    BY <1>0, <2>1, <2>3, <2>4, Older, UpAppsCover
  <2> QED  BY <2>2, <2>3, <2>5
<1> QED  BY <1>3

\* queueEscalations inserts a state only where the rule, the depth and the
\* chain, as it could read it, allow it.
LEMMA QueueEscalates ==
    ASSUME Typed, Typed', Grows, UNCHANGED <<msgs, rules, touched>>,
           NEW s \in StateIds, s[2] \in 1..Len(msgs), s[1] \in Matching(s[2]), Misread(s[2], s[1])
    PROVE  Escalates(s)'
<1>1. /\ s[1] \in RuleIds /\ rules[s[1]] \in RuleDefs /\ rules[s[1]].enabled
      /\ msgs[s[2]].depth < MaxDepth /\ s = <<s[1], s[2]>>
  BY Shapes DEF Matching, Typed, TablesTyped, StateIds
<1>2. CASE s[1] \in Queued(s[2])
  <2>1. Clear(s[2], rules[s[1]])
    BY <1>2, QueueClear
  <2>2. Escalates(s)
    BY <1>1, <2>1 DEF Escalates
  <2> QED  BY <2>2, EscalatesStays
<1>3. CASE s[1] \notin Queued(s[2])
  <2>1. <<"parent", s>> \in misled'
    BY <1>1, <1>3 DEF Misread
  <2> QED  BY <1>1, <2>1 DEF Escalates
<1> QED  BY <1>2, <1>3

LEMMA InitChained == Init => Chained
<1> SUFFICES ASSUME Init PROVE Chained
  OBVIOUS
<1>1. MsgsEscalate
  BY DEF Init, MsgsEscalate
<1>2. WorkEscalates
  BY DEF Init, WorkEscalates, InWork, Waiting, Ruled
<1> QED  BY <1>1, <1>2 DEF Chained

\* The state in work keeps its name; the rule it holds is the one it read.
LEMMA WorkerEscalates ==
    ASSUME Typed, Typed', [Next]_vars, Chained, NEW w \in Workers,
           Untouched(w) \/ ((Turn(w) \/ Crash(w)) /\ Move(w))
    PROVE  /\ \A item \in todo'[w] : Escalates(item.id)'
           /\ (InWork(w) => Escalates(cur[w].id))'
           /\ (pc[w] \in Ruled /\ cur[w].id[1] \notin touched => cur[w].rule = rules[cur[w].id[1]])'
<1>0. /\ Grows /\ TurnsTyped /\ TurnsTyped'
      /\ \A r \in RuleIds : r \notin touched' /\ rules[r] # NoRule => rules'[r] = rules[r]
      /\ touched \subseteq touched'
  BY NextGrows DEF Typed, Grows
<1>1. ASSUME NEW s \in StateIds, Escalates(s)
      PROVE  /\ Escalates(s)' /\ s[1] \in RuleIds
             /\ s[1] \notin touched' => rules'[s[1]] = rules[s[1]] /\ s[1] \notin touched
  <2>1. Escalates(s)' /\ s[1] \in RuleIds
    BY <1>0, <1>1, EscalatesStays DEF StateIds
  <2>2. ASSUME s[1] \notin touched' PROVE rules'[s[1]] = rules[s[1]] /\ s[1] \notin touched
    <3>1. s[1] \notin touched /\ rules[s[1]] \in RuleDefs
      BY <1>0, <1>1, <2>2 DEF Escalates
    <3> QED  BY <1>0, <2>1, <2>2, <3>1, Shapes
  <2> QED  BY <2>1, <2>2
<1>2. \A item \in todo[w] : item.id \in StateIds /\ Escalates(item.id)
  BY <1>0, Shapes DEF Chained, WorkEscalates, TurnsTyped
<1>3. InWork(w) => cur[w].id \in StateIds /\ Escalates(cur[w].id)
  BY <1>0, Shapes DEF Chained, WorkEscalates, TurnsTyped
<1>4. pc[w] \in Ruled /\ cur[w].id[1] \notin touched => cur[w].rule = rules[cur[w].id[1]]
  BY DEF Chained, WorkEscalates
<1> USE DEF InWork, Waiting, Checking, Ruled
<1>5. ASSUME todo'[w] \subseteq todo[w] PROVE \A item \in todo'[w] : Escalates(item.id)'
  BY <1>1, <1>2, <1>5
<1>6. ASSUME InWork(w), cur'[w].id = cur[w].id, cur'[w].rule = cur[w].rule,
             pc'[w] \in Ruled => pc[w] \in Ruled, todo'[w] = todo[w]
      PROVE  /\ \A item \in todo'[w] : Escalates(item.id)'
             /\ (InWork(w) => Escalates(cur[w].id))'
             /\ (pc[w] \in Ruled /\ cur[w].id[1] \notin touched => cur[w].rule = rules[cur[w].id[1]])'
  <2>1. Escalates(cur[w].id)
    BY <1>3, <1>6
  <2>2. PICK s \in StateIds : s = cur[w].id
    BY <1>3, <1>6
  <2>3. Escalates(s)' /\ (s[1] \notin touched' => rules'[s[1]] = rules[s[1]] /\ s[1] \notin touched)
    BY <1>1, <2>1, <2>2
  <2>4. cur'[w].id = s
    BY <1>6, <2>2
  <2>5. Escalates(cur[w].id)'
    BY <2>3, <2>4 DEF Escalates
  <2> QED  BY <1>4, <1>5, <1>6, <2>2, <2>3, <2>4, <2>5
<1>7. CASE Untouched(w)
  <2>1. CASE InWork(w)
    BY <1>6, <1>7, <2>1 DEF Untouched
  <2>2. CASE ~InWork(w)
    BY <1>5, <1>7, <2>2 DEF Untouched
  <2> QED  BY <2>1, <2>2
<1>8. CASE Fetches(w)
  <2>1. ASSUME NEW item \in todo'[w] PROVE Escalates(item.id)'
    <3>1. PICK s \in StateIds : Pending(s) /\ item = Item(s, states[s])
      BY <1>8, <2>1 DEF Fetches
    <3>2. Escalates(s)' /\ item.id = s
      BY <1>1, <3>1 DEF Pending, Chained, WorkEscalates, Item
    <3> QED  BY <3>2
  <2> QED  BY <1>8, <2>1 DEF Fetches
<1>9. CASE Drops(w)
  BY <1>5, <1>9 DEF Drops
<1>10. CASE Takes(w)
  <2>1. PICK item \in todo[w] : cur'[w].id = item.id /\ pc'[w] \in {"ack", "save"}
    BY <1>10 DEF Takes
  <2>2. PICK s \in StateIds : s = item.id
    BY <1>2
  <2>3. Escalates(s)' /\ cur'[w].id = s
    BY <1>1, <1>2, <2>1, <2>2
  <2>4. Escalates(cur[w].id)'
    BY <2>3 DEF Escalates
  <2> QED  BY <1>5, <1>10, <2>1, <2>4 DEF Takes
<1>11. CASE Goes(w)
  BY <1>6, <1>11 DEF Goes
<1>12. CASE Cancels(w) \/ Advances(w)
  BY <1>6, <1>12 DEF Cancels, Advances, Becomes
<1>13. CASE Stores(w)
  BY <1>6, <1>13 DEF Stores, Becomes
<1>14. CASE ReadsRule(w)
  <2>1. /\ cur'[w].id = cur[w].id /\ cur'[w].rule = rules[cur[w].id[1]] /\ todo'[w] = todo[w] 
        /\ pc[w] = "rule"
    BY <1>14 DEF ReadsRule, Becomes
  <2>2. Escalates(cur[w].id)
    BY <1>3, <2>1
  <2>3. PICK s \in StateIds : s = cur[w].id
    BY <1>3, <2>1
  <2>4. Escalates(s)' /\ (s[1] \notin touched' => rules'[s[1]] = rules[s[1]])
    BY <1>1, <2>2, <2>3
  <2>5. cur'[w].id = s
    BY <2>1, <2>3
  <2>6. Escalates(cur[w].id)'
    BY <2>4, <2>5 DEF Escalates
  <2> QED  BY <1>5, <2>1, <2>3, <2>4, <2>5, <2>6
<1> QED  BY <1>7, <1>8, <1>9, <1>10, <1>11, <1>12, <1>13, <1>14 DEF Move
LEMMA KeptKey ==
    ASSUME Typed, NEW k \in 1..Len(msgs), msgs[k].key # NoKey
    PROVE  /\ msgs[k].key \in StateIds \X Nat
           /\ msgs[k].key[1] \in StateIds /\ msgs[k].key[2] \in Nat
           /\ msgs[k].key = <<msgs[k].key[1], msgs[k].key[2]>>
           /\ msgs[k].key[1] = <<msgs[k].key[1][1], msgs[k].key[1][2]>>
           /\ msgs[k].rule = msgs[k].key[1][1] /\ msgs[k].parent = msgs[k].key[1][2]
           /\ msgs[k].rule \in RuleIds
<1>1. msgs[k].key \in StateIds \X Nat
  BY RowFacts DEF Typed
<1>2. msgs[k].rule = msgs[k].key[1][1] /\ msgs[k].parent = msgs[k].key[1][2]
  BY DEF Typed, MsgsTyped
<1> QED  BY <1>1, <1>2 DEF StateIds

\* The copy that is stored: its rule is the one its turn has read.
LEMMA ChildFacts ==
    ASSUME Typed, NEW w \in Workers, pc[w] = "store"
    PROVE  /\ cur[w].id \in StateIds /\ cur[w].id[2] \in 1..Len(msgs)
           /\ cur[w].rule \in RuleDefs /\ cur[w].st.count \in Nat
           /\ Child(w).key = <<cur[w].id, cur[w].st.count>> /\ Child(w).key # NoKey
           /\ Child(w).key[1] = cur[w].id /\ Child(w).key[2] = cur[w].st.count
           /\ Child(w).rule = cur[w].id[1] /\ Child(w).parent = cur[w].id[2]
           /\ Child(w).depth = msgs[cur[w].id[2]].depth + 1
           /\ Child(w).app = cur[w].rule.target /\ Child(w).alive
<1>1. cur[w] \in Items /\ cur[w].id[2] \in 1..Len(msgs) /\ cur[w].rule \in RuleDefs
  BY DEF Typed, TurnsTyped, InWork, Waiting, Ruled
<1>2. cur[w].id \in StateIds /\ cur[w].st.count \in Nat
  BY <1>1, Shapes
<1> QED  BY <1>1, <1>2, Shapes DEF Child

MsgEscalates(k) ==
    /\ msgs[k].depth <= MaxDepth
    /\ msgs[k].key # NoKey =>
         /\ Escalates(msgs[k].key[1])
         /\ msgs[k].rule \notin touched => msgs[k].app = rules[msgs[k].rule].target

LEMMA NextChained ==
    ASSUME Typed, Typed', [Next]_vars, Chained
    PROVE  Chained'
<1>0. /\ Grows /\ Len(msgs) \in Nat /\ Len(msgs') \in Nat
      /\ \A r \in RuleIds : r \notin touched' /\ rules[r] # NoRule => rules'[r] = rules[r]
      /\ touched \subseteq touched'
  BY NextGrows DEF Grows
<1>1. \A w \in Workers : /\ \A item \in todo'[w] : Escalates(item.id)'
                         /\ (InWork(w) => Escalates(cur[w].id))'
                         /\ (pc[w] \in Ruled /\ cur[w].id[1] \notin touched
                                => cur[w].rule = rules[cur[w].id[1]])'
  <2>1. ASSUME NEW w \in Workers PROVE Untouched(w) \/ ((Turn(w) \/ Crash(w)) /\ Move(w))
    BY TurnSteps DEF Untouched, turnVars, KeepsOthers
  <2> QED  BY <2>1, WorkerEscalates
<1>2. ASSUME NEW s \in StateIds, states'[s] # NoState PROVE Escalates(s)'
  <2>1. CASE states'[s] = states[s]
    BY <1>0, <1>2, <2>1, EscalatesStays DEF Chained, WorkEscalates
  <2>2. CASE /\ s[2] \in 1..Len(msgs) /\ s[1] \in Matching(s[2]) /\ Misread(s[2], s[1])
             /\ UNCHANGED <<msgs, rules, touched>>
    BY <1>0, <2>2, QueueEscalates
  <2>3. ASSUME NEW w \in Workers, pc[w] = "save", s = cur[w].id PROVE Escalates(s)'
    <3>1. Escalates(cur[w].id)
      BY <2>3 DEF Chained, WorkEscalates, InWork, Waiting
    <3> QED  BY <1>0, <2>3, <3>1, EscalatesStays
  <2> QED  BY <1>2, <2>1, <2>2, <2>3, StateSteps
<1>3. ASSUME NEW k \in 1..Len(msgs) PROVE MsgEscalates(k)'
  <2>1. SameRow(msgs'[k], msgs[k])
    BY <1>0 DEF Grows
  <2>2. msgs'[k].depth <= MaxDepth
    BY <2>1 DEF SameRow, Chained, MsgsEscalate
  <2>3. ASSUME msgs'[k].key # NoKey
        PROVE  (/\ Escalates(msgs[k].key[1])
                /\ msgs[k].rule \notin touched => msgs[k].app = rules[msgs[k].rule].target)'
    <3>1. msgs[k].key # NoKey /\ msgs'[k].key = msgs[k].key
      BY <2>1, <2>3 DEF SameRow
    <3>2. PICK s \in StateIds : s = msgs[k].key[1] /\ msgs[k].rule = s[1] /\ s[1] \in RuleIds
      BY <3>1, KeptKey
    <3>3. Escalates(s)
      BY <3>1, <3>2 DEF Chained, MsgsEscalate
    <3>4. Escalates(s)'
      BY <1>0, <3>3, EscalatesStays
    <3>5. msgs'[k].key[1] = s /\ msgs'[k].rule = s[1] /\ msgs'[k].app = msgs[k].app
      BY <2>1, <3>1, <3>2 DEF SameRow
    <3>6. Escalates(msgs[k].key[1])'
      BY <3>4, <3>5 DEF Escalates
    <3>7. ASSUME s[1] \notin touched' PROVE msgs'[k].app = rules'[s[1]].target
      <4>1. s[1] \notin touched /\ rules[s[1]] # NoRule
        BY <1>0, <3>3, <3>7, Shapes DEF Escalates
      <4>2. msgs[k].app = rules[s[1]].target
        BY <3>1, <3>2, <4>1 DEF Chained, MsgsEscalate
      <4> QED  BY <1>0, <3>2, <3>5, <3>7, <4>1, <4>2
    <3> QED  BY <3>5, <3>6, <3>7
  <2> QED  BY <2>2, <2>3 DEF MsgEscalates
<1>4. ASSUME NEW k \in 1..Len(msgs'), k \notin 1..Len(msgs) PROVE MsgEscalates(k)'
  <2>1. CASE /\ Len(msgs') = Len(msgs) + 1 /\ PublishedRow(msgs'[Len(msgs) + 1])
    <3>1. k = Len(msgs) + 1
      BY <1>0, <1>4, <2>1
    <3>2. msgs'[k].key = NoKey /\ msgs'[k].depth = 0
      BY <2>1, <3>1 DEF PublishedRow
    <3> QED  BY <3>2, Shapes DEF MsgEscalates
  <2>2. ASSUME NEW w \in Workers, CreateMessageOnce(w), Len(msgs') = Len(msgs) + 1,
               msgs'[Len(msgs) + 1] = Child(w)
        PROVE  MsgEscalates(k)'
    <3>1. k = Len(msgs) + 1 /\ msgs'[k] = Child(w) /\ pc[w] = "store"
      BY <1>0, <1>4, <2>2 DEF CreateMessageOnce
    <3>2. PICK s \in StateIds : s = cur[w].id /\ s[1] \in RuleIds
      BY <3>1, ChildFacts DEF StateIds
    <3>3. Escalates(s) /\ (s[1] \notin touched => cur[w].rule = rules[s[1]])
      BY <3>1, <3>2 DEF Chained, WorkEscalates, InWork, Waiting, Ruled
    <3>4. Escalates(s)'
      BY <1>0, <3>3, EscalatesStays
    <3>5. msgs'[k].key[1] = s /\ msgs'[k].rule = s[1] /\ msgs'[k].app = cur[w].rule.target
          /\ msgs'[k].depth = msgs[s[2]].depth + 1
      BY <3>1, <3>2, ChildFacts
    <3>6. msgs'[k].depth <= MaxDepth
      <4>1. msgs[s[2]].depth < MaxDepth /\ msgs[s[2]].depth \in Nat /\ MaxDepth \in Nat
        BY <3>3, RowFacts, Shapes DEF Escalates, Typed
      <4> QED  BY <3>5, <4>1
    <3>7. Escalates(msgs[k].key[1])'
      BY <3>4, <3>5 DEF Escalates
    <3>8. UNCHANGED <<rules, touched>>
      BY <2>2 DEF CreateMessageOnce
    <3> QED  BY <3>3, <3>5, <3>6, <3>7, <3>8 DEF MsgEscalates
  <2>3. Len(msgs') # Len(msgs)
    BY <1>0, <1>4
  <2> QED  BY <2>1, <2>2, <2>3, MsgSteps
<1>5. MsgsEscalate'
  BY <1>3, <1>4 DEF MsgsEscalate, MsgEscalates
<1> QED  BY <1>1, <1>2, <1>5 DEF Chained, WorkEscalates

\* A copy is in a Channel its chain has been in only when the rule was edited,
\* or the chain broken, since the state was queued, or a parent was not loaded.
LEMMA ChainedEnds ==
    ASSUME Typed, Chained
    PROVE  ChainsEnd
<1>0. Len(msgs) \in Nat /\ DOMAIN msgs = 1..Len(msgs)
  BY RowFacts DEF Typed
<1>1. DepthBounded
  BY <1>0 DEF DepthBounded, Chained, MsgsEscalate
<1>2. ASSUME NEW m \in DOMAIN msgs, ComesBack(m), msgs[m].rule \notin touched,
             <<"parent", <<msgs[m].rule, msgs[m].parent>>>> \notin misled
      PROVE  \E a \in Ancestors(m) : ~msgs[a].alive
  <2>1. msgs[m].key # NoKey
    BY <1>0, <1>2 DEF ComesBack, Typed, MsgsTyped
  <2>2. PICK s \in StateIds : s = msgs[m].key[1] /\ msgs[m].rule = s[1] /\ msgs[m].parent = s[2]
                               /\ s = <<s[1], s[2]>>
    BY <1>0, <2>1, KeptKey
  <2>3. Escalates(s) /\ msgs[m].app = rules[s[1]].target
    BY <1>0, <1>2, <2>1, <2>2 DEF Chained, MsgsEscalate
  <2>4. Clear(s[2], rules[s[1]]) /\ rules[s[1]].kind = "channel" /\ s[2] \in 1..Len(msgs)
    BY <1>2, <2>2, <2>3 DEF Escalates, ComesBack
  <2>5. Ancestors(m) = Chain(s[2])
    <3>1. Ancestors(m) = Up(msgs)[s[2]]
      BY <2>2, UpNames
    <3>2. Chain(s[2]) = Up(msgs)[s[2]]
      BY <2>4, ChainIs DEF Typed
    <3> QED  BY <3>1, <3>2
  <2>6. \E a \in Chain(s[2]) : msgs[a].app = rules[s[1]].target
    BY <1>2, <2>3, <2>5 DEF ComesBack
  <2> QED  BY <2>4, <2>5, <2>6 DEF Clear
<1>3. NoChannelTwice
  BY <1>2 DEF NoChannelTwice
<1> QED  BY <1>1, <1>3 DEF ChainsEnd

\* Chains of copies are no longer than MaxDepth, and return to a Channel only
\* when a rule was edited or a message deleted since escalationWouldCycle looked,
\* or when it could not load a parent (which it takes for the end of the chain).
THEOREM ChainsAreBounded == Spec => []ChainsEnd
<1>1. Typed /\ Typed' /\ [Next]_vars /\ Chained => Chained'
  BY NextChained
<1>2. Typed /\ Chained => ChainsEnd
  BY ChainedEnds
<1> QED  BY <1>1, <1>2, InitChained, AlwaysTyped, PTL DEF Spec

THEOREM AlwaysChained == Spec => []Chained
<1>1. Typed /\ Typed' /\ [Next]_vars /\ Chained => Chained'
  BY NextChained
<1> QED  BY <1>1, InitChained, AlwaysTyped, PTL DEF Spec
-----------------------------------------------------------------------------
(* Copies.                                                                 *)

LEMMA StoredStays ==
    ASSUME Grows, NEW s, NEW n, IsStored(s, n)
    PROVE  IsStored(s, n)'
BY DEF Grows, SameRow, IsStored

LEMMA CountsStay ==
    ASSUME Typed, Typed', Grows, NEW s \in StateIds, Escalates(s)
    PROVE  /\ \A n : Behind(s, n) => Behind(s, n)'
           /\ \A n : Room(s, n) => Room(s, n)'
           /\ \A st : Counted(s, st) => Counted(s, st)'
<1>1. ASSUME NEW n, Behind(s, n) PROVE Behind(s, n)'
  <2>1. \A i \in Nat : i < n => IsStored(s, i)'
    BY <1>1, StoredStays DEF Behind
  <2> QED  BY <2>1 DEF Behind
<1>2. ASSUME NEW n, Room(s, n) PROVE Room(s, n)'
  <2>1. ASSUME s[1] \notin touched' PROVE s[1] \notin touched /\ rules'[s[1]] = rules[s[1]]
    <3>1. s[1] \notin touched /\ s[1] \in RuleIds
      BY <2>1 DEF Grows, StateIds
    <3>2. rules[s[1]] # NoRule
      BY <3>1, Shapes DEF Escalates
    <3> QED  BY <2>1, <3>1, <3>2 DEF Grows
  <2> QED  BY <1>2, <2>1 DEF Room
<1>3. ASSUME NEW st, Counted(s, st) PROVE Counted(s, st)'
  <2>1. Behind(s, st.count)' /\ (st.completed \/ Room(s, st.count)')
    BY <1>1, <1>2, <1>3 DEF Counted
  <2> QED  BY <2>1 DEF Counted
<1> QED  BY <1>1, <1>2, <1>3

LEMMA InitCounted == Init => CopiesCounted
<1> SUFFICES ASSUME Init PROVE CopiesCounted
  OBVIOUS
<1>1. MsgsCounted
  BY DEF Init, MsgsCounted
<1>2. WorkCounted
  BY DEF Init, WorkCounted, InWork, Waiting, Checking, Ruled, Stored
<1> QED  BY <1>1, <1>2 DEF CopiesCounted

\* A copy more: the next count has all copies before it, and room while it is
\* not the last.
LEMMA AdvancedCounted ==
    ASSUME Typed, NEW s \in StateIds, NEW st \in StateRows, NEW rule \in RuleDefs, NEW t \in Nat,
           Behind(s, st.count), IsStored(s, st.count),
           s[1] \notin touched => rule = rules[s[1]]
    PROVE  Counted(s, Advanced(st, rule, t))
<1>1. PICK n \in Nat : n = st.count
  BY Shapes
<1>2. PICK new : new = Advanced(st, rule, t)
  OBVIOUS
<1>3. /\ new.count = n + 1
      /\ ~new.completed => rule.repeat > 0 /\ n + 1 <= rule.maxRepeats
  BY <1>1, <1>2, AdvancedType
<1>4. Behind(s, n + 1)
  <2>1. \A i \in Nat : i < n + 1 => i < n \/ i = n
    OBVIOUS
  <2> QED  BY <1>1, <2>1 DEF Behind
<1>5. ASSUME ~new.completed PROVE Room(s, n + 1)
  <2>1. rule.maxRepeats \in Nat /\ n + 1 < MaxCopies(rule)
    BY <1>3, <1>5, Shapes DEF MaxCopies
  <2> QED  BY <2>1 DEF Room
<1> QED  BY <1>2, <1>3, <1>4, <1>5 DEF Counted

WorkerCounts(w) ==
    /\ \A item \in todo[w] : Counted(item.id, item.st) /\ ~item.st.completed
    /\ InWork(w) => Counted(cur[w].id, cur[w].st)
    /\ pc[w] \in Checking \cup Ruled => ~cur[w].st.completed
    /\ pc[w] \in Stored => IsStored(cur[w].id, cur[w].st.count)

LEMMA WorkerCounted ==
    ASSUME Typed, Typed', [Next]_vars, Chained, CopiesCounted, NEW w \in Workers,
           Untouched(w) \/ ((Turn(w) \/ Crash(w)) /\ Move(w))
    PROVE  WorkerCounts(w)'
<1>0. Grows /\ TurnsTyped /\ TurnsTyped' /\ WorkerCounts(w)
  BY NextGrows DEF Typed, CopiesCounted, WorkCounted, WorkerCounts
<1>1. ASSUME NEW s \in StateIds, Escalates(s)
      PROVE  \A st : Counted(s, st) => Counted(s, st)'
  BY <1>0, <1>1, CountsStay
<1>2. \A item \in todo[w] : /\ item \in Items /\ item.id \in StateIds /\ item.st \in StateRows
                            /\ Counted(item.id, item.st)'
  <2>1. \A item \in todo[w] : /\ item \in Items /\ item.id \in StateIds /\ item.st \in StateRows
                              /\ Escalates(item.id) /\ Counted(item.id, item.st)
    BY <1>0, Shapes DEF Chained, WorkEscalates, TurnsTyped, WorkerCounts
  <2> QED  BY <1>1, <2>1
<1>3. InWork(w) => /\ cur[w].id \in StateIds /\ cur[w].st \in StateRows /\ Escalates(cur[w].id)
                   /\ Counted(cur[w].id, cur[w].st)
  BY <1>0, Shapes DEF Chained, WorkEscalates, TurnsTyped, WorkerCounts
<1> USE DEF InWork, Waiting, Checking, Ruled, Stored
<1>4. ASSUME todo'[w] \subseteq todo[w]
      PROVE  \A item \in todo'[w] : Counted(item.id, item.st)' /\ ~item.st.completed
  BY <1>0, <1>2, <1>4 DEF WorkerCounts
\* The state in work with a new row.
<1>5. ASSUME NEW st, InWork(w), cur'[w].id = cur[w].id, cur'[w].st = st, todo'[w] = todo[w],
             Counted(cur[w].id, st), pc'[w] \in Checking \cup Ruled => ~st.completed,
             pc'[w] \in Stored => \E s \in StateIds : s = cur[w].id /\ IsStored(s, st.count)'
      PROVE  WorkerCounts(w)'
  <2>1. PICK s \in StateIds : s = cur[w].id
    BY <1>3, <1>5
  <2>2. Counted(s, st)'
    BY <1>1, <1>3, <1>5, <2>1
  <2>3. cur'[w].id = s /\ cur'[w].st = st
    BY <1>5, <2>1
  <2>4. Counted(cur[w].id, cur[w].st)'
    BY <2>2, <2>3 DEF Counted, Behind, Room, IsStored
  <2>5. pc'[w] \in Stored => IsStored(cur[w].id, cur[w].st.count)'
    BY <1>5, <2>1, <2>3 DEF IsStored
  <2> QED  BY <1>4, <1>5, <2>3, <2>4, <2>5 DEF WorkerCounts
<1>6. CASE Untouched(w)
  <2>1. CASE InWork(w)
    <3>1. PICK st, s : st = cur[w].st /\ s = cur[w].id
      OBVIOUS
    <3>2. pc[w] \in Stored => s \in StateIds /\ IsStored(s, st.count)'
      BY <1>0, <1>3, <2>1, <3>1, StoredStays DEF WorkerCounts
    <3> QED  BY <1>0, <1>3, <1>5, <1>6, <2>1, <3>1, <3>2 DEF Untouched, WorkerCounts
  <2>2. CASE ~InWork(w)
    BY <1>4, <1>6, <2>2 DEF Untouched, WorkerCounts
  <2> QED  BY <2>1, <2>2
<1>7. CASE Fetches(w)
  <2>1. ASSUME NEW item \in todo'[w] PROVE Counted(item.id, item.st)' /\ ~item.st.completed
    <3>1. PICK s \in StateIds : Pending(s) /\ item = Item(s, states[s])
      BY <1>7, <2>1 DEF Fetches
    <3>2. PICK st : st = states[s]
      OBVIOUS
    <3>3. item.id = s /\ item.st = st /\ ~st.completed
      BY <3>1, <3>2 DEF Item, Pending
    <3>4. Escalates(s) /\ Counted(s, st)
      BY <3>1, <3>2 DEF Pending, Chained, WorkEscalates, CopiesCounted, WorkCounted
    <3>5. Counted(s, st)'
      BY <1>1, <3>4
    <3> QED  BY <3>3, <3>5
  <2> QED  BY <1>7, <2>1 DEF Fetches, WorkerCounts
<1>8. CASE Drops(w)
  BY <1>4, <1>8 DEF Drops, WorkerCounts
<1>9. CASE Takes(w)
  <2>1. PICK item \in todo[w] :
         \/ pc'[w] = "ack" /\ cur'[w] = item
         \/ pc'[w] = "save" /\ cur'[w].id = item.id /\ cur'[w].st = Closed(item.st)
    BY <1>9 DEF Takes
  <2>2. PICK s, st : s = item.id /\ st = item.st
    OBVIOUS
  <2>3. Counted(s, st)' /\ ~st.completed
    BY <1>0, <1>2, <2>2 DEF WorkerCounts
  <2>4. Counted(s, Closed(st))'
    BY <2>3 DEF Counted, Closed
  <2>5. Counted(cur[w].id, cur[w].st)'
    BY <2>1, <2>2, <2>3, <2>4 DEF Counted, Behind, Room, IsStored
  <2>6. pc'[w] = "ack" => ~cur'[w].st.completed
    BY <2>1, <2>2, <2>3
  <2> QED  BY <1>4, <1>9, <2>1, <2>5, <2>6 DEF Takes, WorkerCounts
<1>10. CASE Goes(w)
  <2>1. PICK st : st = cur[w].st
    OBVIOUS
  <2>2. InWork(w) /\ pc[w] \in Checking \cup Ruled /\ (pc'[w] \in Stored => pc[w] = "deliver")
    BY <1>10 DEF Goes
  <2>3. pc'[w] \in Stored => \E s \in StateIds : s = cur[w].id /\ IsStored(s, st.count)'
    BY <1>0, <1>3, <2>1, <2>2, StoredStays DEF WorkerCounts
  <2> QED  BY <1>0, <1>3, <1>5, <1>10, <2>1, <2>2, <2>3 DEF Goes, WorkerCounts
<1>11. CASE Cancels(w)
  <2>1. PICK st : st = Closed(cur[w].st)
    OBVIOUS
  <2>2. InWork(w) /\ cur'[w].id = cur[w].id /\ cur'[w].st = st /\ todo'[w] = todo[w] /\ pc'[w] = "save"
    BY <1>11, <2>1 DEF Cancels, Becomes
  <2>3. Counted(cur[w].id, st)
    BY <1>3, <2>1, <2>2 DEF Counted, Closed
  <2> QED  BY <1>5, <2>2, <2>3
<1>12. CASE ReadsRule(w)
  <2>1. PICK st : st = cur[w].st
    OBVIOUS
  <2>2. /\ InWork(w) /\ cur'[w].id = cur[w].id /\ cur'[w].st = st /\ todo'[w] = todo[w]
        /\ pc'[w] = "resolve" /\ pc[w] = "rule"
    BY <1>12, <2>1 DEF ReadsRule, Becomes
  <2> QED  BY <1>0, <1>3, <1>5, <2>1, <2>2 DEF WorkerCounts
<1>13. CASE Stores(w)
  <2>1. PICK st, s : st = cur[w].st /\ s = cur[w].id
    OBVIOUS
  <2>2. /\ InWork(w) /\ cur'[w].id = cur[w].id /\ cur'[w].st = st /\ todo'[w] = todo[w]
        /\ pc'[w] = "deliver" /\ pc[w] = "store"
    BY <1>13, <2>1 DEF Stores, Becomes
  <2>3. msgs'[Len(msgs) + 1] = Child(w) /\ Len(msgs') = Len(msgs) + 1
    BY <1>13 DEF Stores, StoreNew, Typed, MsgsTyped
  <2>4. IsStored(s, st.count)'
    <3>1. msgs'[Len(msgs) + 1].key = <<s, st.count>> /\ Len(msgs) + 1 \in 1..Len(msgs')
      BY <1>0, <2>1, <2>2, <2>3, ChildFacts DEF Grows
    <3> QED  BY <3>1 DEF IsStored
  <2> QED  BY <1>0, <1>3, <1>5, <2>1, <2>2, <2>4 DEF WorkerCounts
<1>14. CASE Advances(w)
  <2>0. pc[w] \in {"store", "deliver", "chain"}
    BY <1>14 DEF Advances
  <2>1. PICK old \in StateRows, s \in StateIds, rule \in RuleDefs, t \in Nat :
          old = cur[w].st /\ s = cur[w].id /\ rule = cur[w].rule /\ t = now[w]
    BY <1>0, <1>3, <2>0 DEF TurnsTyped
  <2>2. PICK st : st = Advanced(old, rule, t)
    OBVIOUS
  <2>3. /\ InWork(w) /\ cur'[w].id = cur[w].id /\ cur'[w].st = st /\ todo'[w] = todo[w]
        /\ pc'[w] = "save"
    BY <1>14, <2>1, <2>2 DEF Advances, Becomes
  <2>4. IsStored(s, old.count)
    <3>1. CASE pc[w] = "store"
      <4>1. StoredKey(Child(w).key) /\ Child(w).key = <<s, old.count>>
        BY <1>14, <2>1, <3>1, ChildFacts DEF Advances
      <4> QED  BY <4>1, RowFacts DEF StoredKey, IsStored, Typed
    <3>2. CASE pc[w] \in Stored
      BY <1>0, <2>1, <3>2 DEF WorkerCounts
    <3> QED  BY <2>0, <3>1, <3>2
  <2>5. Behind(s, old.count)
    BY <1>3, <2>0, <2>1 DEF Counted
  <2>6. s[1] \notin touched => rule = rules[s[1]]
    BY <2>0, <2>1 DEF Chained, WorkEscalates
  <2>7. Counted(cur[w].id, st)
    BY <2>1, <2>2, <2>4, <2>5, <2>6, AdvancedCounted
  <2> QED  BY <1>5, <2>3, <2>7
<1> QED  BY <1>6, <1>7, <1>8, <1>9, <1>10, <1>11, <1>12, <1>13, <1>14 DEF Move
MsgCounts(k) == msgs[k].key # NoKey => Behind(msgs[k].key[1], msgs[k].key[2])
                                       /\ Room(msgs[k].key[1], msgs[k].key[2])
KeyOnce(i, j) == i < j /\ msgs[i].key # NoKey /\ msgs[i].key = msgs[j].key => ~msgs[i].alive

LEMMA NextCounted ==
    ASSUME Typed, Typed', [Next]_vars, Chained, CopiesCounted
    PROVE  CopiesCounted'
<1>0. Grows /\ Len(msgs) \in Nat /\ Len(msgs') \in Nat
  BY NextGrows DEF Grows
<1>1. \A w \in Workers : WorkerCounts(w)'
  <2>1. ASSUME NEW w \in Workers PROVE Untouched(w) \/ ((Turn(w) \/ Crash(w)) /\ Move(w))
    BY TurnSteps DEF Untouched, turnVars, KeepsOthers
  <2> QED  BY <2>1, WorkerCounted
<1>2. ASSUME NEW s \in StateIds, states'[s] # NoState PROVE Counted(s, states[s])'
  <2>1. CASE states'[s] = states[s]
    <3>1. PICK st : st = states[s]
      OBVIOUS
    <3>2. Escalates(s) /\ Counted(s, st)
      BY <1>2, <2>1, <3>1 DEF Chained, WorkEscalates, CopiesCounted, WorkCounted
    <3>3. Counted(s, st)'
      BY <1>0, <3>2, CountsStay
    <3> QED  BY <2>1, <3>1, <3>3 DEF Counted, Behind, Room, IsStored
  <2>2. CASE /\ s[2] \in 1..Len(msgs) /\ s[1] \in Matching(s[2]) /\ Misread(s[2], s[1])
             /\ UNCHANGED <<msgs, rules, touched>> /\ \E due : states'[s] = State(due, 0, FALSE)
    <3>1. PICK due, st : st = State(due, 0, FALSE) /\ states'[s] = st
      BY <2>2
    <3>2. Escalates(s)'
      BY <1>0, <2>2, QueueEscalates
    <3>3. st.count = 0 /\ Behind(s, 0)'
      BY <3>1 DEF State, Behind
    <3>4. ASSUME s[1] \notin touched' PROVE 0 < MaxCopies(rules'[s[1]])
      <4>1. rules'[s[1]] \in RuleDefs
        BY <3>2, <3>4 DEF Escalates
      <4>2. rules'[s[1]].maxRepeats \in Nat
        BY <4>1, Shapes
      <4> QED  BY <4>2 DEF MaxCopies
    <3>5. Counted(s, st)'
      BY <3>3, <3>4 DEF Counted, Room, Behind, MaxCopies
    <3> QED  BY <3>1, <3>5 DEF Counted, Behind, Room, IsStored
  <2>3. ASSUME NEW w \in Workers, pc[w] = "save", s = cur[w].id, states'[s] = cur[w].st
        PROVE  Counted(s, states[s])'
    <3>1. PICK st : st = cur[w].st
      OBVIOUS
    <3>2. Escalates(s) /\ Counted(s, st)
      BY <2>3, <3>1 DEF Chained, WorkEscalates, CopiesCounted, WorkCounted, InWork, Waiting
    <3>3. Counted(s, st)'
      BY <1>0, <3>2, CountsStay
    <3> QED  BY <2>3, <3>1, <3>3 DEF Counted, Behind, Room, IsStored
  <2> QED  BY <1>2, <2>1, <2>2, <2>3, StateSteps
<1>3. WorkCounted'
  BY <1>1, <1>2 DEF WorkCounted, WorkerCounts
\* The messages that were there.
<1>4. ASSUME NEW k \in 1..Len(msgs) PROVE MsgCounts(k)'
  <2>1. SameRow(msgs'[k], msgs[k])
    BY <1>0 DEF Grows
  <2>2. ASSUME msgs'[k].key # NoKey PROVE MsgCounts(k)'
    <3>1. msgs[k].key # NoKey /\ msgs'[k].key = msgs[k].key
      BY <2>1, <2>2 DEF SameRow
    <3>2. PICK s \in StateIds, n \in Nat : s = msgs[k].key[1] /\ n = msgs[k].key[2]
      BY <3>1, KeptKey
    <3>3. Escalates(s) /\ Behind(s, n) /\ Room(s, n)
      BY <3>1, <3>2 DEF Chained, MsgsEscalate, CopiesCounted, MsgsCounted
    <3>4. Behind(s, n)' /\ Room(s, n)'
      BY <1>0, <3>3, CountsStay
    <3>5. msgs'[k].key[1] = s /\ msgs'[k].key[2] = n
      BY <3>1, <3>2
    <3> QED  BY <3>4, <3>5 DEF MsgCounts, Behind, Room, IsStored
  <2> QED  BY <2>2 DEF MsgCounts
<1>5. \A i, j \in 1..Len(msgs) : KeyOnce(i, j)'
  <2>1. \A i, j \in 1..Len(msgs) : KeyOnce(i, j)
    BY DEF CopiesCounted, MsgsCounted, KeyOnce
  <2>2. \A i \in 1..Len(msgs) : msgs'[i].key = msgs[i].key /\ (msgs'[i].alive => msgs[i].alive)
    BY <1>0 DEF Grows, SameRow
  <2> QED  BY <2>1, <2>2 DEF KeyOnce
\* The message that is stored.
<1>6. CASE Len(msgs') = Len(msgs) + 1 /\ PublishedRow(msgs'[Len(msgs) + 1])
  <2>1. \A k \in 1..Len(msgs') : k \in 1..Len(msgs) \/ k = Len(msgs) + 1
    BY <1>0, <1>6
  <2>2. msgs'[Len(msgs) + 1].key = NoKey
    BY <1>6 DEF PublishedRow
  <2>3. \A k \in 1..Len(msgs') : MsgCounts(k)'
    BY <1>4, <2>1, <2>2 DEF MsgCounts
  <2>4. \A i, j \in 1..Len(msgs') : KeyOnce(i, j)'
    BY <1>0, <1>5, <2>1, <2>2 DEF KeyOnce
  <2> QED  BY <1>3, <2>3, <2>4 DEF CopiesCounted, MsgsCounted, MsgCounts, KeyOnce
<1>7. ASSUME NEW w \in Workers, CreateMessageOnce(w), StoreNew(w), Len(msgs') = Len(msgs) + 1,
             msgs'[Len(msgs) + 1] = Child(w), \A k \in 1..Len(msgs) : msgs'[k] = msgs[k]
      PROVE  CopiesCounted'
  <2>1. \A k \in 1..Len(msgs') : k \in 1..Len(msgs) \/ k = Len(msgs) + 1
    BY <1>0, <1>7
  <2>2. PICK s \in StateIds, n \in Nat : s = cur[w].id /\ n = cur[w].st.count
    BY <1>7, ChildFacts DEF CreateMessageOnce
  <2>3. pc[w] = "store" /\ Child(w).key = <<s, n>>
    BY <1>7, <2>2, ChildFacts DEF CreateMessageOnce
  <2>4. /\ msgs'[Len(msgs) + 1].key = <<s, n>>
        /\ msgs'[Len(msgs) + 1].key[1] = s /\ msgs'[Len(msgs) + 1].key[2] = n
    BY <1>7, <2>3
  <2>5. Escalates(s) /\ Behind(s, n) /\ Room(s, n)
    BY <2>2, <2>3 DEF Chained, WorkEscalates, CopiesCounted, WorkCounted, Counted, InWork, Waiting, Ruled
  <2>6. Behind(s, n)' /\ Room(s, n)'
    BY <1>0, <2>5, CountsStay
  <2>7. \A k : k = Len(msgs) + 1 => MsgCounts(k)'
    BY <2>4, <2>6 DEF MsgCounts, Behind, Room, IsStored
  <2>8. \A k \in 1..Len(msgs') : MsgCounts(k)'
    BY <1>4, <2>1, <2>7
  <2>9. \A i \in 1..Len(msgs) : msgs'[i].key = <<s, n>> => ~msgs'[i].alive
    <3>1. \A i \in 1..Len(msgs) : msgs[i].alive => msgs[i].key # <<s, n>>
      BY <1>7, <2>3, RowFacts DEF StoreNew, StoredKey, Typed
    <3> QED  BY <1>7, <3>1
  <2>10. \A i, j \in 1..Len(msgs') : KeyOnce(i, j)'
    BY <1>0, <1>5, <2>1, <2>4, <2>9 DEF KeyOnce
  <2> QED  BY <1>3, <2>8, <2>10 DEF CopiesCounted, MsgsCounted, MsgCounts, KeyOnce
<1>8. CASE Len(msgs') = Len(msgs)
  <2>1. \A k \in 1..Len(msgs') : MsgCounts(k)'
    BY <1>4, <1>8
  <2>2. \A i, j \in 1..Len(msgs') : KeyOnce(i, j)'
    BY <1>5, <1>8
  <2> QED  BY <1>3, <2>1, <2>2 DEF CopiesCounted, MsgsCounted, MsgCounts, KeyOnce
<1> QED  BY <1>6, <1>7, <1>8, MsgSteps

THEOREM AlwaysCounted == Spec => []CopiesCounted
<1>1. Typed /\ Typed' /\ [Next]_vars /\ Chained /\ CopiesCounted => CopiesCounted'
  BY NextCounted
<1> QED  BY <1>1, InitCounted, AlwaysTyped, AlwaysChained, PTL DEF Spec

LEMMA Smaller ==
    ASSUME NEW S, IsFiniteSet(S), NEW n \in Nat, NEW f \in [S -> 0..(n - 1)],
           \A x, y \in S : f[x] = f[y] => x = y
    PROVE  Cardinality(S) <= n
<1>1. PICK T : T = 0..(n - 1)
  OBVIOUS
<1>2. IsFiniteSet(T) /\ Cardinality(T) = n /\ f \in [S -> T]
  <2>1. 0 \in Int /\ n - 1 \in Int
    OBVIOUS
  <2>2. /\ IsFiniteSet(0..(n - 1))
        /\ Cardinality(0..(n - 1)) = IF 0 > n - 1 THEN 0 ELSE (n - 1) - 0 + 1
    BY <2>1, FS_Interval, Zenon
  <2> QED  BY <1>1, <2>2
<1>3. Cardinality(S) \in Nat
  BY FS_CardinalityType
<1>4. ASSUME Cardinality(T) < Cardinality(S) PROVE FALSE
  <2>1. \E x, y \in S : x # y /\ f[x] = f[y]
    BY <1>2, <1>4, FS_PigeonHole, Zenon
  <2> QED  BY <2>1
<1> QED  BY <1>2, <1>3, <1>4

\* The copies of a state have different counts, all below the maximum.
LEMMA CountedBounds ==
    ASSUME Typed, CopiesCounted
    PROVE  RepeatsBounded
<1>0. Len(msgs) \in Nat /\ DOMAIN msgs = 1..Len(msgs)
  BY RowFacts DEF Typed
<1>1. SUFFICES ASSUME NEW s \in StateIds, s[1] \notin touched, rules[s[1]] # NoRule
               PROVE  Cardinality(Copies(s)) <= MaxCopies(rules[s[1]])
  BY DEF RepeatsBounded
<1>2. MaxCopies(rules[s[1]]) \in Nat
  <2>1. rules[s[1]] \in RuleDefs
    BY <1>1 DEF Typed, TablesTyped, StateIds
  <2>2. rules[s[1]].maxRepeats \in Nat
    BY <2>1, Shapes
  <2> QED  BY <2>2 DEF MaxCopies
<1>3. PICK n \in Nat : n = MaxCopies(rules[s[1]])
  BY <1>2
<1>4. \A m \in Copies(s) : /\ m \in 1..Len(msgs) /\ msgs[m].alive
                           /\ msgs[m].key = <<s, msgs[m].key[2]>> /\ msgs[m].key # NoKey
                           /\ msgs[m].key[2] \in 0..(n - 1)
  <2> SUFFICES ASSUME NEW m \in Copies(s)
               PROVE  /\ m \in 1..Len(msgs) /\ msgs[m].alive
                      /\ msgs[m].key = <<s, msgs[m].key[2]>> /\ msgs[m].key # NoKey
                      /\ msgs[m].key[2] \in 0..(n - 1)
    OBVIOUS
  <2>1. m \in 1..Len(msgs) /\ msgs[m].alive /\ msgs[m].rule = s[1] /\ msgs[m].parent = s[2]
    BY <1>0 DEF Copies
  <2>2. msgs[m].key # NoKey
    <3>1. s[2] # 0
      BY Shapes DEF StateIds, MsgIds
    <3> QED  BY <2>1, <3>1 DEF Typed, MsgsTyped
  <2>3. s = <<s[1], s[2]>>
    BY DEF StateIds
  <2>4. msgs[m].key[1] = s
    <3>1. msgs[m].key[1] = <<msgs[m].key[1][1], msgs[m].key[1][2]>> /\ msgs[m].rule = msgs[m].key[1][1]
          /\ msgs[m].parent = msgs[m].key[1][2]
      BY <2>1, <2>2, KeptKey
    <3> QED  BY <2>1, <2>3, <3>1
  <2>5. msgs[m].key = <<s, msgs[m].key[2]>> /\ msgs[m].key[2] \in Nat
    BY <2>1, <2>2, <2>4, KeptKey
  <2>6. msgs[m].key[2] < n
    BY <1>1, <1>3, <2>1, <2>2, <2>4 DEF CopiesCounted, MsgsCounted, Room
  <2> QED  BY <2>1, <2>2, <2>5, <2>6
<1>5. PICK f : f = [m \in Copies(s) |-> msgs[m].key[2]]
  OBVIOUS
<1>6. f \in [Copies(s) -> 0..(n - 1)]
  BY <1>4, <1>5
<1>7. ASSUME NEW x \in Copies(s), NEW y \in Copies(s), f[x] = f[y] PROVE x = y
  <2>1. msgs[x].key = msgs[y].key /\ msgs[x].key # NoKey /\ msgs[x].alive /\ msgs[y].alive
    BY <1>4, <1>5, <1>7
  <2>2. x \in 1..Len(msgs) /\ y \in 1..Len(msgs)
    BY <1>4
  <2>3. ~(x < y) /\ ~(y < x)
    BY <2>1, <2>2 DEF CopiesCounted, MsgsCounted
  <2> QED  BY <2>2, <2>3
<1>8. IsFiniteSet(Copies(s))
  <2>1. IsFiniteSet(1..Len(msgs)) /\ Copies(s) \in SUBSET (1..Len(msgs))
    BY <1>0, <1>4, FS_Interval
  <2> QED  BY <2>1, FS_Subset
<1> QED  BY <1>3, <1>6, <1>7, <1>8, Smaller
-----------------------------------------------------------------------------
(* Acknowledgements.                                                       *)

\* The calls that a late copy depends on.
LEMMA AckSteps ==
    ASSUME Typed, [Next]_vars
    PROVE  \/ /\ UNCHANGED <<late, deleted>> /\ acks \subseteq acks'
              /\ \A u \in Users, k \in Nat : <<u, k>> \in acks' => <<u, k>> \in acks \/ k \in everAcked'
              /\ \/ UNCHANGED msgs
                 \/ /\ Len(msgs') = Len(msgs) + 1 /\ PublishedRow(msgs'[Len(msgs) + 1])
                    /\ \A k \in 1..Len(msgs) : msgs'[k] = msgs[k]
           \/ \E m \in 1..Len(msgs) :
                /\ DeleteMessage(m) /\ Len(msgs') = Len(msgs)
                /\ \A k \in 1..Len(msgs) : k # m => msgs'[k] = msgs[k]
                /\ SameRow(msgs'[m], msgs[m]) /\ ~msgs'[m].alive
           \/ \E u \in Users, m \in 1..Len(msgs) : UnacknowledgeMessage(u, m)
           \/ \E w \in Workers :
                /\ CreateMessageOnce(w) /\ StoreNew(w)
                /\ Len(msgs') = Len(msgs) + 1 /\ msgs'[Len(msgs) + 1] = Child(w)
                /\ \A k \in 1..Len(msgs) : msgs'[k] = msgs[k]
<1> DEFINE Quiet == /\ UNCHANGED <<late, deleted>> /\ acks \subseteq acks'
                    /\ \A u \in Users, k \in Nat : <<u, k>> \in acks' => <<u, k>> \in acks \/ k \in everAcked'
<1>1. CASE UNCHANGED <<clock, msgs, rules, states, acks, turnVars, deleted, history>> \/ ClockTick
  BY <1>1 DEF dbVars, ClockTick, counters, history
<1>2. ASSUME NEW a \in Apps, NEW p \in Priorities, Publish(a, p)
      PROVE  /\ Quiet
             /\ Len(msgs') = Len(msgs) + 1 /\ PublishedRow(msgs'[Len(msgs) + 1])
             /\ \A k \in 1..Len(msgs) : msgs'[k] = msgs[k]
  BY <1>2, Published
<1>4. ASSUME NEW w \in Workers, Turn(w) \/ Crash(w)
      PROVE  \/ Quiet /\ UNCHANGED msgs
             \/ /\ CreateMessageOnce(w) /\ StoreNew(w)
                /\ Len(msgs') = Len(msgs) + 1 /\ msgs'[Len(msgs) + 1] = Child(w)
                /\ \A k \in 1..Len(msgs) : msgs'[k] = msgs[k]
  BY <1>4, TurnStores, TurnsKeep
<1>5. CASE \E m \in 1..Len(msgs) : PublishQueue(m)
  BY <1>5 DEF PublishQueue, history
<1>6. CASE \E u \in Users, m \in 1..Len(msgs) : AcknowledgeMessage(u, m)
  BY <1>6 DEF AcknowledgeMessage
<1>7. CASE \E r \in RuleIds, def \in RuleDefs : CreateEscalation(r, def) \/ UpdateEscalation(r, def)
  BY <1>7 DEF CreateEscalation, UpdateEscalation, SaveEscalationRule
<1>8. CASE \E rs \in SUBSET RuleIds : DropRules(rs)
  BY <1>8 DEF DropRules, counters
<1> QED  BY Deleted, <1>1, <1>2, <1>4, <1>5, <1>6, <1>7, <1>8, Forms DEF StepForms

LEMMA RootStays ==
    ASSUME Grows, NEW m \in 1..Len(msgs)
    PROVE  RootOf(m)' = RootOf(m)
BY DEF Grows, SameRow, RootOf

LEMMA InitLate == Init => LateSettled
<1> SUFFICES ASSUME Init PROVE LateSettled
  OBVIOUS
<1>1. Dead = {}
  BY DEF Init, Dead
<1>2. AcksSettled
  BY <1>1, FS_EmptySet DEF Init, AcksSettled
<1>3. \A q \in LateKeys : late[q] = {}
  BY DEF Init
<1> QED  BY <1>2, <1>3 DEF LateSettled, LateOK

LEMMA NextAcks ==
    ASSUME Typed, Typed', [Next]_vars, LateSettled
    PROVE  AcksSettled'
<1>0. Grows /\ Len(msgs) \in Nat /\ Len(msgs') \in Nat /\ 1..Len(msgs) \subseteq 1..Len(msgs')
  BY NextGrows DEF Grows
<1>1. /\ deleted \in Nat /\ Cardinality(Dead) = deleted
      /\ \A u \in Users, k \in Nat : <<u, k>> \in acks => k \in everAcked
      /\ late \in [LateKeys -> SUBSET (1..Len(msgs))]
  BY DEF LateSettled, AcksSettled
<1>2. everAcked \subseteq everAcked'
  BY <1>0 DEF Grows
<1>3. IsFiniteSet(Dead)
  <2>1. IsFiniteSet(1..Len(msgs)) /\ Dead \in SUBSET (1..Len(msgs))
    BY <1>0, FS_Interval DEF Dead
  <2> QED  BY <2>1, FS_Subset
<1>4. ASSUME Dead' = Dead, deleted' = deleted PROVE (deleted \in Nat /\ Cardinality(Dead) = deleted)'
  BY <1>1, <1>4
<1>5. ASSUME UNCHANGED msgs PROVE Dead' = Dead
  BY <1>5 DEF Dead
<1>6. ASSUME NEW x, x.alive, Len(msgs') = Len(msgs) + 1, msgs'[Len(msgs) + 1] = x,
             \A k \in 1..Len(msgs) : msgs'[k] = msgs[k]
      PROVE  Dead' = Dead
  <2>1. \A k : k \in 1..Len(msgs') <=> k \in 1..Len(msgs) \/ k = Len(msgs) + 1
    BY <1>0, <1>6
  <2>2. \A k : k \in Dead' <=> k \in Dead
    BY <1>0, <1>6, <2>1 DEF Dead
  <2> QED  BY <2>2
<1>7. CASE /\ UNCHANGED <<late, deleted>> /\ acks \subseteq acks'
           /\ \A u \in Users, k \in Nat : <<u, k>> \in acks' => <<u, k>> \in acks \/ k \in everAcked'
           /\ \/ UNCHANGED msgs
              \/ /\ Len(msgs') = Len(msgs) + 1 /\ PublishedRow(msgs'[Len(msgs) + 1])
                 /\ \A k \in 1..Len(msgs) : msgs'[k] = msgs[k]
  <2>1. Dead' = Dead
    <3>1. CASE UNCHANGED msgs
      BY <1>5, <3>1
    <3>2. CASE /\ Len(msgs') = Len(msgs) + 1 /\ PublishedRow(msgs'[Len(msgs) + 1])
               /\ \A k \in 1..Len(msgs) : msgs'[k] = msgs[k]
      BY <1>6, <3>2 DEF PublishedRow
    <3> QED  BY <1>7, <3>1, <3>2
  <2>2. (deleted \in Nat /\ Cardinality(Dead) = deleted)'
    BY <1>4, <1>7, <2>1
  <2>3. (late \in [LateKeys -> SUBSET (1..Len(msgs))])'
    BY <1>0, <1>1, <1>7
  <2>4. \A u \in Users, k \in Nat : <<u, k>> \in acks' => k \in everAcked'
    BY <1>1, <1>2, <1>7
  <2> QED  BY <2>2, <2>3, <2>4 DEF AcksSettled
<1>8. ASSUME ForgetLate, Len(msgs') = Len(msgs) PROVE (late \in [LateKeys -> SUBSET (1..Len(msgs))])'
  BY <1>1, <1>8 DEF ForgetLate
<1>9. ASSUME NEW m \in 1..Len(msgs), DeleteMessage(m), Len(msgs') = Len(msgs),
             \A k \in 1..Len(msgs) : k # m => msgs'[k] = msgs[k],
             ~msgs'[m].alive
      PROVE  AcksSettled'
  <2>1. /\ Alive(m) /\ deleted' = deleted + 1 /\ ForgetLate /\ acks' \subseteq acks /\ everAcked' = everAcked
    BY <1>9 DEF DeleteMessage
  <2>2. m \notin Dead
    BY <2>1 DEF Dead, Alive
  <2>3. Dead' = Dead \cup {m}
    <3>1. \A k : k \in Dead' <=> k \in Dead \/ k = m
      BY <1>9 DEF Dead
    <3> QED  BY <3>1
  <2>4. Cardinality(Dead') = deleted + 1
    <3>1. Cardinality(Dead \cup {m}) = Cardinality(Dead) + 1
      BY <1>3, <2>2, FS_AddElement
    <3> QED  BY <1>1, <2>3, <3>1
  <2>5. (late \in [LateKeys -> SUBSET (1..Len(msgs))])'
    BY <1>8, <1>9, <2>1
  <2>6. (deleted \in Nat /\ Cardinality(Dead) = deleted)'
    BY <1>1, <2>1, <2>4
  <2> QED  BY <1>1, <2>1, <2>5, <2>6 DEF AcksSettled
<1>10. ASSUME NEW u \in Users, NEW m \in 1..Len(msgs), UnacknowledgeMessage(u, m) PROVE AcksSettled'
  <2>1. /\ UNCHANGED <<msgs, deleted, everAcked>> /\ ForgetLate /\ acks' \subseteq acks
    BY <1>10 DEF UnacknowledgeMessage, counters
  <2>2. (late \in [LateKeys -> SUBSET (1..Len(msgs))])'
    BY <1>8, <2>1
  <2>3. (deleted \in Nat /\ Cardinality(Dead) = deleted)'
    BY <1>4, <1>5, <2>1
  <2> QED  BY <1>1, <2>1, <2>2, <2>3 DEF AcksSettled
<1>11. ASSUME NEW w \in Workers, CreateMessageOnce(w), StoreNew(w),
              Len(msgs') = Len(msgs) + 1, msgs'[Len(msgs) + 1] = Child(w),
              \A k \in 1..Len(msgs) : msgs'[k] = msgs[k]
       PROVE  AcksSettled'
  <2>1. UNCHANGED <<deleted, acks, everAcked>> /\ pc[w] = "store"
    BY <1>11 DEF CreateMessageOnce
  <2>2. Dead' = Dead
    BY <1>6, <1>11, <2>1, ChildFacts
  <2>3. (deleted \in Nat /\ Cardinality(Dead) = deleted)'
    BY <1>4, <2>1, <2>2
  <2>4. (late \in [LateKeys -> SUBSET (1..Len(msgs))])'
    <3>1. Len(msgs) + 1 \in 1..Len(msgs')
      BY <1>0, <1>11
    <3>2. late' = [q \in LateKeys |->
                     IF q[1] = cur[w].id /\ AckedBy(q[2], q[1][2]) THEN late[q] \cup {Len(msgs) + 1}
                                                                 ELSE late[q]]
      BY <1>11 DEF StoreNew
    <3> QED  BY <1>0, <1>1, <3>1, <3>2
  <2> QED  BY <1>1, <2>1, <2>3, <2>4 DEF AcksSettled
<1> QED  BY <1>7, <1>9, <1>10, <1>11, AckSteps
\* While a message is acknowledged no turn gets past the look at it.
LEMMA PastBefore ==
    ASSUME Typed, NEW w \in Workers, Untouched(w) \/ Move(w), NEW q \in LateKeys,
           AckedBy(q[2], q[1][2]), PastCheck(w, q)'
    PROVE  PastCheck(w, q) /\ cur'[w].st.count = cur[w].st.count
<1>0. q[2] \in {"message", "root"} /\ cur'[w].id = q[1]
      /\ pc'[w] \in {"rule", "resolve", "store", "ackRoot"}
      /\ (pc'[w] = "ackRoot" => q[2] = "message")
  BY DEF PastCheck, LateKeys
<1>1. CASE Untouched(w)
  BY <1>1 DEF Untouched, PastCheck
<1>2. CASE Goes(w)
  <2>1. cur'[w] = cur[w] /\ cur[w].id = q[1]
    BY <1>0, <1>2 DEF Goes
  <2>2. CASE /\ pc[w] = "ack" /\ ~IsMessageAcknowledged(q[1][2])
             /\ pc'[w] = IF RootOf(q[1][2]) = q[1][2] THEN "rule" ELSE "ackRoot"
    <3>1. q[2] = "root"
      BY <2>2 DEF AckedBy, PastCheck, LateKeys
    <3> QED  BY <1>0, <2>2, <3>1 DEF AckedBy
  <2>3. CASE pc[w] = "ackRoot" /\ ~IsMessageAcknowledged(RootOf(q[1][2])) /\ pc'[w] = "rule"
    <3>1. q[2] = "message"
      BY <1>0, <2>3 DEF AckedBy
    <3> QED  BY <2>1, <2>3, <3>1 DEF PastCheck
  <2>4. CASE pc[w] = "resolve"
    BY <2>1, <2>4 DEF PastCheck
  <2>5. CASE pc[w] = "deliver" /\ pc'[w] = "chain"
    BY <1>0, <2>5
  <2> QED  BY <1>2, <2>1, <2>2, <2>3, <2>4, <2>5 DEF Goes
<1>3. CASE ReadsRule(w)
  BY <1>0, <1>3 DEF ReadsRule, Becomes, PastCheck
<1>4. CASE Fetches(w) \/ Drops(w) \/ Takes(w) \/ Cancels(w) \/ Stores(w) \/ Advances(w)
  <2>1. pc'[w] \in {"idle", "next", "ack", "save", "deliver"}
    BY <1>4 DEF Fetches, Drops, Takes, Cancels, Stores, Advances, Becomes, Waiting
  <2> QED  BY <1>0, <2>1
<1> QED  BY <1>1, <1>2, <1>3, <1>4 DEF Move

\* Late copies stay late as long as the acknowledgement lasts.
LEMMA LateStays ==
    ASSUME Typed, Typed', [Next]_vars, NEW q \in LateKeys, LateOK(q), AcksSettled,
           late'[q] = late[q], late'[q] # {} => (AckedBy(q[2], q[1][2]))'
    PROVE  LateOK(q)'
<1>0. Grows /\ Len(msgs) \in Nat /\ Len(msgs') \in Nat /\ 1..Len(msgs) \subseteq 1..Len(msgs')
  BY NextGrows DEF Grows
<1>1. late[q] \subseteq 1..Len(msgs)
  BY DEF AcksSettled
<1>2. \A k \in 1..Len(msgs) : msgs'[k].key = msgs[k].key
  BY <1>0 DEF Grows, SameRow
<1>3. \A l \in late[q] : First(l)' <=> First(l)
  <2> SUFFICES ASSUME NEW l \in late[q] PROVE First(l)' <=> First(l)
    OBVIOUS
  <2>1. l \in 1..Len(msgs) /\ \A k : k \in 1..Len(msgs') /\ k < l <=> k \in 1..Len(msgs) /\ k < l
    BY <1>0, <1>1
  <2> QED  BY <1>2, <2>1 DEF First
<1>4. ASSUME NEW w \in Workers, PastCheck(w, q)', late[q] # {}
      PROVE  PastCheck(w, q) /\ cur'[w].st.count = cur[w].st.count
  <2>1. Untouched(w) \/ Move(w)
    BY TurnSteps DEF Untouched, turnVars, KeepsOthers
  <2>2. AckedBy(q[2], q[1][2])
    BY <1>4 DEF LateOK
  <2> QED  BY <1>4, <2>1, <2>2, PastBefore
<1>5. late'[q] # {} => q[1][2] \in 1..Len(msgs')
  BY <1>0 DEF LateOK
<1>6. \A l \in late[q] : msgs'[l].key # NoKey /\ msgs'[l].key[1] = q[1]
  BY <1>1, <1>2 DEF LateOK
<1>7. ASSUME NEW l \in late[q], First(l)'
      PROVE  /\ \A k \in late[q] : First(k)' => k = l
             /\ \A w \in Workers : PastCheck(w, q)' => cur'[w].st.count <= msgs'[l].key[2]
  BY <1>1, <1>2, <1>3, <1>4, <1>7 DEF LateOK
<1> QED  BY <1>5, <1>6, <1>7 DEF LateOK

\* The store of a copy.
LEMMA LateStored ==
    ASSUME Typed, Typed', [Next]_vars, CopiesCounted, AcksSettled, NEW q \in LateKeys, LateOK(q),
           NEW w \in Workers, CreateMessageOnce(w), StoreNew(w),
           Len(msgs') = Len(msgs) + 1, msgs'[Len(msgs) + 1] = Child(w),
           q[1] = cur[w].id, AckedBy(q[2], q[1][2])
    PROVE  LateOK(q)'
<1>0. Grows /\ Len(msgs) \in Nat /\ Len(msgs') \in Nat /\ 1..Len(msgs) \subseteq 1..Len(msgs')
  BY NextGrows DEF Grows
<1>1. PICK new \in Nat : new = Len(msgs) + 1
  BY <1>0
<1>2. late[q] \subseteq 1..Len(msgs) /\ late'[q] = late[q] \cup {new}
  BY <1>1 DEF AcksSettled, StoreNew
<1>3. \A k \in 1..Len(msgs) : msgs'[k].key = msgs[k].key
  BY <1>0 DEF Grows, SameRow
<1>4. \A l \in late[q] : First(l)' <=> First(l)
  <2> SUFFICES ASSUME NEW l \in late[q] PROVE First(l)' <=> First(l)
    OBVIOUS
  <2>1. l \in 1..Len(msgs) /\ \A k : k \in 1..Len(msgs') /\ k < l <=> k \in 1..Len(msgs) /\ k < l
    BY <1>0, <1>2
  <2> QED  BY <1>3, <2>1 DEF First
<1>5. pc[w] = "store" /\ UNCHANGED acks
  BY DEF CreateMessageOnce
<1>6. PICK s \in StateIds, c \in Nat : s = cur[w].id /\ c = cur[w].st.count /\ s[2] \in 1..Len(msgs)
  BY <1>5, ChildFacts
<1>7. msgs'[new].key = <<s, c>> /\ msgs'[new].key # NoKey /\ msgs'[new].key[1] = s /\ msgs'[new].key[2] = c
  BY <1>1, <1>5, <1>6, ChildFacts
<1>8. (AckedBy(q[2], q[1][2]))' /\ q[1] = s
  BY <1>0, <1>5, <1>6, RootStays DEF AckedBy, IsMessageAcknowledged
<1>9. First(new)' => ~IsStored(s, c)
  <2>1. \A k \in 1..Len(msgs) : k \in 1..Len(msgs') /\ k < new
    BY <1>0, <1>1
  <2> QED  BY <1>3, <1>7, <2>1 DEF First, IsStored
<1>10. ASSUME NEW v \in Workers, PastCheck(v, q)'
       PROVE  PastCheck(v, q) /\ cur'[v].st.count = cur[v].st.count /\ InWork(v)
  <2>1. Untouched(v) \/ Move(v)
    BY TurnSteps DEF Untouched, turnVars, KeepsOthers
  <2>2. PastCheck(v, q) /\ cur'[v].st.count = cur[v].st.count
    BY <1>10, <2>1, PastBefore
  <2> QED  BY <2>2 DEF PastCheck, InWork, Waiting
\* When the new copy is the first with its count, no late one was the first with its.
<1>11. ASSUME NEW k \in late[q], First(k) PROVE IsStored(s, c)
  <2>1. k \in 1..Len(msgs) /\ msgs[k].key # NoKey /\ msgs[k].key[1] = s
    BY <1>2, <1>8, <1>11 DEF LateOK
  <2>2. PICK n \in Nat : n = msgs[k].key[2] /\ msgs[k].key = <<s, n>>
    BY <2>1, KeptKey
  <2>3. PastCheck(w, q)
    BY <1>5, <1>6, <1>8 DEF PastCheck
  <2>4. c <= n
    BY <1>6, <1>11, <2>2, <2>3 DEF LateOK
  <2>5. CASE c = n
    BY <2>1, <2>2, <2>5 DEF IsStored
  <2>6. CASE c < n
    <3>1. Behind(s, n)
      BY <2>1, <2>2 DEF CopiesCounted, MsgsCounted
    <3> QED  BY <2>6, <3>1 DEF Behind
  <2> QED  BY <2>4, <2>5, <2>6
<1>12. ASSUME First(new)', NEW v \in Workers, PastCheck(v, q)' PROVE cur'[v].st.count <= c
  <2>1. PastCheck(v, q) /\ cur'[v].st.count = cur[v].st.count /\ InWork(v)
    BY <1>10, <1>12
  <2>2. cur[v].id = s /\ cur[v].st.count \in Nat /\ Behind(cur[v].id, cur[v].st.count)
    BY <1>8, <2>1, Shapes DEF PastCheck, CopiesCounted, WorkCounted, Counted, Typed, TurnsTyped
  <2>3. ~(c < cur[v].st.count)
    BY <1>9, <1>12, <2>2 DEF Behind
  <2> QED  BY <2>1, <2>2, <2>3
<1>13. q[1][2] \in 1..Len(msgs')
  BY <1>0, <1>6, <1>8
<1>14. \A l \in late'[q] : msgs'[l].key # NoKey /\ msgs'[l].key[1] = q[1]
  BY <1>2, <1>3, <1>7, <1>8 DEF LateOK
<1>15. ASSUME NEW l \in late'[q], First(l)'
       PROVE  /\ \A k \in late'[q] : First(k)' => k = l
              /\ \A v \in Workers : PastCheck(v, q)' => cur'[v].st.count <= msgs'[l].key[2]
  <2>1. CASE l = new
    <3>1. \A k \in late[q] : ~First(k)'
      BY <1>4, <1>9, <1>11, <1>15, <2>1
    <3>2. \A k \in late'[q] : First(k)' => k = l
      BY <1>2, <2>1, <3>1
    <3> QED  BY <1>7, <1>12, <1>15, <2>1, <3>2
  <2>2. CASE l \in late[q]
    <3>1. ~First(new)'
      BY <1>4, <1>9, <1>11, <1>15, <2>2
    <3>2. First(l) /\ \A k \in late[q] : First(k)' => k = l
      BY <1>4, <1>15, <2>2 DEF LateOK
    <3>3. \A v \in Workers : PastCheck(v, q)' => cur'[v].st.count <= msgs'[l].key[2]
      BY <1>2, <1>3, <1>10, <2>2, <3>2 DEF LateOK
    <3> QED  BY <1>2, <3>1, <3>2, <3>3
  <2> QED  BY <1>2, <2>1, <2>2
<1> QED  BY <1>8, <1>13, <1>14, <1>15 DEF LateOK

LEMMA NextLate ==
    ASSUME Typed, Typed', [Next]_vars, CopiesCounted, LateSettled
    PROVE  LateSettled'
<1>0. Grows /\ Len(msgs) \in Nat /\ DOMAIN msgs = 1..Len(msgs) /\ AcksSettled
      /\ late \in [LateKeys -> SUBSET (1..Len(msgs))]
  BY NextGrows, RowFacts DEF Grows, Typed, LateSettled, AcksSettled
<1>1. SUFFICES ASSUME NEW q \in LateKeys PROVE LateOK(q)'
  BY NextAcks DEF LateSettled
<1>2. LateOK(q)
  BY DEF LateSettled
<1>3. ASSUME UNCHANGED late, acks \subseteq acks' PROVE LateOK(q)'
  <2>1. late'[q] # {} => (AckedBy(q[2], q[1][2]))'
    <3> SUFFICES ASSUME late[q] # {} PROVE (AckedBy(q[2], q[1][2]))'
      BY <1>3
    <3>1. q[1][2] \in 1..Len(msgs) /\ AckedBy(q[2], q[1][2])
      BY <1>2 DEF LateOK
    <3>2. RootOf(q[1][2])' = RootOf(q[1][2])
      BY <1>0, <3>1, RootStays
    <3> QED  BY <1>3, <3>1, <3>2 DEF AckedBy, IsMessageAcknowledged
  <2> QED  BY <1>0, <1>2, <1>3, <2>1, LateStays
<1>4. ASSUME ForgetLate PROVE LateOK(q)'
  <2>1. late'[q] = IF q[1][2] \in 1..Len(msgs) /\ ~AckedBy(q[2], q[1][2])' THEN {} ELSE late[q]
    BY <1>0, <1>4 DEF ForgetLate
  <2>2. CASE late'[q] = {}
    BY <2>2 DEF LateOK
  <2>3. CASE late'[q] # {}
    <3>1. late'[q] = late[q] /\ (q[1][2] \in 1..Len(msgs) => AckedBy(q[2], q[1][2])')
      BY <2>1, <2>3
    <3>2. q[1][2] \in 1..Len(msgs)
      BY <1>2, <2>3, <3>1 DEF LateOK
    <3> QED  BY <1>0, <1>2, <3>1, <3>2, LateStays
  <2> QED  BY <2>2, <2>3
<1>5. ASSUME NEW w \in Workers, CreateMessageOnce(w), StoreNew(w),
             Len(msgs') = Len(msgs) + 1, msgs'[Len(msgs) + 1] = Child(w)
      PROVE  LateOK(q)'
  <2>1. CASE q[1] = cur[w].id /\ AckedBy(q[2], q[1][2])
    BY <1>0, <1>2, <1>5, <2>1, LateStored
  <2>2. CASE ~(q[1] = cur[w].id /\ AckedBy(q[2], q[1][2]))
    <3>1. late'[q] = late[q] /\ acks' = acks
      BY <1>5, <2>2 DEF StoreNew, CreateMessageOnce
    <3>2. late'[q] # {} => (AckedBy(q[2], q[1][2]))'
      <4> SUFFICES ASSUME late[q] # {} PROVE (AckedBy(q[2], q[1][2]))'
        BY <3>1
      <4>1. q[1][2] \in 1..Len(msgs) /\ AckedBy(q[2], q[1][2])
        BY <1>2 DEF LateOK
      <4>2. RootOf(q[1][2])' = RootOf(q[1][2])
        BY <1>0, <4>1, RootStays
      <4> QED  BY <3>1, <4>1, <4>2 DEF AckedBy, IsMessageAcknowledged
    <3> QED  BY <1>0, <1>2, <3>1, <3>2, LateStays
  <2> QED  BY <2>1, <2>2
<1>6. CASE \E m \in 1..Len(msgs) : DeleteMessage(m)
  BY <1>4, <1>6 DEF DeleteMessage
<1>7. CASE \E u \in Users, m \in 1..Len(msgs) : UnacknowledgeMessage(u, m)
  BY <1>4, <1>7 DEF UnacknowledgeMessage
<1> QED  BY <1>3, <1>5, <1>6, <1>7, AckSteps
THEOREM AlwaysLate == Spec => []LateSettled
<1>1. Typed /\ Typed' /\ [Next]_vars /\ CopiesCounted /\ LateSettled => LateSettled'
  BY NextLate
<1> QED  BY <1>1, InitLate, AlwaysTyped, AlwaysCounted, PTL DEF Spec

Earliest(l) == CHOOSE k \in 1..Len(msgs) : msgs[k].key = msgs[l].key /\ First(k)

LEMMA EarliestIs ==
    ASSUME Len(msgs) \in Nat, NEW l \in 1..Len(msgs)
    PROVE  /\ Earliest(l) \in 1..Len(msgs) /\ Earliest(l) <= l
           /\ msgs[Earliest(l)].key = msgs[l].key /\ First(Earliest(l))
<1>1. PICK S : S = {k \in 1..Len(msgs) : msgs[k].key = msgs[l].key}
  OBVIOUS
<1>2. S \in SUBSET Nat /\ l \in S
  BY <1>1
<1>3. PICK k \in S : \A i \in S : k <= i
  BY <1>2, LeastElement
<1>4. k \in 1..Len(msgs) /\ msgs[k].key = msgs[l].key
  BY <1>1
<1>5. First(k)
  BY <1>1, <1>3, <1>4 DEF First
<1>6. /\ Earliest(l) \in 1..Len(msgs)
      /\ msgs[Earliest(l)].key = msgs[l].key /\ First(Earliest(l))
  BY <1>4, <1>5, Zenon DEF Earliest
<1> QED  BY <1>6 DEF First

\* Every late copy stands for a deleted message, but the one that is stored
\* first: it is deleted itself, or the first with its key was.
LEMMA LateBounds ==
    ASSUME Typed, CopiesCounted, LateSettled
    PROVE  AckStops
<1>0. Len(msgs) \in Nat
  BY DEF Typed, MsgsTyped
<1>1. SUFFICES ASSUME NEW q \in LateKeys PROVE Cardinality(late[q]) <= 1 + deleted
  BY DEF AckStops
<1>2. LateOK(q) /\ late[q] \subseteq 1..Len(msgs) /\ deleted \in Nat /\ Cardinality(Dead) = deleted
  BY DEF LateSettled, AcksSettled
<1>3. PICK S, T : S = late[q] /\ T = Dead \cup {0}
  OBVIOUS
<1>4. IsFiniteSet(S) /\ IsFiniteSet(Dead)
  <2>1. Dead \subseteq 1..Len(msgs) /\ S \subseteq 1..Len(msgs)
    BY <1>2, <1>3 DEF Dead
  <2>2. IsFiniteSet(1..Len(msgs))
    BY <1>0, FS_Interval
  <2> QED  BY <2>1, <2>2, FS_Subset
<1>5. IsFiniteSet(T) /\ Cardinality(T) = 1 + deleted
  <2>1. 0 \notin Dead
    BY <1>0 DEF Dead
  <2>2. IsFiniteSet(Dead \cup {0}) /\ Cardinality(Dead \cup {0}) = Cardinality(Dead) + 1
    BY <1>4, <2>1, FS_AddElement
  <2> QED  BY <1>2, <1>3, <2>2
<1>6. \A l \in S : /\ l \in 1..Len(msgs) /\ l # 0
                   /\ Earliest(l) \in 1..Len(msgs) /\ Earliest(l) <= l /\ Earliest(l) # 0
                   /\ msgs[Earliest(l)].key = msgs[l].key /\ First(Earliest(l))
                   /\ msgs[l].key # NoKey
  BY <1>0, <1>2, <1>3, EarliestIs DEF LateOK
<1>7. PICK f : f = [l \in S |-> IF ~msgs[l].alive THEN l
                                ELSE IF Earliest(l) \in S THEN 0 ELSE Earliest(l)]
  OBVIOUS
<1>8. \A i, j \in 1..Len(msgs) :
        i # j /\ msgs[i].key # NoKey /\ msgs[i].key = msgs[j].key => ~msgs[i].alive \/ ~msgs[j].alive
  <2>1. \A i, j \in 1..Len(msgs) : i # j => i < j \/ j < i
    OBVIOUS
  <2> QED  BY <2>1 DEF CopiesCounted, MsgsCounted
<1>9. f \in [S -> T]
  <2>1. \A l \in S : msgs[l].alive /\ Earliest(l) \notin S => ~msgs[Earliest(l)].alive
    BY <1>6, <1>8
  <2> QED  BY <1>3, <1>6, <1>7, <2>1 DEF Dead
<1>10. ASSUME NEW x \in S, NEW y \in S, f[x] = f[y] PROVE x = y
  <2>1. CASE msgs[x].alive /\ msgs[y].alive
    <3>1. Earliest(x) = Earliest(y)
      <4>1. CASE Earliest(x) \in S
        <5>1. Earliest(y) \in S
          BY <1>6, <1>7, <1>10, <2>1, <4>1
        <5> QED  BY <1>2, <1>3, <1>6, <4>1, <5>1 DEF LateOK
      <4>2. CASE Earliest(x) \notin S
        BY <1>6, <1>7, <1>10, <2>1, <4>2
      <4> QED  BY <4>1, <4>2
    <3>2. msgs[x].key = msgs[y].key
      BY <1>6, <3>1
    <3> QED  BY <1>6, <1>8, <2>1, <3>2
  <2>2. CASE ~msgs[x].alive \/ ~msgs[y].alive
    BY <1>6, <1>7, <1>10, <2>2
  <2> QED  BY <2>1, <2>2
<1>11. Cardinality(S) \in Nat /\ Cardinality(T) \in Nat
  BY <1>4, <1>5, FS_CardinalityType
<1>12. ASSUME Cardinality(T) < Cardinality(S) PROVE FALSE
  <2>1. \E x, y \in S : x # y /\ f[x] = f[y]
    BY <1>4, <1>5, <1>9, <1>12, FS_PigeonHole, Zenon
  <2> QED  BY <1>10, <2>1
<1> QED  BY <1>3, <1>5, <1>11, <1>12

\* However turns overlap, fail and start again: no more copies of a state than
\* its rule allows, and after an acknowledgement one, or one for each deletion.
THEOREM CopiesStayBounded == Spec => []CopiesBounded
<1>1. Typed /\ CopiesCounted /\ LateSettled => CopiesBounded
  BY CountedBounds, LateBounds DEF CopiesBounded
<1> QED  BY <1>1, AlwaysTyped, AlwaysCounted, AlwaysLate, PTL
-----------------------------------------------------------------------------
(* Excuses.                                                                *)

LEMMA ExcusedStays ==
    ASSUME Grows, NEW s \in StateIds, s[2] \in 1..Len(msgs), Excused(s)
    PROVE  Excused(s)'
<1>1. RootOf(s[2])' = RootOf(s[2])
  BY RootStays
<1>2. CASE {s[2], RootOf(s[2])} \cap everAcked # {}
  BY <1>1, <1>2 DEF Grows, Excused
<1>3. CASE s[1] \in touched
  BY <1>3 DEF Grows, Excused
<1>4. CASE ~msgs[s[2]].alive
  BY <1>4 DEF Grows, SameRow, Excused
<1>5. CASE {<<"source", s>>, <<"rule", s>>} \cap misled # {}
  BY <1>5 DEF Grows, Excused
<1> QED  BY <1>2, <1>3, <1>4, <1>5 DEF Excused

LEMMA InitReasoned == Init => WorkReasoned
BY DEF Init, WorkReasoned, InWork, Waiting

\* A turn closes a state without a copy for an acknowledgement, a message that
\* is gone, or a rule that is, or seems to be.
LEMMA CancelExcuse ==
    ASSUME Typed, Grows, Chained, LateSettled, NEW w \in Workers, Cancels(w),
           NEW s \in StateIds, s = cur[w].id
    PROVE  Excused(s)'
<1>0. pc[w] \in Checking /\ InWork(w) /\ cur[w] \in Items /\ cur[w].id[2] \in 1..Len(msgs)
  BY DEF Cancels, Checking, InWork, Waiting, Typed, TurnsTyped
<1>1. ASSUME NEW k \in Nat, IsMessageAcknowledged(k) PROVE k \in everAcked
  BY <1>1 DEF IsMessageAcknowledged, LateSettled, AcksSettled
<1>2. cur[w].id[2] \in Nat /\ RootOf(cur[w].id[2]) \in Nat
  <2>1. msgs[cur[w].id[2]].root \in Nat
    BY <1>0, RowFacts DEF Typed, MsgsTyped
  <2> QED  BY <1>0, <2>1 DEF RootOf
<1>3. CASE IsMessageAcknowledged(cur[w].id[2]) \/ IsMessageAcknowledged(RootOf(cur[w].id[2]))
  <2>1. Excused(s)
    BY <1>1, <1>2, <1>3 DEF Excused
  <2> QED  BY <1>0, <2>1, ExcusedStays
<1>4. CASE rules[s[1]].enabled => <<"rule", s>> \in misled'
  <2>1. Escalates(s)
    BY <1>0 DEF Chained, WorkEscalates
  <2>2. CASE s[1] \in touched
    <3>1. Excused(s)
      BY <2>2 DEF Excused
    <3> QED  BY <1>0, <3>1, ExcusedStays
  <2>3. CASE s[1] \notin touched
    BY <1>4, <2>1, <2>3 DEF Escalates, Excused
  <2> QED  BY <2>2, <2>3
<1> QED  BY <1>3, <1>4 DEF Cancels

LEMMA WorkerReasons ==
    ASSUME Typed, Typed', [Next]_vars, Chained, CopiesCounted, LateSettled,
           WorkReasoned, NEW w \in Workers, Untouched(w) \/ Move(w), InWork(w)'
    PROVE  Reasoned(cur[w].id, cur[w].st)'
<1>0. Grows /\ TurnsTyped /\ TurnsTyped'
  BY NextGrows DEF Typed
<1> USE DEF InWork, Waiting
\* A row with an excuse after the step is right; one that is right stays right.
<1>9. ASSUME NEW s \in StateIds, NEW st, st.completed /\ st.count = 0 => Excused(s)',
             cur'[w].id = s, cur'[w].st = st
      PROVE  Reasoned(cur[w].id, cur[w].st)'
  <2>2. ASSUME cur'[w].st.completed, cur'[w].st.count = 0 PROVE Excused(cur[w].id)'
    <3>1. Excused(s)'
      BY <1>9, <2>2
    <3> QED  BY <1>9, <3>1 DEF Excused, RootOf
  <2> QED  BY <2>2 DEF Reasoned
<1>1. ASSUME NEW s \in StateIds, NEW st, s[2] \in 1..Len(msgs), Reasoned(s, st),
             cur'[w].id = s, cur'[w].st = st
      PROVE  Reasoned(cur[w].id, cur[w].st)'
  <2>1. st.completed /\ st.count = 0 => Excused(s)'
    BY <1>0, <1>1, ExcusedStays DEF Reasoned
  <2> QED  BY <1>1, <1>9, <2>1
<1>2. ASSUME InWork(w), cur'[w].id = cur[w].id, Reasoned(cur[w].id, cur'[w].st)
      PROVE  Reasoned(cur[w].id, cur[w].st)'
  <2>1. cur[w].id \in StateIds /\ cur[w].id[2] \in 1..Len(msgs)
    BY <1>0, <1>2, Shapes DEF TurnsTyped
  <2>2. PICK s, st : s = cur[w].id /\ st = cur'[w].st
    BY <2>1
  <2> QED  BY <1>1, <1>2, <2>1, <2>2
<1>3. CASE Untouched(w)
  BY <1>2, <1>3 DEF Untouched, WorkReasoned
<1>4. CASE Fetches(w) \/ Drops(w)
  BY <1>4 DEF Fetches, Drops
<1>5. CASE Takes(w)
  <2>6. PICK item \in todo[w] :
          \/ Alive(item.id[2]) /\ pc'[w] = "ack" /\ cur'[w] = item
          \/ /\ Alive(item.id[2]) => <<"source", item.id>> \in misled'
             /\ pc'[w] = "save"
             /\ cur'[w] = [id |-> item.id, st |-> Closed(item.st), rule |-> item.rule,
                           child |-> item.child]
    BY <1>5, Zenon DEF Takes
  <2>1. \/ Alive(item.id[2]) /\ pc'[w] = "ack" /\ cur'[w] = item
        \/ /\ Alive(item.id[2]) => <<"source", item.id>> \in misled'
           /\ cur'[w].id = item.id /\ cur'[w].st = Closed(item.st)
    BY <2>6
  <2>2. item.id \in StateIds /\ item.id[2] \in 1..Len(msgs) /\ ~item.st.completed
    BY <1>0, Shapes DEF TurnsTyped, CopiesCounted, WorkCounted
  <2>3. PICK s, st : s \in StateIds /\ s = item.id /\ st = cur'[w].st /\ s[2] \in 1..Len(msgs)
    BY <2>2
  <2>4. st.completed /\ st.count = 0 => Excused(s)'
    <3>1. CASE cur'[w] = item
      BY <2>2, <2>3, <3>1
    <3>2. CASE ~Alive(item.id[2])
      <4>1. DOMAIN msgs = 1..Len(msgs)
        BY RowFacts DEF Typed
      <4>2. Excused(s)
        BY <2>3, <3>2, <4>1 DEF Alive, Excused
      <4> QED  BY <1>0, <2>3, <4>2, ExcusedStays
    <3>3. CASE <<"source", item.id>> \in misled'
      BY <2>3, <3>3 DEF Excused
    <3> QED  BY <2>1, <3>1, <3>2, <3>3
  <2>5. cur'[w].id = s
    BY <2>1, <2>3
  <2> QED  BY <1>9, <2>3, <2>4, <2>5
<1>6. CASE Goes(w) \/ ReadsRule(w) \/ Stores(w)
  <2>1. InWork(w) /\ cur'[w].id = cur[w].id /\ cur'[w].st = cur[w].st
    BY <1>6 DEF Goes, ReadsRule, Stores, Becomes
  <2> QED  BY <1>2, <2>1 DEF WorkReasoned
<1>7. CASE Cancels(w)
  <2>1. InWork(w) /\ cur'[w].id = cur[w].id
    BY <1>7 DEF Cancels, Checking, Becomes
  <2>2. PICK s, st : s \in StateIds /\ s = cur[w].id /\ st = cur'[w].st
    BY <1>0, <2>1, Shapes DEF TurnsTyped
  <2>3. Excused(s)'
    BY <1>0, <1>7, <2>2, CancelExcuse
  <2> QED  BY <1>9, <2>1, <2>2, <2>3
<1>8. CASE Advances(w)
  <2>1. InWork(w) /\ cur'[w].id = cur[w].id /\ cur'[w].st = Advanced(cur[w].st, cur[w].rule, now[w])
    BY <1>8 DEF Advances, Becomes
  <2>2. cur[w].st.count \in Nat
    BY <1>0, <2>1, Shapes DEF TurnsTyped
  <2>3. cur'[w].st.count = cur[w].st.count + 1
    BY <2>1 DEF Advanced, State
  <2> QED  BY <1>2, <2>1, <2>2, <2>3 DEF Reasoned
<1> QED  BY <1>3, <1>4, <1>5, <1>6, <1>7, <1>8 DEF Move

LEMMA NextReasoned ==
    ASSUME Typed, Typed', [Next]_vars, Chained, CopiesCounted, LateSettled, WorkReasoned
    PROVE  WorkReasoned'
<1>0. Grows
  BY NextGrows
<1>1. ASSUME NEW w \in Workers, InWork(w)' PROVE Reasoned(cur[w].id, cur[w].st)'
  <2>1. Untouched(w) \/ Move(w)
    BY TurnSteps DEF Untouched, turnVars, KeepsOthers
  <2> QED  BY <1>1, <2>1, WorkerReasons
<1>2. ASSUME NEW s \in StateIds, states'[s] # NoState PROVE Reasoned(s, states[s])'
  <2>1. PICK st : st = states'[s]
    OBVIOUS
  <2>2. s[2] \in 1..Len(msgs) /\ Reasoned(s, st)
    <3>1. CASE states'[s] = states[s]
      BY <1>2, <2>1, <3>1 DEF WorkReasoned, Typed, TablesTyped
    <3>2. CASE s[2] \in 1..Len(msgs) /\ \E due : states'[s] = State(due, 0, FALSE)
      BY <2>1, <3>2 DEF State, Reasoned
    <3>3. CASE \E w \in Workers : pc[w] = "save" /\ s = cur[w].id /\ states'[s] = cur[w].st
      BY <2>1, <3>3 DEF WorkReasoned, Typed, TurnsTyped, InWork, Waiting
    <3> QED  BY <1>2, <3>1, <3>2, <3>3, StateSteps
  <2>3. st.completed /\ st.count = 0 => Excused(s)'
    BY <1>0, <2>2, ExcusedStays DEF Reasoned
  <2> QED  BY <2>1, <2>3 DEF Reasoned
<1> QED  BY <1>1, <1>2 DEF WorkReasoned

\* A state that is closed without a copy has an acknowledgement, a changed rule,
\* a deleted message or a failed read of the message or the rule to show.
THEOREM ClosedWithReason == Spec => []EscalatedUnlessExcused
<1>1. Typed /\ Typed' /\ [Next]_vars /\ Chained /\ CopiesCounted /\ LateSettled /\ WorkReasoned
      => WorkReasoned'
  BY NextReasoned
<1>2. WorkReasoned => EscalatedUnlessExcused
  BY DEF WorkReasoned, EscalatedUnlessExcused, Reasoned
<1> QED  BY <1>1, <1>2, InitReasoned, AlwaysTyped, AlwaysChained, AlwaysCounted, AlwaysLate, PTL
         DEF Spec
=============================================================================
