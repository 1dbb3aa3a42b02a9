--------------------------- MODULE Groups_proofs ---------------------------
(***************************************************************************)
(* Proofs about Groups, for any number of entities and copies: instances   *)
(* are images of the group, what is read back is what was written, and the *)
(* handles rewritten in the sources are put back.                          *)
(*                                                                         *)
(* A world is a function from the ids of its entities to their records, as *)
(* ent is, and as the records on the stream are by their numbers.  The     *)
(* invariant GroupsInv says that the groups of both are in order: what a   *)
(* group leads to is closed under groups (WholeIs), so patching its        *)
(* members patches every handle that lists one of them.  From this follow  *)
(* that a copy has the shape of what it was copied from (FlattenedSame),   *)
(* and that deserialize reads as many records as serialize wrote           *)
(* (SerializedStream, ReadIs).                                             *)
(***************************************************************************)
EXTENDS Groups, FiniteSetTheorems, SequenceTheorems, WellFoundedInduction, TLAPS

-----------------------------------------------------------------------------
(* Counting up, and functions that are defined by it.                      *)

\* A set of numbers has a least one.
LEMMA Least ==
    ASSUME NEW S, S \subseteq Nat, S # {}
    PROVE  \E x \in S : \A y \in S : x <= y
<1> DEFINE R == OpToRel(<, Nat)
<1>1. IsWellFoundedOn(R, Nat)
    BY NatLessThanWellFounded
<1>2. \A x, y \in Nat : y < x => <<y, x>> \in R
    BY DEF OpToRel
<1> HIDE DEF R
<1>3. PICK x \in S : \A y \in S : ~ (<<y, x>> \in R)
    BY <1>1, WFMin
<1>4. ASSUME NEW y \in S PROVE x <= y
  <2>1. x \in Nat /\ y \in Nat /\ ~ (y < x)
    BY <1>2, <1>3
  <2> QED BY <2>1
<1> QED BY <1>3, <1>4

\* A set that has a number, and with each the next, has all of them.
LEMMA CountUp ==
    ASSUME NEW a \in Int, NEW m \in Int, NEW P,
           a \in P, \A i \in Int : a < i /\ i <= m /\ i - 1 \in P => i \in P
    PROVE  a .. m \subseteq P
<1> SUFFICES ASSUME NEW z \in a .. m, z \notin P PROVE FALSE
    OBVIOUS
<1> DEFINE bad == {k \in Nat : a + k <= m /\ a + k \notin P}
<1>1. z - a \in bad
    OBVIOUS
<1>2. PICK k \in bad : \A y \in bad : k <= y
    BY <1>1, Least
<1>3. k \in Nat /\ a + k <= m /\ a + k \notin P
    OBVIOUS
<1>4. k # 0
    BY <1>3
<1>5. k - 1 \notin bad
    BY <1>2, <1>3
<1>6. a + (k - 1) \in P
    BY <1>3, <1>4, <1>5
<1>7. a + k \in Int /\ a < a + k /\ (a + k) - 1 = a + (k - 1)
    BY <1>3, <1>4
<1> QED BY <1>3, <1>6, <1>7

\* f counts up from base by step.
Stepped(f, a, m, base, step) ==
    f[a] = base /\ \A i \in Int : a < i /\ i <= m => f[i] = step[i][f[i - 1]]
StepsIn(S, a, m, base, step) ==
    base \in S /\ \A i \in Int, s \in S : a < i /\ i <= m => step[i][s] \in S

\* There is a function that counts up to m so.
LEMMA RecursionTo ==
    ASSUME NEW a \in Int, NEW m \in Int, a <= m, NEW S, NEW base, NEW step,
           StepsIn(S, a, m, base, step)
    PROVE  \E f \in [a .. m -> S] : Stepped(f, a, m, base, step)
<1> DEFINE P == {k \in a .. m : \E f \in [a .. k -> S] : Stepped(f, a, k, base, step)}
<1>1. a \in P
  <2> DEFINE f == [i \in a .. a |-> base]
  <2>1. f \in [a .. a -> S] /\ Stepped(f, a, a, base, step) /\ a \in a .. m
    BY DEF StepsIn, Stepped
  <2> HIDE DEF f
  <2> QED BY <2>1
<1>2. ASSUME NEW k \in Int, a < k, k <= m, k - 1 \in P PROVE k \in P
  <2>1. PICK f \in [a .. k - 1 -> S] : Stepped(f, a, k - 1, base, step)
    BY <1>2
  <2> DEFINE g == [i \in a .. k |-> IF i = k THEN step[k][f[k - 1]] ELSE f[i]]
  <2>2. step[k][f[k - 1]] \in S
    <3>1. f[k - 1] \in S
        BY <1>2
    <3> QED BY <1>2, <3>1 DEF StepsIn
  <2>3. g \in [a .. k -> S]
    BY <2>2
  <2>4. g[a] = base
    BY <2>1, <1>2 DEF Stepped
  <2>5. ASSUME NEW i \in Int, a < i, i <= k PROVE g[i] = step[i][g[i - 1]]
    <3>1. i - 1 \in a .. k - 1 /\ g[i - 1] = f[i - 1]
        BY <1>2, <2>5
    <3>2. CASE i = k
        BY <1>2, <3>1, <3>2
    <3>3. CASE i # k
        <4>1. i <= k - 1 /\ i \in a .. k
            BY <1>2, <2>5, <3>3
        <4>2. f[i] = step[i][f[i - 1]]
            BY <2>1, <2>5, <4>1 DEF Stepped
        <4> QED BY <3>1, <3>3, <4>1, <4>2
    <3> QED BY <3>2, <3>3
  <2> HIDE DEF g
  <2>6. Stepped(g, a, k, base, step) /\ k \in a .. m
    BY <1>2, <2>4, <2>5 DEF Stepped
  <2> QED BY <2>3, <2>6
<1> HIDE DEF P
<1>3. a .. m \subseteq P
    BY <1>1, <1>2, CountUp
<1>4. m \in a .. m
    OBVIOUS
<1> QED BY <1>3, <1>4 DEF P

-----------------------------------------------------------------------------
(* What flatten_group goes through.                                        *)

\* What a handle in a group can name, and what flatten_group makes of it.
Places == Id \cup {Null.id}
Flat == Seq(Places)

\* The handles in groups can be looked up.
Leads(world) ==
    \A e : Grouped(world, e) =>
        /\ Len(world[e].group) \in Nat \ {0}
        /\ \A i \in 1 .. Len(world[e].group) : world[e].group[i].id \in Places

\* How far the members of a group have been joined.
JoinedBy(data, group, each) ==
    /\ data \in [1 .. Len(group) -> Flat]
    /\ data[1] = <<group[1].id>>
    /\ \A i \in 2 .. Len(group) : data[i] = data[i - 1] \o each[group[i].id]

\* The members of a group can be joined.
LEMMA JoinedIs ==
    ASSUME NEW group, Len(group) \in Nat \ {0},
           \A i \in 1 .. Len(group) : group[i].id \in Places,
           NEW each \in [Places -> Flat]
    PROVE  \E data : JoinedBy(data, group, each) /\ Joined(group, each) = data[Len(group)]
<1> DEFINE L == Len(group)
           base == <<group[1].id>>
           step == [i \in 2 .. L |-> [s \in Flat |-> s \o each[group[i].id]]]
           Is(f) == f = [i \in 1 .. L |-> IF i = 1 THEN <<group[1].id>>
                                          ELSE f[i - 1] \o each[group[i].id]]
<1>0. 1 \in Int /\ 2 = 1 + 1 /\ L \in Int /\ 1 <= L
    OBVIOUS
<1>1. base \in Flat
    BY <1>0 DEF Flat
<1>2. StepsIn(Flat, 1, L, base, step)
  <2>1. ASSUME NEW i \in 2 .. L, NEW s \in Flat PROVE s \o each[group[i].id] \in Flat
    <3>1. each[group[i].id] \in Flat
        BY <2>1
    <3> QED BY <3>1, ConcatProperties DEF Flat
  <2>2. \A i \in 2 .. L, s \in Flat : step[i][s] \in Flat
    BY <2>1
  <2>3. \A i \in Int : 1 < i /\ i <= L => i \in 2 .. L
    BY <1>0
  <2> HIDE DEF base, step, L
  <2> QED BY <1>1, <2>2, <2>3 DEF StepsIn
<1>3. PICK f \in [1 .. L -> Flat] : Stepped(f, 1, L, base, step)
  <2> HIDE DEF base, step, L
  <2> QED BY ONLY <1>0, <1>2, RecursionTo
<1>4. Is(f)
  <2>1. ASSUME NEW i \in 1 .. L, i # 1 PROVE step[i][f[i - 1]] = f[i - 1] \o each[group[i].id]
    <3>1. i \in 2 .. L /\ f[i - 1] \in Flat
        BY <2>1
    <3> QED BY <3>1
  <2>2. ASSUME NEW i \in 1 .. L
        PROVE  f[i] = IF i = 1 THEN <<group[1].id>> ELSE f[i - 1] \o each[group[i].id]
    <3>1. i # 1 => i \in Int /\ 1 < i /\ i <= L
        BY <1>0
    <3> HIDE DEF base, step
    <3>2. f[1] = base /\ (i # 1 => f[i] = step[i][f[i - 1]])
        BY <1>3, <3>1 DEF Stepped
    <3> QED BY <2>1, <3>2 DEF base
  <2> HIDE DEF L
  <2>3. f = [i \in 1 .. L |-> f[i]]
    BY <1>3
  <2> QED BY <2>2, <2>3
<1> DEFINE d == CHOOSE h : Is(h)
<1>5. Joined(group, each) = d[L]
    BY DEF Joined
<1>6. Is(d)
  <2> HIDE DEF Is
  <2> QED BY <1>4
<1> HIDE DEF d
<1>7. L \in Nat \ {0} /\ d[1] = <<group[1].id>>
      /\ \A i \in 2 .. L : d[i] = d[i - 1] \o each[group[i].id]
  <2> HIDE DEF L
  <2>1. ASSUME NEW i \in 1 .. L
        PROVE  d[i] = IF i = 1 THEN <<group[1].id>> ELSE d[i - 1] \o each[group[i].id]
    BY <1>6
  <2>2. 1 \in 1 .. L /\ \A i \in 2 .. L : i \in 1 .. L /\ i # 1
    BY <1>0
  <2>3. d[1] = <<group[1].id>>
    BY <2>1, <2>2
  <2>4. ASSUME NEW i \in 2 .. L PROVE d[i] = d[i - 1] \o each[group[i].id]
    BY <2>1, <2>2
  <2> QED BY <2>3, <2>4 DEF L
<1>8. d \in [1 .. L -> Flat]
  <2> DEFINE P == {i \in Int : d[i] \in Flat}
  <2>1. 1 \in P
    BY <1>1, <1>7
  <2>2. ASSUME NEW i \in Int, 1 < i, i <= L, i - 1 \in P PROVE i \in P
    <3>1. each[group[i].id] \in Flat /\ d[i - 1] \in Flat
        <4>1. i \in 1 .. L
            BY <1>0, <2>2
        <4> QED BY <2>2, <4>1
    <3>2. d[i] = d[i - 1] \o each[group[i].id]
        <4>1. i \in 2 .. L
            BY <1>0, <2>2
        <4> QED BY <1>7, <4>1
    <3>3. d[i] \in Flat
        BY <3>1, <3>2, ConcatProperties DEF Flat
    <3> QED BY <3>3
  <2> HIDE DEF P, L
  <2>3. 1 .. L \subseteq P
    BY <2>1, <2>2, <1>0, CountUp
  <2>4. d = [i \in 1 .. L |-> IF i = 1 THEN <<group[1].id>>
                                 ELSE d[i - 1] \o each[group[i].id]]
    BY <1>6
  <2>5. DOMAIN d = 1 .. L
    BY ONLY <2>4
  <2>6. d = [i \in DOMAIN d |-> d[i]]
    BY ONLY <2>4
  <2> QED BY <2>3, <2>5, <2>6 DEF P
<1>9. JoinedBy(d, group, each)
    BY <1>7, <1>8 DEF JoinedBy
<1> QED BY <1>5, <1>9

\* The groups, n deep.
Deep(F, world) ==
    /\ F \in [0 .. MaxIds -> [Places -> Flat]]
    /\ \A e \in Places : F[0][e] = <<e>>
    /\ \A n \in 0 .. MaxIds, e \in Places : ~ Grouped(world, e) => F[n][e] = <<e>>
    /\ \A n \in 1 .. MaxIds, e \in Places :
           Grouped(world, e) => F[n][e] = Joined(world[e].group, F[n - 1])

\* What flatten_group returns: its recursion is defined.
LEMMA FlattenedIs ==
    ASSUME NEW world, Leads(world)
    PROVE  \E F : /\ Deep(F, world)
                  /\ \A root : Flattened(world, root) = F[MaxIds][root]
<1> DEFINE S == [Places -> Flat]
           base == [e \in Places |-> <<e>>]
           Level(each) == [e \in Places |-> IF ~ Grouped(world, e) THEN <<e>>
                                            ELSE Joined(world[e].group, each)]
           step == [n \in 1 .. MaxIds |-> [each \in S |-> Level(each)]]
           Is(f) == f = [n \in 0 .. MaxIds |->
                           [e \in Id \cup {Null.id} |->
                              IF n = 0 \/ ~ Grouped(world, e) THEN <<e>>
                              ELSE Joined(world[e].group, f[n - 1])]]
<1>0. MaxIds \in Nat
    BY GroupsAssumption
<1>1. \A e \in Places : <<e>> \in Flat
    BY DEF Flat
<1>2. ASSUME NEW each \in S PROVE Level(each) \in S
  <2>1. ASSUME NEW e \in Places, Grouped(world, e)
        PROVE  Joined(world[e].group, each) \in Flat
    <3>1. /\ Len(world[e].group) \in Nat \ {0}
          /\ \A i \in 1 .. Len(world[e].group) : world[e].group[i].id \in Places
        BY <2>1 DEF Leads
    <3>2. PICK data : /\ JoinedBy(data, world[e].group, each)
                      /\ Joined(world[e].group, each) = data[Len(world[e].group)]
        BY <1>2, <3>1, JoinedIs
    <3> QED BY <3>1, <3>2 DEF JoinedBy
  <2> QED BY <1>1, <2>1
<1>3. StepsIn(S, 0, MaxIds, base, step)
  <2>1. base \in S
    BY <1>1
  <2>2. ASSUME NEW n \in Int, NEW each \in S, 0 < n, n <= MaxIds PROVE step[n][each] \in S
    <3>1. n \in 1 .. MaxIds
        BY <1>0, <2>2
    <3>2. step[n][each] = Level(each)
        BY <3>1
    <3> HIDE DEF step, Level
    <3> QED BY <1>2, <3>2
  <2> HIDE DEF base, step, S
  <2> QED BY <2>1, <2>2 DEF StepsIn
<1>4. PICK f \in [0 .. MaxIds -> S] : Stepped(f, 0, MaxIds, base, step)
  <2> HIDE DEF base, step, S
  <2>1. 0 \in Int /\ MaxIds \in Int /\ 0 <= MaxIds
    BY <1>0
  <2> QED BY ONLY <1>3, <2>1, RecursionTo
<1>5. Is(f)
  <2>1. ASSUME NEW n \in 0 .. MaxIds
        PROVE  f[n] = [e \in Id \cup {Null.id} |->
                              IF n = 0 \/ ~ Grouped(world, e) THEN <<e>>
                              ELSE Joined(world[e].group, f[n - 1])]
    <3>1. CASE n = 0
        BY <1>4, <3>1 DEF Places, Stepped
    <3>2. CASE n # 0
        <4>1. n \in 1 .. MaxIds /\ f[n - 1] \in S
            BY <3>2, <1>0
        <4>2. step[n][f[n - 1]] = Level(f[n - 1])
            BY <4>1
        <4>3. f[n] = step[n][f[n - 1]]
            <5>1. n \in Int /\ 0 < n /\ n <= MaxIds
                BY <1>0, <4>1
            <5> HIDE DEF step, base
            <5> QED BY <1>4, <5>1 DEF Stepped
        <4> QED BY <3>2, <4>2, <4>3 DEF Places
    <3> QED BY <3>1, <3>2
  <2>2. f = [n \in 0 .. MaxIds |-> f[n]]
    BY <1>4
  <2> QED BY <2>1, <2>2
<1> DEFINE F == CHOOSE h : Is(h)
<1>6. \A root : Flattened(world, root) = F[MaxIds][root]
    BY DEF Flattened
<1>7. Is(F)
  <2> HIDE DEF Is
  <2> QED BY <1>5
<1> HIDE DEF F
<1>8. ASSUME NEW n \in 0 .. MaxIds
      PROVE  F[n] = [e \in Places |-> IF n = 0 \/ ~ Grouped(world, e) THEN <<e>>
                                      ELSE Joined(world[e].group, F[n - 1])]
    BY <1>7 DEF Places
<1> HIDE DEF S
<1>9. F \in [0 .. MaxIds -> S]
  <2> DEFINE P == {n \in Int : F[n] \in S}
  <2>1. 0 \in P
    <3>1. F[0] = base
        BY <1>0, <1>8
    <3>2. base \in S
        BY <1>3 DEF StepsIn
    <3> HIDE DEF base
    <3> QED BY <3>1, <3>2
  <2>2. ASSUME NEW n \in Int, 0 < n, n <= MaxIds, n - 1 \in P PROVE n \in P
    <3>1. n \in 0 .. MaxIds /\ n # 0 /\ F[n - 1] \in S
        BY <1>0, <2>2
    <3>2. F[n] = Level(F[n - 1])
        BY <1>8, <3>1
    <3> HIDE DEF Level
    <3>3. F[n] \in S
        BY <1>2, <3>1, <3>2
    <3> QED BY <3>1, <3>3
  <2> HIDE DEF P
  <2>3. 0 .. MaxIds \subseteq P
    <3>1. 0 \in Int /\ MaxIds \in Int
        BY <1>0
    <3> QED BY ONLY <2>1, <2>2, <3>1, CountUp
  <2>4. F = [n \in 0 .. MaxIds |-> F[n]]
    <3>1. F = [n \in 0 .. MaxIds |->
                           [e \in Id \cup {Null.id} |->
                              IF n = 0 \/ ~ Grouped(world, e) THEN <<e>>
                              ELSE Joined(world[e].group, F[n - 1])]]
        BY <1>7
    <3> QED BY ONLY <3>1
  <2> QED BY <2>3, <2>4 DEF P
<1>10. Deep(F, world)
  <2>1. \A n \in 0 .. MaxIds : n # 0 => n \in 1 .. MaxIds
    BY <1>0
  <2>2. 0 \in 0 .. MaxIds /\ \A n \in 1 .. MaxIds : n # 0 /\ n \in 0 .. MaxIds
    BY <1>0
  <2> QED BY <1>8, <1>9, <2>1, <2>2 DEF Deep, S
<1> QED BY <1>6, <1>10

-----------------------------------------------------------------------------
(* Sequences put together.                                                 *)

LEMMA RangeOfJoin ==
    ASSUME NEW S, NEW s \in Seq(S), NEW t \in Seq(S)
    PROVE  Range(s \o t) = Range(s) \cup Range(t)
<1>1. /\ DOMAIN s = 1 .. Len(s) /\ DOMAIN t = 1 .. Len(t) /\ Len(s) \in Nat /\ Len(t) \in Nat
      /\ DOMAIN (s \o t) = 1 .. Len(s) + Len(t)
      /\ \A i \in 1 .. Len(s) + Len(t) :
             (s \o t)[i] = IF i <= Len(s) THEN s[i] ELSE t[i - Len(s)]
    BY ConcatProperties, LenProperties
<1>2. ASSUME NEW x \in Range(s \o t) PROVE x \in Range(s) \cup Range(t)
  <2>1. PICK i \in 1 .. Len(s) + Len(t) : x = (s \o t)[i]
    BY <1>1, <1>2 DEF Range
  <2>2. CASE i <= Len(s)
    <3>1. i \in DOMAIN s /\ x = s[i]
        BY <1>1, <2>1, <2>2
    <3> QED BY <3>1 DEF Range
  <2>3. CASE i > Len(s)
    <3>1. i - Len(s) \in DOMAIN t /\ x = t[i - Len(s)]
        BY <1>1, <2>1, <2>3
    <3> QED BY <3>1 DEF Range
  <2> QED BY <1>1, <2>2, <2>3
<1>3. ASSUME NEW x \in Range(s) PROVE x \in Range(s \o t)
  <2>1. PICK i \in DOMAIN s : x = s[i]
    BY <1>3 DEF Range
  <2>2. i \in 1 .. Len(s) + Len(t) /\ (s \o t)[i] = x
    BY <1>1, <2>1
  <2> QED BY <1>1, <2>2 DEF Range
<1>4. ASSUME NEW x \in Range(t) PROVE x \in Range(s \o t)
  <2>1. PICK i \in DOMAIN t : x = t[i]
    BY <1>4 DEF Range
  <2>2. Len(s) + i \in 1 .. Len(s) + Len(t) /\ (s \o t)[Len(s) + i] = x
    BY <1>1, <2>1
  <2> QED BY <1>1, <2>2 DEF Range
<1> QED BY <1>2, <1>3, <1>4

\* What a sequence becomes when each of its elements does.
Mapped(c, s) == [i \in DOMAIN s |-> c[s[i]]]

LEMMA MappedJoin ==
    ASSUME NEW A, NEW c, NEW s \in Seq(A), NEW t \in Seq(A)
    PROVE  Mapped(c, s \o t) = Mapped(c, s) \o Mapped(c, t)
<1> DEFINE S == {c[x] : x \in A}
<1>1. ASSUME NEW u \in Seq(A)
      PROVE  /\ DOMAIN u = 1 .. Len(u) /\ Len(u) \in Nat
             /\ Mapped(c, u) \in Seq(S) /\ Len(Mapped(c, u)) = Len(u)
             /\ \A i \in 1 .. Len(u) : Mapped(c, u)[i] = c[u[i]]
  <2>1. /\ DOMAIN u = 1 .. Len(u) /\ Len(u) \in Nat
        /\ \A i \in 1 .. Len(u) : u[i] \in A /\ c[u[i]] \in S
    BY LenProperties
  <2> DEFINE v == [i \in 1 .. Len(u) |-> c[u[i]]]
  <2>2. Mapped(c, u) = v
    BY <2>1 DEF Mapped
  <2>3. v \in Seq(S)
    BY <2>1
  <2>4. Len(v) = Len(u)
    BY <2>1
  <2>5. \A i \in 1 .. Len(u) : v[i] = c[u[i]]
    OBVIOUS
  <2> HIDE DEF v
  <2> QED BY <2>1, <2>2, <2>3, <2>4, <2>5
<1>2. s \o t \in Seq(A) /\ Len(s \o t) = Len(s) + Len(t)
      /\ \A i \in 1 .. Len(s) + Len(t) :
             (s \o t)[i] = IF i <= Len(s) THEN s[i] ELSE t[i - Len(s)]
    BY ConcatProperties
<1>3. PICK u, v : u = Mapped(c, s) /\ v = Mapped(c, t)
    OBVIOUS
<1>4. u \in Seq(S) /\ v \in Seq(S) /\ Len(u) = Len(s) /\ Len(v) = Len(t)
    BY <1>1, <1>3
<1>5. u \o v \in Seq(S) /\ Len(u \o v) = Len(s) + Len(t)
      /\ \A i \in 1 .. Len(s) + Len(t) :
             (u \o v)[i] = IF i <= Len(s) THEN u[i] ELSE v[i - Len(s)]
  <2>1. u \o v \in Seq(S) /\ Len(u \o v) = Len(u) + Len(v)
        /\ \A i \in 1 .. Len(u) + Len(v) :
               (u \o v)[i] = IF i <= Len(u) THEN u[i] ELSE v[i - Len(u)]
    BY <1>4, ConcatProperties
  <2> QED BY <1>4, <2>1
<1>6. ASSUME NEW i \in 1 .. Len(s) + Len(t) PROVE Mapped(c, s \o t)[i] = (u \o v)[i]
  <2>1. Mapped(c, s \o t)[i] = c[(s \o t)[i]]
    BY <1>1, <1>2
  <2>2. CASE i <= Len(s)
    <3>1. i \in 1 .. Len(s)
        BY <1>1, <2>2
    <3> QED BY <1>1, <1>2, <1>3, <1>5, <2>1, <2>2, <3>1
  <2>3. CASE i > Len(s)
    <3>1. i - Len(s) \in 1 .. Len(t) /\ ~ (i <= Len(s))
        BY <1>1, <2>3
    <3> QED BY <1>1, <1>2, <1>3, <1>5, <2>1, <3>1
  <2>4. Len(s) \in Nat /\ Len(t) \in Nat
    BY <1>1
  <2>5. i <= Len(s) \/ i > Len(s)
    BY <2>4
  <2> QED BY ONLY <2>2, <2>3, <2>5, Zenon
<1>7. Mapped(c, s \o t) \in Seq(S) /\ Len(Mapped(c, s \o t)) = Len(s) + Len(t)
    BY <1>1, <1>2
<1>8. Mapped(c, s \o t) = u \o v
    BY <1>5, <1>6, <1>7, SeqEqual
<1> QED BY <1>1, <1>3, <1>8

LEMMA MappedOne ==
    ASSUME NEW c, NEW x
    PROVE  Mapped(c, <<x>>) = <<c[x]>>
    BY DEF Mapped

-----------------------------------------------------------------------------
(* What a group joins.                                                     *)

\* The first k members joined: whom they have, and how long they are.
Has(data, group, each, k) ==
    /\ \A x : x \in Range(data[k]) <=>
                 \/ x = group[1].id
                 \/ \E i \in 2 .. k : x \in Range(each[group[i].id])
    /\ Len(data[k]) \in Nat /\ Len(data[k]) >= 1
    /\ \A i \in 2 .. k : Len(data[k]) >= 1 + Len(each[group[i].id])
    /\ data[k][1] = group[1].id

LEMMA JoinedHas ==
    ASSUME NEW group, Len(group) \in Nat \ {0},
           \A i \in 1 .. Len(group) : group[i].id \in Places,
           NEW each \in [Places -> Flat], NEW data, JoinedBy(data, group, each)
    PROVE  \A k \in 1 .. Len(group) : Has(data, group, each, k)
<1> DEFINE L == Len(group)
           P == {k \in Int : Has(data, group, each, k)}
<1>1. 1 \in P
  <2>1. data[1] = <<group[1].id>>
    BY DEF JoinedBy
  <2>2. Len(data[1]) = 1 /\ data[1][1] = group[1].id /\ Range(data[1]) = {group[1].id}
    BY <2>1 DEF Range
  <2>3. \A i : i \notin 2 .. 1
    OBVIOUS
  <2> QED BY <2>2, <2>3 DEF Has
<1>2. ASSUME NEW k \in Int, 1 < k, k <= L, k - 1 \in P PROVE k \in P
  <2>1. PICK a, b : a = data[k - 1] /\ b = each[group[k].id]
    OBVIOUS
  <2>2. /\ data[k] = a \o b /\ a \in Flat /\ b \in Flat
        /\ k - 1 \in 1 .. L /\ k \in 2 .. L
    <3>1. k - 1 \in 1 .. L /\ k \in 2 .. L /\ k \in 1 .. L
        BY <1>2
    <3>2. a \in Flat /\ data[k] = a \o b
        BY <2>1, <3>1 DEF JoinedBy
    <3>3. b \in Flat
        BY <2>1, <3>1
    <3> QED BY <3>1, <3>2, <3>3
  <2>3. /\ Len(data[k]) = Len(a) + Len(b) /\ Len(a) \in Nat /\ Len(b) \in Nat
        /\ Len(a) >= 1 /\ data[k][1] = a[1]
    <3>1. Len(a) >= 1 /\ a \in Seq(Places) /\ b \in Seq(Places)
        BY <1>2, <2>1, <2>2 DEF Flat, Has
    <3> QED BY <2>2, <3>1, ConcatProperties, LenProperties
  <2>4. Range(data[k]) = Range(a) \cup Range(b)
    BY <2>2, RangeOfJoin DEF Flat
  <2>5. Has(data, group, each, k - 1)
    BY <1>2
  <2>6. \A i : i \in 2 .. k <=> i \in 2 .. k - 1 \/ i = k
    BY <1>2
  <2>7. ASSUME NEW x PROVE x \in Range(data[k]) <=>
                           \/ x = group[1].id
                           \/ \E i \in 2 .. k : x \in Range(each[group[i].id])
    BY <2>1, <2>4, <2>5, <2>6 DEF Has
  <2>8. ASSUME NEW i \in 2 .. k PROVE Len(data[k]) >= 1 + Len(each[group[i].id])
    <3>1. CASE i = k
        BY <2>1, <2>3, <3>1
    <3>2. CASE i \in 2 .. k - 1
        <4>1. Len(a) >= 1 + Len(each[group[i].id])
            BY <2>1, <2>5, <3>2 DEF Has
        <4>2. Len(each[group[i].id]) \in Nat
            <5>1. i \in 1 .. Len(group)
                BY <1>2, <3>2
            <5>2. each[group[i].id] \in Seq(Places)
                BY <5>1 DEF Flat
            <5> QED BY <5>2, LenProperties
        <4> QED BY <2>3, <4>1, <4>2
    <3> QED BY <2>6, <3>1, <3>2
  <2>9. Len(data[k]) \in Nat /\ Len(data[k]) >= 1 /\ data[k][1] = group[1].id
    <3>1. a[1] = group[1].id
        BY <2>1, <2>5 DEF Has
    <3> QED BY <2>3, <3>1
  <2> QED BY <2>7, <2>8, <2>9 DEF Has
<1>3. 1 \in Int /\ L \in Int
    OBVIOUS
<1> HIDE DEF P, L
<1>4. 1 .. L \subseteq P
    BY <1>1, <1>2, <1>3, CountUp
<1> QED BY <1>4 DEF P, L

\* How many more entities are to be read, where each that is read may want more.
\* This is what deserialize counts.
Wants(world, x) == IF Grouped(world, x) THEN Len(world[x].group) - 1 ELSE 0
Counts(world, s, a) ==
    a[0] = 1 /\ \A i \in 1 .. Len(s) : a[i] = a[i - 1] - 1 + Wants(world, s[i]) /\ a[i - 1] > 0
Awaits(world, s, c) ==
    \E a \in [0 .. Len(s) -> Int] : Counts(world, s, a) /\ a[Len(s)] = c

LEMMA AwaitsOne ==
    ASSUME NEW world, NEW x, Wants(world, x) \in Int
    PROVE  Awaits(world, <<x>>, Wants(world, x))
<1> DEFINE a == [i \in 0 .. 1 |-> IF i = 0 THEN 1 ELSE Wants(world, x)]
<1>1. a \in [0 .. 1 -> Int] /\ a[0] = 1 /\ a[1] = Wants(world, x)
    OBVIOUS
<1> HIDE DEF a
<1>2. a[1] = a[1 - 1] - 1 + Wants(world, <<x>>[1]) /\ a[1 - 1] > 0
    BY <1>1
<1>3. Len(<<x>>) = 1 /\ 1 .. 1 = {1}
    OBVIOUS
<1>4. Counts(world, <<x>>, a)
    BY <1>1, <1>2, <1>3 DEF Counts
<1> QED BY <1>1, <1>3, <1>4 DEF Awaits

\* Awaiting adds up over what is joined.
LEMMA AwaitsJoin ==
    ASSUME NEW world, NEW s \in Flat, NEW t \in Flat, NEW c \in Int, c >= 1,
           Awaits(world, s, c), Awaits(world, t, 0), \A x : Wants(world, x) \in Int
    PROVE  Awaits(world, s \o t, c - 1)
<1>1. PICK a \in [0 .. Len(s) -> Int] : Counts(world, s, a) /\ a[Len(s)] = c
    BY DEF Awaits
<1>2. PICK b \in [0 .. Len(t) -> Int] : Counts(world, t, b) /\ b[Len(t)] = 0
    BY DEF Awaits
<1>3. /\ Len(s) \in Nat /\ Len(t) \in Nat /\ Len(s \o t) = Len(s) + Len(t)
      /\ \A i \in 1 .. Len(s) + Len(t) :
             (s \o t)[i] = IF i <= Len(s) THEN s[i] ELSE t[i - Len(s)]
    BY ConcatProperties, LenProperties DEF Flat
<1> DEFINE m == Len(s)
           n == Len(t)
           d == [i \in 0 .. m + n |-> IF i <= m THEN a[i] ELSE b[i - m] + c - 1]
<1>4. d \in [0 .. m + n -> Int]
  <2>1. ASSUME NEW i \in 0 .. m + n PROVE (IF i <= m THEN a[i] ELSE b[i - m] + c - 1) \in Int
    <3>1. CASE i <= m
        BY <1>3, <3>1
    <3>2. CASE i > m
        <4>1. i - m \in 0 .. n
            BY <1>3, <3>2
        <4>2. b[i - m] \in Int
            BY <4>1
        <4> HIDE DEF m, n
        <4>3. m \in Nat
            BY <1>3 DEF m
        <4> QED BY <3>2, <4>2, <4>3
    <3> QED BY <1>3, <3>1, <3>2
  <2> QED BY <2>1
<1>5. /\ \A i \in 0 .. m : d[i] = a[i]
      /\ \A j \in 0 .. n : d[m + j] = b[j] + c - 1
  <2>1. ASSUME NEW i \in 0 .. m PROVE d[i] = a[i]
    BY <1>3
  <2>2. ASSUME NEW j \in 0 .. n PROVE d[m + j] = b[j] + c - 1
    <3>1. CASE j = 0
        <4>1. d[m + j] = a[m] /\ b[j] = 1
            BY <1>2, <1>3, <3>1 DEF Counts
        <4> QED BY <1>1, <4>1
    <3>2. CASE j # 0
        <4>1. m + j \in 0 .. m + n /\ ~ (m + j <= m) /\ (m + j) - m = j
            BY <1>3, <3>2
        <4> QED BY <4>1
    <3> QED BY <3>1, <3>2
  <2> QED BY <2>1, <2>2
<1> HIDE DEF d
<1>6. ASSUME NEW i \in 1 .. m + n
      PROVE  d[i] = d[i - 1] - 1 + Wants(world, (s \o t)[i]) /\ d[i - 1] > 0
  <2>1. CASE i <= m
    <3>1. i \in 1 .. m /\ i \in 0 .. m /\ i - 1 \in 0 .. m /\ (s \o t)[i] = s[i]
        BY <1>3, <2>1
    <3>2. a[i] = a[i - 1] - 1 + Wants(world, s[i]) /\ a[i - 1] > 0
        BY <1>1, <3>1 DEF Counts
    <3> QED BY <1>5, <3>1, <3>2
  <2>2. CASE i > m
    <3>1. PICK j \in 1 .. n : j = i - m
        BY <1>3, <2>2
    <3>2. j \in 0 .. n /\ j - 1 \in 0 .. n /\ m + j = i /\ m + (j - 1) = i - 1
        BY <1>3, <3>1
    <3>3. (s \o t)[i] = t[j]
        BY <1>3, <2>2, <3>1
    <3>4. b[j] = b[j - 1] - 1 + Wants(world, t[j]) /\ b[j - 1] > 0
        BY <1>2 DEF Counts
    <3>5. d[i] = b[j] + c - 1 /\ d[i - 1] = b[j - 1] + c - 1
        BY <1>5, <3>2
    <3>6. b[j] \in Int /\ b[j - 1] \in Int
        BY <3>2
    <3> HIDE DEF m, n
    <3>8. PICK w \in Int : w = Wants(world, t[j])
        OBVIOUS
    <3>9. b[j] = b[j - 1] - 1 + w /\ b[j - 1] > 0
        BY <3>4, <3>8
    <3>10. Wants(world, (s \o t)[i]) = w
        BY <3>3, <3>8
    <3>11. b[j] + c - 1 = (b[j - 1] + c - 1) - 1 + w /\ b[j - 1] + c - 1 > 0
        <4>1. PICK p \in Int, q \in Int : p = b[j] /\ q = b[j - 1]
            BY <3>6
        <4>2. p = q - 1 + w /\ q > 0
            BY <3>9, <4>1
        <4>3. p + c - 1 = (q + c - 1) - 1 + w /\ q + c - 1 > 0
            BY ONLY <4>2, c \in Int, c >= 1, p \in Int, q \in Int, w \in Int
        <4> QED BY ONLY <4>1, <4>3
    <3> QED BY <3>5, <3>10, <3>11
  <2> QED BY <1>3, <2>1, <2>2
<1>7. d[0] = 1 /\ d[m + n] = c - 1
  <2>1. a[0] = 1 /\ 0 \in 0 .. m /\ n \in 0 .. n /\ b[n] = 0
    BY <1>1, <1>2, <1>3 DEF Counts
  <2> QED BY <1>5, <2>1
<1>8. Counts(world, s \o t, d)
    BY <1>3, <1>6, <1>7 DEF Counts
<1> QED BY <1>3, <1>4, <1>7, <1>8 DEF Awaits

\* Of a group whose members await no more, nothing is awaited.
LEMMA JoinedAwaits ==
    ASSUME NEW world, \A x : Wants(world, x) \in Int,
           NEW group, NEW L \in Nat \ {0}, L = Len(group),
           \A i \in 1 .. L : group[i].id \in Places,
           NEW each \in [Places -> Flat], NEW data, JoinedBy(data, group, each),
           Wants(world, group[1].id) = L - 1,
           \A i \in 2 .. L : Awaits(world, each[group[i].id], 0)
    PROVE  Awaits(world, data[L], 0)
<1> DEFINE P == {k \in Int : Awaits(world, data[k], L - k)}
<1>1. 1 \in P
  <2>1. data[1] = <<group[1].id>>
    BY DEF JoinedBy
  <2>2. PICK x : x = group[1].id
    OBVIOUS
  <2>3. Awaits(world, <<x>>, Wants(world, x))
    BY AwaitsOne
  <2> QED BY <2>1, <2>2, <2>3
<1>2. ASSUME NEW k \in Int, 1 < k, k <= L, k - 1 \in P PROVE k \in P
  <2>1. PICK a, b : a = data[k - 1] /\ b = each[group[k].id]
    OBVIOUS
  <2>2. k - 1 \in 1 .. L /\ k \in 2 .. L /\ k \in 1 .. L
    BY <1>2
  <2>3. a \in Flat /\ data[k] = a \o b
    BY <2>1, <2>2 DEF JoinedBy
  <2>4. b \in Flat
    BY <2>1, <2>2
  <2>5. Awaits(world, a, L - (k - 1)) /\ Awaits(world, b, 0)
    BY <1>2, <2>1, <2>2
  <2>6. PICK c \in Int : c = L - (k - 1) /\ c >= 1 /\ c - 1 = L - k
    BY <1>2
  <2>7. Awaits(world, a \o b, c - 1)
    BY <2>3, <2>4, <2>5, <2>6, AwaitsJoin
  <2> QED BY <2>3, <2>6, <2>7
<1>3. 1 \in Int /\ L \in Int /\ L \in 1 .. L
    OBVIOUS
<1> HIDE DEF P
<1>4. 1 .. L \subseteq P
    BY ONLY <1>1, <1>2, <1>3, CountUp
<1>5. Awaits(world, data[L], L - L)
    BY <1>3, <1>4 DEF P
<1> QED BY <1>3, <1>5

-----------------------------------------------------------------------------
(* Groups that are in order.                                               *)

\* The entity that a group names in a place.
Link(world, e, i) == world[e].group[i].id
Size(world, e) == Len(world[e].group)

\* An entity that is listed has a group of its own, or none; where an entity was
\* listed twice, serialize has set the references in its group to null.
Tidy(world, e) == Grouped(world, e) => Link(world, e, 1) \in {Null.id, e}

\* An entity that has a group whose first is another: the second copy of one that
\* was listed twice.  The other has the same group.
Alike(world, e, h) ==
    /\ Size(world, h) = Size(world, e)
    /\ \A i \in 1 .. Size(world, e) : Link(world, h, i) \in {Null.id, Link(world, e, i)}

\* Groups list such entities only.
Orderly(world) ==
    /\ \A e : Grouped(world, e) =>
          \A i \in 1 .. Size(world, e) : Tidy(world, Link(world, e, i))
    /\ \A e : Grouped(world, e) /\ Link(world, e, 1) \in DOMAIN world =>
          Alike(world, e, Link(world, e, 1))

\* A sequence that has with each entity its group.
Complete(world, s) ==
    \A x \in Range(s) : Grouped(world, x) =>
        \A i \in 1 .. Size(world, x) : Link(world, x, i) \in Range(s)

LEMMA WantsAre ==
    ASSUME NEW world, Leads(world)
    PROVE  \A x : Wants(world, x) \in Int
    BY DEF Leads, Wants

\* What lies n deep is longer than n, is not all there, or is all.
Good(world, n, e, s) ==
    \/ Len(s) >= n + 1
    \/ ~ (Range(s) \subseteq DOMAIN world)
    \/ e \in Range(s) /\ Complete(world, s) /\ Awaits(world, s, 0)

LEMMA LeafGood ==
    ASSUME NEW world, Leads(world), NEW n, NEW e \in Places, ~ Grouped(world, e)
    PROVE  Good(world, n, e, <<e>>)
<1>1. Range(<<e>>) = {e}
    BY DEF Range
<1>2. Wants(world, e) = 0
    BY DEF Wants
<1>3. Awaits(world, <<e>>, 0)
    BY <1>2, AwaitsOne
<1>4. Complete(world, <<e>>)
    BY <1>1 DEF Complete
<1> QED BY <1>1, <1>3, <1>4 DEF Good

\* The same of a group of which the same holds for the members.
LEMMA JoinedGood ==
    ASSUME NEW world, Leads(world), Orderly(world), NEW n \in Nat,
           NEW e, Grouped(world, e), NEW each \in [Places -> Flat],
           \A x \in Places : Tidy(world, x) => Good(world, n, x, each[x]),
           NEW s, s = Joined(world[e].group, each),
           Len(s) <= n + 1, Range(s) \subseteq DOMAIN world
    PROVE  /\ Awaits(world, s, 0)
           /\ \A i \in 1 .. Size(world, e) : Link(world, e, i) \in Range(s)
           /\ \A x \in Range(s) : Grouped(world, x) =>
                 \A i \in 1 .. Size(world, x) :
                     Link(world, x, i) \in Range(s) \/ (x = Link(world, e, 1) /\ x # e
                                                        /\ Link(world, x, i) = Null.id)
<1> DEFINE group == world[e].group
           h == Link(world, e, 1)
<1>1. PICK L \in Nat \ {0} : L = Len(group)
    BY DEF Leads
<1>2. \A i \in 1 .. L : group[i].id \in Places /\ group[i].id = Link(world, e, i)
    BY <1>1 DEF Leads, Link
<1>3. PICK data : JoinedBy(data, group, each) /\ s = data[L]
    BY <1>1, <1>2, JoinedIs
<1>4. /\ \A x : x \in Range(s) <=>
                   x = group[1].id \/ \E i \in 2 .. L : x \in Range(each[group[i].id])
      /\ Len(s) \in Nat /\ Len(s) >= 1
      /\ \A i \in 2 .. L : Len(s) >= 1 + Len(each[group[i].id])
  <2>1. L \in 1 .. L
    OBVIOUS
  <2> HIDE DEF group
  <2>2. Len(group) \in Nat \ {0} /\ \A i \in 1 .. Len(group) : group[i].id \in Places
    BY <1>1, <1>2
  <2>3. Has(data, group, each, L)
    BY <1>1, <1>3, <2>1, <2>2, JoinedHas
  <2> QED BY <1>3, <2>3 DEF Has
<1> HIDE DEF group, h
<1>5. 1 \in 1 .. L /\ (\A i \in 2 .. L : i \in 1 .. L) /\ (\A i \in 1 .. L : i # 1 => i \in 2 .. L)
    OBVIOUS
<1>6. ASSUME NEW i \in 2 .. L
      PROVE  /\ group[i].id \in Range(each[group[i].id])
             /\ Complete(world, each[group[i].id]) /\ Awaits(world, each[group[i].id], 0)
  <2>1. PICK x \in Places : x = group[i].id
    BY <1>2, <1>5
  <2>2. Tidy(world, x)
    BY <1>1, <1>2, <1>5, <2>1 DEF Orderly, Size, group
  <2>3. Good(world, n, x, each[x])
    BY <2>2
  <2>4. Range(each[x]) \subseteq DOMAIN world
    BY <1>4, <2>1
  <2>5. ~ (Len(each[x]) >= n + 1)
    <3>1. Len(each[x]) \in Nat
        <4>1. each[x] \in Seq(Places)
            BY DEF Flat
        <4> QED BY <4>1, LenProperties
    <3>2. Len(s) >= 1 + Len(each[x])
        BY <1>4, <2>1
    <3> QED BY <1>4, <3>1, <3>2
  <2> QED BY <2>1, <2>3, <2>4, <2>5 DEF Good
<1>7. h = group[1].id /\ h \in Range(s) /\ h \in DOMAIN world
    BY <1>2, <1>4, <1>5 DEF h
<1>8. Alike(world, e, h)
    BY <1>7 DEF Orderly, h
<1>9. Size(world, e) = L /\ Size(world, h) = L
    BY <1>1, <1>8 DEF Alike, Size, group
<1>10. Wants(world, group[1].id) = L - 1
  <2>1. Grouped(world, h)
    <3>1. world[h].group # << >>
        <4>1. Len(world[h].group) = L /\ L # 0
            BY <1>9 DEF Size
        <4> QED BY <4>1
    <3> QED BY <1>7, <3>1 DEF Grouped, NoGroup
  <2> QED BY <1>7, <1>9, <2>1 DEF Wants, Size
<1>11. Awaits(world, s, 0)
    BY <1>1, <1>2, <1>3, <1>6, <1>10, WantsAre, JoinedAwaits
<1>12. ASSUME NEW i \in 1 .. L PROVE Link(world, e, i) \in Range(s)
    BY <1>2, <1>4, <1>5, <1>6
<1>13. ASSUME NEW x \in Range(s), Grouped(world, x), NEW i \in 1 .. Size(world, x)
       PROVE  Link(world, x, i) \in Range(s) \/ (x = h /\ x # e /\ Link(world, x, i) = Null.id)
  <2>1. CASE x = h
    <3>1. i \in 1 .. L /\ Link(world, e, i) \in Range(s)
        BY <1>9, <1>12, <1>13, <2>1
    <3>2. Link(world, x, i) \in {Null.id, Link(world, e, i)}
        BY <1>8, <1>9, <2>1, <3>1 DEF Alike
    <3> QED BY <2>1, <3>1, <3>2
  <2>2. CASE x # h
    <3>1. PICK j \in 2 .. L : x \in Range(each[group[j].id])
        BY <1>4, <1>7, <1>13, <2>2
    <3>2. Link(world, x, i) \in Range(each[group[j].id])
        BY <1>6, <1>13, <3>1 DEF Complete
    <3> QED BY <1>4, <3>1, <3>2
  <2> QED BY <2>1, <2>2
<1> QED BY <1>9, <1>11, <1>12, <1>13 DEF h

\* What lies n deep, of any entity of an orderly world.
LEMMA DeepGood ==
    ASSUME NEW world, Leads(world), Orderly(world), DOMAIN world \subseteq Id,
           NEW F, Deep(F, world)
    PROVE  \A n \in 0 .. MaxIds, e \in Places : Tidy(world, e) => Good(world, n, e, F[n][e])
<1> DEFINE P == {n \in Int : \A e \in Places : Tidy(world, e) => Good(world, n, e, F[n][e])}
<1>1. 0 \in P
  <2>1. ASSUME NEW e \in Places PROVE Good(world, 0, e, F[0][e])
    <3>1. F[0][e] = <<e>> /\ Len(<<e>>) = 1
        BY DEF Deep
    <3> QED BY <3>1 DEF Good
  <2> QED BY <2>1
<1>2. ASSUME NEW n \in Int, 0 < n, n <= MaxIds, n - 1 \in P PROVE n \in P
  <2> SUFFICES ASSUME NEW e \in Places, Tidy(world, e) PROVE Good(world, n, e, F[n][e])
    OBVIOUS
  <2>1. n \in 0 .. MaxIds /\ n \in 1 .. MaxIds /\ n - 1 \in 0 .. MaxIds /\ n - 1 \in Nat
        /\ (n - 1) + 1 = n
    BY <1>2, GroupsAssumption
  <2>2. CASE ~ Grouped(world, e)
    BY <2>1, <2>2, LeafGood DEF Deep
  <2>3. CASE Grouped(world, e)
    <3> SUFFICES ASSUME ~ (Len(F[n][e]) >= n + 1), Range(F[n][e]) \subseteq DOMAIN world
                 PROVE  e \in Range(F[n][e]) /\ Complete(world, F[n][e])
                        /\ Awaits(world, F[n][e], 0)
        BY DEF Good
    <3>1. PICK m, s, each : m = n - 1 /\ m \in Nat /\ s = F[n][e] /\ each = F[n - 1]
        BY <2>1
    <3>2. each \in [Places -> Flat] /\ s = Joined(world[e].group, each) /\ s \in Flat
        BY <2>1, <2>3, <3>1 DEF Deep
    <3>3. \A x \in Places : Tidy(world, x) => Good(world, m, x, each[x])
        BY <1>2, <3>1
    <3>4. Len(s) <= m + 1 /\ Range(s) \subseteq DOMAIN world
        <4>1. Len(s) \in Nat
            BY <3>2, LenProperties DEF Flat
        <4> QED BY <2>1, <3>1, <4>1
    <3>5. /\ Awaits(world, s, 0)
          /\ \A i \in 1 .. Size(world, e) : Link(world, e, i) \in Range(s)
          /\ \A x \in Range(s) : Grouped(world, x) =>
                \A i \in 1 .. Size(world, x) :
                    Link(world, x, i) \in Range(s) \/ (x = Link(world, e, 1) /\ x # e
                                                       /\ Link(world, x, i) = Null.id)
        BY <2>3, <3>1, <3>2, <3>3, <3>4, JoinedGood
    <3>6. Link(world, e, 1) = e
        <4>1. 1 \in 1 .. Size(world, e)
            BY <2>3 DEF Leads, Size
        <4>2. Link(world, e, 1) \in Id
            BY <3>4, <3>5, <4>1
        <4>3. Null.id \notin Id
            BY GroupsAssumption DEF Id, Null, Old
        <4> QED BY <2>3, <4>2, <4>3 DEF Tidy
    <3>7. Complete(world, s)
        BY <3>5, <3>6 DEF Complete
    <3>8. e \in Range(s)
        <4>1. 1 \in 1 .. Size(world, e)
            BY <2>3 DEF Leads, Size
        <4> QED BY <3>5, <3>6, <4>1
    <3> QED BY <3>1, <3>5, <3>7, <3>8
  <2> QED BY <2>2, <2>3
<1>3. 0 \in Int /\ MaxIds \in Int
    BY GroupsAssumption
<1> HIDE DEF P
<1>4. 0 .. MaxIds \subseteq P
    BY ONLY <1>1, <1>2, <1>3, CountUp
<1> QED BY <1>4 DEF P

\* What a group is flattened to, if it is all there.
LEMMA RootGood ==
    ASSUME NEW world, Leads(world), Orderly(world), DOMAIN world \subseteq Id,
           NEW e \in Places, Grouped(world, e), NEW s, s = Flattened(world, e),
           Len(s) <= MaxIds, Range(s) \subseteq DOMAIN world
    PROVE  /\ s \in Flat /\ Awaits(world, s, 0)
           /\ \A i \in 1 .. Size(world, e) : Link(world, e, i) \in Range(s)
           /\ \A x \in Range(s) : Grouped(world, x) =>
                 \A i \in 1 .. Size(world, x) :
                     Link(world, x, i) \in Range(s) \/ (x = Link(world, e, 1) /\ x # e
                                                        /\ Link(world, x, i) = Null.id)
<1>1. PICK F : Deep(F, world) /\ s = F[MaxIds][e]
    BY FlattenedIs
<1>2. MaxIds \in Nat /\ MaxIds \in 0 .. MaxIds
    BY GroupsAssumption
<1>3. s \in Flat
    BY <1>1, <1>2 DEF Deep
<1>4. MaxIds # 0
  <2>1. ASSUME MaxIds = 0 PROVE FALSE
    <3>1. s = <<e>>
        BY <1>1, <1>2, <2>1 DEF Deep
    <3>2. Len(s) = 1
        BY <3>1
    <3> QED BY <2>1, <3>2
  <2> QED BY <2>1
<1>5. PICK m, each : m \in Nat /\ m = MaxIds - 1 /\ each = F[m]
    BY <1>2, <1>4
<1>6. m \in 0 .. MaxIds /\ MaxIds \in 1 .. MaxIds
    BY <1>2, <1>4, <1>5
<1>7. each \in [Places -> Flat] /\ s = Joined(world[e].group, each)
    BY <1>1, <1>5, <1>6 DEF Deep
<1>8. \A x \in Places : Tidy(world, x) => Good(world, m, x, each[x])
    BY <1>1, <1>5, <1>6, DeepGood
<1>9. Len(s) <= m + 1
    BY <1>2, <1>5
<1> QED BY <1>3, <1>5, <1>7, <1>8, <1>9, JoinedGood

-----------------------------------------------------------------------------
(* Two worlds, the second with an image of what is in the first.           *)

\* c takes each of A to one that has the image of its group.
Mirrored(V, W, A, c) ==
    \A x \in A :
        /\ Grouped(V, x) <=> Grouped(W, c[x])
        /\ Grouped(V, x) =>
               /\ Size(W, c[x]) = Size(V, x)
               /\ \A i \in 1 .. Size(V, x) :
                      Link(V, x, i) \in A /\ Link(W, c[x], i) = c[Link(V, x, i)]

\* What each comes to in the first world has its image in the second.
Follows(A, c, each1, each2) ==
    /\ A \subseteq Places /\ \A x \in A : c[x] \in Places
    /\ each1 \in [Places -> Flat] /\ each2 \in [Places -> Flat]
    /\ \A x \in A : each1[x] \in Seq(A) /\ each2[c[x]] = Mapped(c, each1[x])

\* A group of the second world names the images of those that one of the first does.
Named(A, c, g, k) ==
    /\ Len(g) \in Nat \ {0} /\ Len(k) = Len(g)
    /\ \A i \in 1 .. Len(g) : g[i].id \in A /\ k[i].id = c[g[i].id]

\* Members joined in the second world are the image of those in the first.
LEMMA JoinedSame ==
    ASSUME NEW A, NEW c, NEW g, NEW k, NEW each1, NEW each2,
           Named(A, c, g, k), Follows(A, c, each1, each2)
    PROVE  Joined(g, each1) \in Seq(A) /\ Joined(k, each2) = Mapped(c, Joined(g, each1))
<1>0. PICK L \in Nat \ {0} : L = Len(g) /\ L = Len(k)
                             /\ \A i \in 1 .. L : g[i].id \in A /\ k[i].id = c[g[i].id]
    BY DEF Named
<1> USE DEF Follows
<1>1. \A i \in 1 .. L : g[i].id \in Places /\ k[i].id \in Places
    BY <1>0
<1>2. PICK d1 : JoinedBy(d1, g, each1) /\ Joined(g, each1) = d1[L]
    BY <1>0, <1>1, JoinedIs
<1>3. PICK d2 : JoinedBy(d2, k, each2) /\ Joined(k, each2) = d2[L]
    BY <1>0, <1>1, JoinedIs
<1> DEFINE P == {i \in Int : d1[i] \in Seq(A) /\ d2[i] = Mapped(c, d1[i])}
<1>4. 1 \in P
  <2>1. PICK x \in A : x = g[1].id /\ c[x] = k[1].id
    BY <1>0
  <2>2. d1[1] = <<x>> /\ d2[1] = <<c[x]>>
    BY <1>2, <1>3, <2>1 DEF JoinedBy
  <2>3. <<x>> \in Seq(A)
    OBVIOUS
  <2>4. Mapped(c, <<x>>) = <<c[x]>>
    BY MappedOne
  <2>5. d1[1] \in Seq(A) /\ d2[1] = Mapped(c, d1[1])
    BY <2>2, <2>3, <2>4
  <2> QED BY <2>5
<1>5. ASSUME NEW i \in Int, 1 < i, i <= L, i - 1 \in P PROVE i \in P
  <2>1. i \in 1 .. L /\ i \in 2 .. L
    BY <1>5
  <2>2. PICK x \in A : x = g[i].id /\ c[x] = k[i].id
    BY <1>0, <2>1
  <2>3. PICK s, t : s = d1[i - 1] /\ t = each1[x]
    OBVIOUS
  <2>4. s \in Seq(A) /\ t \in Seq(A) /\ d2[i - 1] = Mapped(c, s) /\ each2[c[x]] = Mapped(c, t)
    BY <1>5, <2>3 DEF Follows
  <2>5. d1[i] = s \o t /\ d2[i] = Mapped(c, s) \o Mapped(c, t)
    <3>1. d1[i] = d1[i - 1] \o each1[g[i].id] /\ d2[i] = d2[i - 1] \o each2[k[i].id]
        BY <1>0, <1>2, <1>3, <2>1 DEF JoinedBy
    <3> QED BY <2>2, <2>3, <2>4, <3>1
  <2>6. s \o t \in Seq(A)
    BY <2>4, ConcatProperties
  <2>7. Mapped(c, s \o t) = Mapped(c, s) \o Mapped(c, t)
    BY <2>4, MappedJoin
  <2> QED BY <2>5, <2>6, <2>7
<1>6. 1 \in Int /\ L \in Int /\ L \in 1 .. L
    OBVIOUS
<1> HIDE DEF P
<1>7. 1 .. L \subseteq P
    BY ONLY <1>4, <1>5, <1>6, CountUp
<1>8. d1[L] \in Seq(A) /\ d2[L] = Mapped(c, d1[L])
    BY <1>6, <1>7 DEF P
<1> QED BY <1>2, <1>3, <1>8

\* So flatten_group returns images for images.
LEMMA FlattenedSame ==
    ASSUME NEW V, NEW W, Leads(V), Leads(W), NEW A, A \subseteq Places,
           NEW c \in [A -> Places], Mirrored(V, W, A, c), NEW root \in A
    PROVE  /\ Flattened(V, root) \in Seq(A)
           /\ Flattened(W, c[root]) = Mapped(c, Flattened(V, root))
<1>1. PICK F : Deep(F, V) /\ \A x : Flattened(V, x) = F[MaxIds][x]
    BY FlattenedIs
<1>2. PICK G : Deep(G, W) /\ \A x : Flattened(W, x) = G[MaxIds][x]
    BY FlattenedIs
<1>3. \A x \in A : x \in Places /\ c[x] \in Places
    OBVIOUS
<1> DEFINE P == {n \in Int : Follows(A, c, F[n], G[n])}
<1>4. ASSUME NEW n \in 0 .. MaxIds, NEW x \in A, F[n][x] = <<x>>, G[n][c[x]] = <<c[x]>>
      PROVE  F[n][x] \in Seq(A) /\ G[n][c[x]] = Mapped(c, F[n][x])
    BY <1>4, MappedOne
<1>5. 0 \in P
  <2>1. 0 \in 0 .. MaxIds
    BY GroupsAssumption
  <2>2. ASSUME NEW x \in A PROVE F[0][x] = <<x>> /\ G[0][c[x]] = <<c[x]>>
    BY <1>1, <1>2, <1>3 DEF Deep
  <2>3. \A x \in A : F[0][x] \in Seq(A) /\ G[0][c[x]] = Mapped(c, F[0][x])
    BY <1>4, <2>1, <2>2
  <2>4. F[0] \in [Places -> Flat] /\ G[0] \in [Places -> Flat]
    BY <1>1, <1>2, <2>1 DEF Deep
  <2> QED BY <1>3, <2>3, <2>4 DEF Follows
<1>6. ASSUME NEW n \in Int, 0 < n, n <= MaxIds, n - 1 \in P PROVE n \in P
  <2>1. n \in 0 .. MaxIds /\ n \in 1 .. MaxIds /\ n - 1 \in 0 .. MaxIds
    BY <1>6, GroupsAssumption
  <2>2. PICK each1, each2 : each1 = F[n - 1] /\ each2 = G[n - 1]
    OBVIOUS
  <2>3. /\ each1 \in [Places -> Flat] /\ each2 \in [Places -> Flat]
        /\ Follows(A, c, each1, each2)
    BY <1>1, <1>2, <1>6, <2>1, <2>2 DEF Deep
  <2>4. ASSUME NEW x \in A PROVE F[n][x] \in Seq(A) /\ G[n][c[x]] = Mapped(c, F[n][x])
    <3>1. CASE ~ Grouped(V, x)
        <4>1. ~ Grouped(W, c[x])
            BY <3>1 DEF Mirrored
        <4>2. F[n][x] = <<x>> /\ G[n][c[x]] = <<c[x]>>
            BY <1>1, <1>2, <1>3, <2>1, <3>1, <4>1 DEF Deep
        <4> QED BY <1>4, <2>1, <4>2
    <3>2. CASE Grouped(V, x)
        <4>1. PICK g, k, L : g = V[x].group /\ k = W[c[x]].group /\ L = Len(g)
            OBVIOUS
        <4>2. /\ Grouped(W, c[x]) /\ Len(k) = L
              /\ \A i \in 1 .. L : g[i].id \in A /\ k[i].id = c[g[i].id]
            BY <3>2, <4>1 DEF Mirrored, Size, Link
        <4>3. L \in Nat \ {0}
            BY <3>2, <4>1 DEF Leads
        <4>4. Joined(g, each1) \in Seq(A) /\ Joined(k, each2) = Mapped(c, Joined(g, each1))
            <5>1. Named(A, c, g, k)
                BY <4>1, <4>2, <4>3 DEF Named
            <5> QED BY <2>3, <5>1, JoinedSame
        <4>5. F[n][x] = Joined(g, each1) /\ G[n][c[x]] = Joined(k, each2)
            BY <1>1, <1>2, <1>3, <2>1, <2>2, <3>2, <4>1, <4>2 DEF Deep
        <4> QED BY <4>4, <4>5
    <3> QED BY <3>1, <3>2
  <2>5. F[n] \in [Places -> Flat] /\ G[n] \in [Places -> Flat]
    BY <1>1, <1>2, <2>1 DEF Deep
  <2> QED BY <1>3, <2>4, <2>5 DEF Follows
<1>7. 0 \in Int /\ MaxIds \in Int /\ MaxIds \in 0 .. MaxIds
    BY GroupsAssumption
<1> HIDE DEF P
<1>8. 0 .. MaxIds \subseteq P
    BY ONLY <1>5, <1>6, <1>7, CountUp
<1>9. Follows(A, c, F[MaxIds], G[MaxIds])
    BY <1>7, <1>8 DEF P
<1> QED BY <1>1, <1>2, <1>9 DEF Follows

-----------------------------------------------------------------------------
(* Handles and records.                                                    *)

\* The handles of n entities, the numbers of n records, and records with handles
\* in H.
Plain(n) == {Old(id) : id \in 0 .. n - 1} \cup {Null}
Linked(n) == {New(k) : k \in 0 .. n - 1} \cup {Null}
Record(H) == [data : First, ref : H, group : Seq(H)]

LEMMA Handles ==
    /\ \A x : Old(x).id = x /\ Old(x).transient = FALSE
    /\ \A x : New(x).id = x /\ New(x).transient = TRUE
    /\ \A x, y : Old(x) # New(y)
    /\ Null.id = -1 /\ Null.transient = FALSE /\ Null = Old(-1) /\ -1 \notin Id
    /\ \A x \in Id : Old(x) \in Handle /\ New(x) \in Handle
    /\ Null \in Handle
<1>1. /\ \A x : Old(x).id = x /\ Old(x).transient = FALSE
      /\ \A x : New(x).id = x /\ New(x).transient = TRUE
    BY DEF Old, New
<1>2. Null.id = -1 /\ Null.transient = FALSE /\ Null = Old(-1) /\ -1 \notin Id
    BY <1>1, GroupsAssumption DEF Null, Id
<1>3. Null \in Handle /\ \A x \in Id : Old(x) \in Handle /\ New(x) \in Handle
    BY DEF Handle
<1> QED BY <1>1, <1>2, <1>3

LEMMA PlainIs ==
    ASSUME NEW n \in 0 .. MaxIds
    PROVE  /\ Plain(n) \subseteq Handle
           /\ \A h \in Plain(n) : /\ ~ h.transient /\ h = Old(h.id)
                                  /\ h = Null \/ h.id \in 0 .. n - 1
           /\ \A h \in Plain(n) : h.id \in Places
           /\ \A x \in 0 .. n - 1 : Old(x) \in Plain(n)
           /\ Null \in Plain(n)
           /\ 0 .. n - 1 \subseteq Id
<1>1. 0 .. n - 1 \subseteq Id
    BY GroupsAssumption DEF Id
<1> QED BY <1>1, Handles DEF Plain, Handle, Places

LEMMA LinkedIs ==
    ASSUME NEW n \in 0 .. MaxIds
    PROVE  /\ Linked(n) \subseteq Handle
           /\ \A h \in Linked(n) : \/ h.transient /\ h = New(h.id) /\ h.id \in 0 .. n - 1
                                   \/ h = Null
           /\ \A h \in Linked(n) : h.id \in Places
           /\ \A x \in 0 .. n - 1 : New(x) \in Linked(n)
           /\ Null \in Linked(n)
           /\ 0 .. n - 1 \subseteq Id
<1>1. 0 .. n - 1 \subseteq Id
    BY GroupsAssumption DEF Id
<1> QED BY <1>1, Handles DEF Linked, Handle, Places

LEMMA RecordIs ==
    ASSUME NEW H, NEW r \in Record(H)
    PROVE  /\ r.ref \in H /\ r.group \in Seq(H) /\ r.data \in First
           /\ DOMAIN r.group = 1 .. Len(r.group) /\ Len(r.group) \in Nat
           /\ \A i \in 1 .. Len(r.group) : r.group[i] \in H
           /\ (r.group # << >> <=> Len(r.group) # 0)
           /\ (r.group # << >> => 1 \in 1 .. Len(r.group) /\ Len(r.group) \in Nat \ {0})
<1>1. r.ref \in H /\ r.group \in Seq(H) /\ r.data \in First
    BY DEF Record
<1>2. PICK g \in Seq(H) : g = r.group
    BY <1>1
<1>3. /\ DOMAIN g = 1 .. Len(g) /\ Len(g) \in Nat /\ \A i \in 1 .. Len(g) : g[i] \in H
      /\ (g # << >> <=> Len(g) # 0)
    BY EmptySeq, LenProperties, ElementOfSeq
<1>4. Len(g) # 0 => 1 \in 1 .. Len(g) /\ Len(g) \in Nat \ {0}
    BY <1>3
<1> QED BY <1>1, <1>2, <1>3, <1>4

\* chunk::patch of a record.
LEMMA PatchIs ==
    ASSUME NEW H, NEW r \in Record(H), NEW K, NEW to, \A h \in H : to[h] \in K
    PROVE  /\ Patch(r, to) \in Record(K)
           /\ Patch(r, to).ref = to[r.ref] /\ Patch(r, to).data = r.data
           /\ Len(Patch(r, to).group) = Len(r.group)
           /\ (Patch(r, to).group = << >> <=> r.group = << >>)
           /\ \A i \in 1 .. Len(r.group) : Patch(r, to).group[i] = to[r.group[i]]
<1>1. PICK g, L : g = r.group /\ L = Len(g)
    OBVIOUS
<1>2. DOMAIN g = 1 .. L /\ L \in Nat /\ \A i \in 1 .. L : g[i] \in H /\ to[g[i]] \in K
    BY <1>1, RecordIs
<1> DEFINE k == [i \in 1 .. L |-> to[g[i]]]
<1>3. k \in Seq(K) /\ Len(k) = L
    BY <1>2
<1>4. \A i \in 1 .. L : k[i] = to[g[i]]
    OBVIOUS
<1>5. Patch(r, to) = [r EXCEPT !.ref = to[r.ref], !.group = k]
    BY <1>1, <1>2 DEF Patch
<1> HIDE DEF k
<1>6. k = << >> <=> L = 0
    BY <1>3, EmptySeq
<1>7. g = << >> <=> L = 0
    BY <1>1, RecordIs
<1>8. /\ Patch(r, to) \in [data : First, ref : K, group : Seq(K)]
      /\ Patch(r, to).ref = to[r.ref] /\ Patch(r, to).data = r.data /\ Patch(r, to).group = k
    BY <1>3, <1>5, RecordIs DEF Record
<1> QED BY <1>1, <1>3, <1>4, <1>6, <1>7, <1>8 DEF Record

\* Patching with nothing to change, and twice.
LEMMA PatchNot ==
    ASSUME NEW H, NEW r \in Record(H), NEW p, \A h \in H : p[h] = h
    PROVE  Patch(r, p) = r
<1>1. PICK g : g = r.group
    OBVIOUS
<1>2. p[r.ref] = r.ref /\ \A i \in DOMAIN g : p[g[i]] = g[i]
    BY <1>1, RecordIs
<1>3. [i \in DOMAIN g |-> p[g[i]]] = g
  <2>1. g = [i \in DOMAIN g |-> g[i]]
    BY <1>1, RecordIs
  <2> QED BY <1>2, <2>1
<1> QED BY <1>1, <1>2, <1>3 DEF Patch, Record

LEMMA PatchTwice ==
    ASSUME NEW H, NEW r \in Record(H), NEW K, NEW p, \A h \in H : p[h] \in K,
           NEW q, NEW t, \A h \in H : t[h] = q[p[h]]
    PROVE  Patch(Patch(r, p), q) = Patch(r, t)
<1>1. PICK g : g = r.group
    OBVIOUS
<1>2. t[r.ref] = q[p[r.ref]] /\ \A i \in DOMAIN g : t[g[i]] = q[p[g[i]]]
    BY <1>1, RecordIs
<1> DEFINE k == [i \in DOMAIN g |-> p[g[i]]]
<1>3. [i \in DOMAIN g |-> q[k[i]]] = [i \in DOMAIN g |-> t[g[i]]]
    BY <1>2
<1>4. DOMAIN k = DOMAIN g
    OBVIOUS
<1>5. Patch(r, p) = [r EXCEPT !.ref = p[r.ref], !.group = k]
    BY <1>1 DEF Patch
<1> HIDE DEF k
<1>6. Patch(r, p).ref = p[r.ref] /\ Patch(r, p).group = k
    BY <1>5 DEF Record
<1>7. Patch(Patch(r, p), q) = [Patch(r, p) EXCEPT !.ref = q[p[r.ref]],
                                  !.group = [i \in DOMAIN k |-> q[k[i]]]]
    BY <1>6 DEF Patch
<1>8. [i \in DOMAIN k |-> q[k[i]]] = [i \in DOMAIN g |-> t[g[i]]]
    BY <1>3, <1>4
<1> QED BY <1>1, <1>2, <1>5, <1>7, <1>8 DEF Patch, Record

\* The same, put together.
Maps(H, K, to) == \A h \in H : to[h] \in K
Composes(H, K, p, q, t) == \A h \in H : p[h] \in K /\ t[h] = q[p[h]]

LEMMA PatchThrough ==
    ASSUME NEW H, NEW K, NEW p, NEW q, NEW t, Composes(H, K, p, q, t), NEW r \in Record(H)
    PROVE  Patch(Patch(r, p), q) = Patch(r, t)
<1>1. (\A h \in H : p[h] \in K) /\ \A h \in H : t[h] = q[p[h]]
    BY DEF Composes
<1> QED BY <1>1, PatchTwice

LEMMA PatchMaps ==
    ASSUME NEW H, NEW K, NEW to, Maps(H, K, to), NEW r \in Record(H)
    PROVE  /\ Patch(r, to) \in Record(K)
           /\ Patch(r, to).ref = to[r.ref] /\ Patch(r, to).data = r.data
           /\ Len(Patch(r, to).group) = Len(r.group)
           /\ (Patch(r, to).group = << >> <=> r.group = << >>)
           /\ \A i \in 1 .. Len(r.group) : Patch(r, to).group[i] = to[r.group[i]]
<1>1. \A h \in H : to[h] \in K
    BY DEF Maps
<1> QED BY <1>1, PatchIs

-----------------------------------------------------------------------------
(* Places among the members.                                               *)

\* The first place of a member is one of its places, the only one if no entity is
\* listed twice.
LEMMA PlaceIs ==
    ASSUME NEW S, NEW members \in Seq(S), NEW x \in Range(members)
    PROVE  /\ Place(members, Old(x)) \in 1 .. Len(members)
           /\ members[Place(members, Old(x))] = x
<1> DEFINE I == {i \in 1 .. Len(members) : Old(x) = Old(members[i])}
<1>1. PICK i \in 1 .. Len(members) : x = members[i]
    BY LenProperties DEF Range
<1>2. i \in I /\ I \subseteq Nat
    BY <1>1
<1>3. Place(members, Old(x)) = Min(I)
  <2>1. SelectInSeq(members, LAMBDA e : Old(x) = Old(e)) = IF I # {} THEN Min(I) ELSE 0
    BY DEF SelectInSeq
  <2> QED BY <1>2, <2>1 DEF Place
<1>4. Min(I) \in I
  <2> HIDE DEF I
  <2>1. \E y \in I : \A z \in I : y <= z
    BY <1>2, Least
  <2> QED BY <2>1 DEF Min
<1>5. PICK j : j = Place(members, Old(x))
    OBVIOUS
<1>6. j \in 1 .. Len(members) /\ Old(x) = Old(members[j])
    BY <1>3, <1>4, <1>5
<1>7. members[j] = x
    BY ONLY <1>6, Handles
<1> QED BY <1>5, <1>6, <1>7

LEMMA PlaceOf ==
    ASSUME NEW S, NEW members \in Seq(S), IsInjective(members), NEW i \in 1 .. Len(members)
    PROVE  Place(members, Old(members[i])) = i
<1>1. DOMAIN members = 1 .. Len(members)
    BY LenProperties
<1>2. PICK x : x = members[i]
    OBVIOUS
<1>3. x \in Range(members)
    BY <1>1, <1>2 DEF Range
<1> QED BY <1>1, <1>2, <1>3, PlaceIs DEF IsInjective

-----------------------------------------------------------------------------
(* Patching all the members.                                               *)

\* Members are patched, once or twice, and others are not.
LEMMA PatchAllIs ==
    ASSUME NEW world, NEW S, NEW members \in Seq(S), NEW to, NEW e \in DOMAIN world
    PROVE  /\ e \notin Range(members) => PatchAll(world, members, to)[e] = world[e]
           /\ e \in Range(members) =>
                 PatchAll(world, members, to)[e] \in
                     {Patch(world[e], to), Patch(Patch(world[e], to), to)}
           /\ e \in Range(members) /\ IsInjective(members) =>
                 PatchAll(world, members, to)[e] = Patch(world[e], to)
<1> DEFINE T == {i \in DOMAIN members : members[i] = e}
           times == Cardinality(T)
<1>1. PatchAll(world, members, to)[e] =
          CASE times = 0 -> world[e]
            [] times = 1 -> Patch(world[e], to)
            [] OTHER -> Patch(Patch(world[e], to), to)
    BY DEF PatchAll
<1>2. IsFiniteSet(T)
  <2>1. DOMAIN members = 1 .. Len(members) /\ Len(members) \in Int /\ 1 \in Int
    BY LenProperties
  <2>2. IsFiniteSet(1 .. Len(members))
    BY <2>1, FS_Interval
  <2> QED BY <2>1, <2>2, FS_Subset
<1>3. T = {} <=> e \notin Range(members)
    BY DEF Range
<1>4. times = 0 <=> T = {}
    BY <1>2, FS_EmptySet
<1>5. ASSUME e \in Range(members), IsInjective(members) PROVE times = 1
  <2>1. PICK i \in T : TRUE
    BY <1>3, <1>5
  <2>2. T = {i}
    BY <1>5, <2>1 DEF IsInjective
  <2> QED BY <2>2, FS_Singleton
<1> HIDE DEF times, T
<1>6. e \notin Range(members) => PatchAll(world, members, to)[e] = world[e]
    BY <1>1, <1>3, <1>4
<1>7. ASSUME e \in Range(members)
      PROVE  PatchAll(world, members, to)[e] \in
                     {Patch(world[e], to), Patch(Patch(world[e], to), to)}
  <2>1. times # 0
    BY <1>3, <1>4, <1>7
  <2> QED BY <1>1, <2>1
<1>8. ASSUME e \in Range(members), IsInjective(members)
      PROVE  PatchAll(world, members, to)[e] = Patch(world[e], to)
    BY <1>1, <1>5, <1>8
<1> QED BY <1>6, <1>7, <1>8

-----------------------------------------------------------------------------
(* What the patchers make of the handles.                                  *)

\* group_to_prefab's.
Numbers(members, keepExternal) ==
    [h \in Handle |->
        IF \E i \in DOMAIN members : h = Old(members[i])
        THEN New(Place(members, h) - 1)
        ELSE IF keepExternal THEN h ELSE Null]

\* Of a group that is serialized, before and after: handles that lead out are lost.
Kept(members) ==
    [h \in Handle |-> IF \E i \in DOMAIN members : h = Old(members[i]) THEN h ELSE Null]

\* What is lost if serialize patches a second time: the numbers are no members.
Nothing == [h \in Handle |-> Null]

\* Entities that a group is flattened to.
IsMembers(members) == members \in Seq(Id) /\ Len(members) <= MaxIds

LEMMA MembersAre ==
    ASSUME NEW members, IsMembers(members)
    PROVE  /\ DOMAIN members = 1 .. Len(members) /\ Len(members) \in 0 .. MaxIds
           /\ \A i \in 1 .. Len(members) : members[i] \in Id /\ members[i] \in Range(members)
           /\ Range(members) \subseteq Id
           /\ \A x : x \in Range(members) <=> \E i \in 1 .. Len(members) : members[i] = x
<1>1. DOMAIN members = 1 .. Len(members) /\ Len(members) \in Nat
    BY LenProperties DEF IsMembers
<1>2. \A i \in 1 .. Len(members) : members[i] \in Id
    BY ElementOfSeq DEF IsMembers
<1>3. Len(members) \in 0 .. MaxIds
    BY <1>1, GroupsAssumption DEF IsMembers
<1> QED BY <1>1, <1>2, <1>3 DEF Range

LEMMA NumbersAre ==
    ASSUME NEW members, IsMembers(members), NEW keepExternal \in BOOLEAN
    PROVE  /\ \A x \in Range(members) :
                 /\ Place(members, Old(x)) - 1 \in 0 .. Len(members) - 1
                 /\ members[Place(members, Old(x))] = x
                 /\ Numbers(members, keepExternal)[Old(x)] = New(Place(members, Old(x)) - 1)
           /\ \A h \in Handle : (\A x \in Range(members) : h # Old(x)) =>
                 Numbers(members, keepExternal)[h] = IF keepExternal THEN h ELSE Null
<1>1. ASSUME NEW x \in Range(members)
      PROVE  /\ Place(members, Old(x)) - 1 \in 0 .. Len(members) - 1
             /\ members[Place(members, Old(x))] = x
             /\ Numbers(members, keepExternal)[Old(x)] = New(Place(members, Old(x)) - 1)
  <2>1. Place(members, Old(x)) \in 1 .. Len(members) /\ members[Place(members, Old(x))] = x
    BY <1>1, PlaceIs DEF IsMembers
  <2>2. Place(members, Old(x)) - 1 \in 0 .. Len(members) - 1
    BY <2>1, MembersAre
  <2>3. Old(x) \in Handle
    BY <1>1, MembersAre, Handles
  <2>4. \E i \in DOMAIN members : Old(x) = Old(members[i])
    BY <2>1, MembersAre
  <2> QED BY <2>1, <2>2, <2>3, <2>4 DEF Numbers
<1>2. ASSUME NEW h \in Handle, \A x \in Range(members) : h # Old(x)
      PROVE  Numbers(members, keepExternal)[h] = IF keepExternal THEN h ELSE Null
  <2>1. ~ \E i \in DOMAIN members : h = Old(members[i])
    BY <1>2 DEF Range
  <2> QED BY <2>1 DEF Numbers
<1> QED BY <1>1, <1>2

LEMMA KeptIs ==
    ASSUME NEW members, IsMembers(members)
    PROVE  /\ \A x \in Range(members) : Kept(members)[Old(x)] = Old(x)
           /\ \A h \in Handle : (\A x \in Range(members) : h # Old(x)) => Kept(members)[h] = Null
<1>1. ASSUME NEW x \in Range(members) PROVE Kept(members)[Old(x)] = Old(x)
  <2>1. Old(x) \in Handle
    BY <1>1, MembersAre, Handles
  <2>2. \E i \in DOMAIN members : Old(x) = Old(members[i])
    BY DEF Range
  <2> QED BY <2>1, <2>2 DEF Kept
<1>2. ASSUME NEW h \in Handle, \A x \in Range(members) : h # Old(x)
      PROVE  Kept(members)[h] = Null
  <2>1. ~ \E i \in DOMAIN members : h = Old(members[i])
    BY <1>2 DEF Range
  <2> QED BY <2>1 DEF Kept
<1> QED BY <1>1, <1>2

LEMMA ResolveIs ==
    ASSUME NEW members, IsMembers(members)
    PROVE  /\ \A k \in 0 .. Len(members) - 1 : Resolve(members)[New(k)] = Old(members[k + 1])
           /\ \A h \in Handle : ~ h.transient => Resolve(members)[h] = h
           /\ \A k \in 0 .. Len(members) - 1 :
                 New(k) \in Handle /\ members[k + 1] \in Range(members)
<1>1. ASSUME NEW k \in 0 .. Len(members) - 1
      PROVE  /\ Resolve(members)[New(k)] = Old(members[k + 1])
             /\ New(k) \in Handle /\ members[k + 1] \in Range(members)
  <2>1. k \in 0 .. MaxIds - 1 /\ k + 1 \in 1 .. Len(members)
    BY MembersAre, GroupsAssumption
  <2>2. New(k) \in Handle
    BY <2>1, Handles DEF Id
  <2> QED BY <2>1, <2>2, Handles, MembersAre DEF Resolve
<1>2. ASSUME NEW h \in Handle, ~ h.transient PROVE Resolve(members)[h] = h
    BY <1>2 DEF Resolve
<1> QED BY <1>1, <1>2

\* An image of plain handles: those of the members, and the others.
LEMMA PlainSplit ==
    ASSUME NEW n \in 0 .. MaxIds, NEW h \in Plain(n), NEW members, IsMembers(members)
    PROVE  \/ h.id \in Range(members) /\ h = Old(h.id)
           \/ h.id \notin Range(members) /\ \A x \in Range(members) : h # Old(x)
    BY PlainIs, Handles

\* The two uses: instantiate keeps the handles that lead out, serialize does not.
NumbersIn(members) == Numbers(members, TRUE)
NumbersOnly(members) == Numbers(members, FALSE)
PrefabIn(world, members) == GroupToPrefab(world, members, TRUE)
PrefabOnly(world, members) == GroupToPrefab(world, members, FALSE)

LEMMA NumbersInAre ==
    ASSUME NEW members, IsMembers(members)
    PROVE  /\ \A x \in Range(members) :
                 /\ Place(members, Old(x)) - 1 \in 0 .. Len(members) - 1
                 /\ members[Place(members, Old(x))] = x
                 /\ NumbersIn(members)[Old(x)] = New(Place(members, Old(x)) - 1)
           /\ \A h \in Handle : (\A x \in Range(members) : h # Old(x)) =>
                 NumbersIn(members)[h] = h
<1>1. PICK k \in BOOLEAN : k = TRUE
    OBVIOUS
<1>2. NumbersIn(members) = Numbers(members, k)
    BY <1>1 DEF NumbersIn
<1>3. \A h : (IF k THEN h ELSE Null) = h
    BY <1>1
<1>4. /\ \A x \in Range(members) :
            /\ Place(members, Old(x)) - 1 \in 0 .. Len(members) - 1
            /\ members[Place(members, Old(x))] = x
            /\ Numbers(members, k)[Old(x)] = New(Place(members, Old(x)) - 1)
      /\ \A h \in Handle : (\A x \in Range(members) : h # Old(x)) =>
            Numbers(members, k)[h] = IF k THEN h ELSE Null
    BY NumbersAre
<1> QED BY <1>2, <1>3, <1>4

LEMMA NumbersOnlyAre ==
    ASSUME NEW members, IsMembers(members)
    PROVE  /\ \A x \in Range(members) :
                 /\ Place(members, Old(x)) - 1 \in 0 .. Len(members) - 1
                 /\ members[Place(members, Old(x))] = x
                 /\ NumbersOnly(members)[Old(x)] = New(Place(members, Old(x)) - 1)
           /\ \A h \in Handle : (\A x \in Range(members) : h # Old(x)) =>
                 NumbersOnly(members)[h] = Null
<1>1. PICK k \in BOOLEAN : k = FALSE
    OBVIOUS
<1>2. NumbersOnly(members) = Numbers(members, k)
    BY <1>1 DEF NumbersOnly
<1> QED BY <1>1, <1>2, NumbersAre

-----------------------------------------------------------------------------
(* What becomes of the members.                                            *)

\* Copies are made of the members with their numbers: patched twice, these stay,
\* and so do the handles that lead out.
LEMMA PrefabKeeps ==
    ASSUME NEW n \in 0 .. MaxIds, NEW world, NEW members, IsMembers(members),
           NEW e \in DOMAIN world, world[e] \in Record(Plain(n))
    PROVE  PrefabIn(world, members)[e] =
               IF e \in Range(members) THEN Patch(world[e], NumbersIn(members)) ELSE world[e]
<1> DEFINE p == NumbersIn(members)
<1>1. PrefabIn(world, members) = PatchAll(world, members, p)
    BY DEF PrefabIn, GroupToPrefab, NumbersIn, Numbers
<1>2. \A h \in Plain(n) : p[h] \in Handle /\ p[h] = p[p[h]]
  <2> SUFFICES ASSUME NEW h \in Plain(n) PROVE p[h] \in Handle /\ p[h] = p[p[h]]
    OBVIOUS
  <2>1. CASE h.id \in Range(members) /\ h = Old(h.id)
    <3>0. PICK x \in Range(members) : h = Old(x)
        BY <2>1
    <3>1. PICK k \in 0 .. Len(members) - 1 : p[h] = New(k)
      <4>2. /\ Place(members, Old(x)) - 1 \in 0 .. Len(members) - 1
            /\ p[Old(x)] = New(Place(members, Old(x)) - 1)
        BY NumbersInAre
      <4> QED BY <3>0, <4>2
    <3>2. New(k) \in Handle
        BY ResolveIs
    <3>3. p[New(k)] = New(k)
      <4>1. PICK g \in Handle : g = New(k) /\ \A y \in Range(members) : g # Old(y)
        BY <3>2, Handles
      <4>3. p[g] = g
        BY <4>1, NumbersInAre
      <4> QED BY <4>1, <4>3
    <3> QED BY <3>1, <3>2, <3>3
  <2>2. CASE \A x \in Range(members) : h # Old(x)
    <3>1. h \in Handle
        BY PlainIs
    <3>2. p[h] = h
        BY <2>2, <3>1, NumbersInAre
    <3> QED BY <3>1, <3>2
  <2> QED BY <2>1, <2>2, PlainSplit
<1> HIDE DEF p
<1>3. Patch(Patch(world[e], p), p) = Patch(world[e], p)
    BY <1>2, PatchTwice
<1>4. members \in Seq(Id)
    BY DEF IsMembers
<1>5. /\ e \notin Range(members) => PatchAll(world, members, p)[e] = world[e]
      /\ e \in Range(members) => PatchAll(world, members, p)[e] = Patch(world[e], p)
    BY <1>3, <1>4, PatchAllIs
<1> QED BY <1>1, <1>5 DEF p

\* What is serialized loses the handles that lead out, and all of them if it is
\* patched twice.
LEMMA PrefabLoses ==
    ASSUME NEW n \in 0 .. MaxIds, NEW world, NEW members, IsMembers(members),
           NEW e \in DOMAIN world, world[e] \in Record(Plain(n))
    PROVE  /\ e \notin Range(members) => PrefabOnly(world, members)[e] = world[e]
           /\ e \in Range(members) => PrefabOnly(world, members)[e] \in
                  {Patch(world[e], NumbersOnly(members)), Patch(world[e], Nothing)}
           /\ e \in Range(members) /\ IsInjective(members) =>
                  PrefabOnly(world, members)[e] = Patch(world[e], NumbersOnly(members))
<1> DEFINE p == NumbersOnly(members)
<1>1. PrefabOnly(world, members) = PatchAll(world, members, p)
    BY DEF PrefabOnly, GroupToPrefab, NumbersOnly, Numbers
<1>2. \A h \in Plain(n) : p[h] \in Handle /\ Nothing[h] = p[p[h]]
  <2> SUFFICES ASSUME NEW h \in Plain(n) PROVE p[h] \in Handle /\ Nothing[h] = p[p[h]]
    OBVIOUS
  <2>0. Nothing[h] = Null /\ h \in Handle
    BY PlainIs DEF Nothing
  <2>1. CASE h.id \in Range(members) /\ h = Old(h.id)
    <3>0. PICK x \in Range(members) : h = Old(x)
        BY <2>1
    <3>1. PICK k \in 0 .. Len(members) - 1 : p[h] = New(k)
      <4>2. /\ Place(members, Old(x)) - 1 \in 0 .. Len(members) - 1
            /\ p[Old(x)] = New(Place(members, Old(x)) - 1)
        BY NumbersOnlyAre
      <4> QED BY <3>0, <4>2
    <3>2. New(k) \in Handle
        BY ResolveIs
    <3>3. p[New(k)] = Null
      <4>1. PICK g \in Handle : g = New(k) /\ \A y \in Range(members) : g # Old(y)
        BY <3>2, Handles
      <4>3. p[g] = Null
        BY <4>1, NumbersOnlyAre
      <4> QED BY <4>1, <4>3
    <3> QED BY <2>0, <3>1, <3>2, <3>3
  <2>2. CASE \A x \in Range(members) : h # Old(x)
    <3>1. p[h] = Null
        BY <2>0, <2>2, NumbersOnlyAre
    <3>2. \A x \in Range(members) : Null # Old(x)
        BY MembersAre, Handles
    <3>3. p[Null] = Null /\ Null \in Handle
        BY <3>2, NumbersOnlyAre, Handles
    <3> QED BY <2>0, <3>1, <3>3
  <2> QED BY <2>1, <2>2, PlainSplit
<1> HIDE DEF p
<1>3. Patch(Patch(world[e], p), p) = Patch(world[e], Nothing)
    BY <1>2, PatchTwice
<1>4. members \in Seq(Id)
    BY DEF IsMembers
<1>5. /\ e \notin Range(members) => PatchAll(world, members, p)[e] = world[e]
      /\ e \in Range(members) =>
             PatchAll(world, members, p)[e] \in {Patch(world[e], p), Patch(world[e], Nothing)}
      /\ e \in Range(members) /\ IsInjective(members) =>
            PatchAll(world, members, p)[e] = Patch(world[e], p)
    BY <1>3, <1>4, PatchAllIs
<1> QED BY <1>1, <1>5 DEF p

\* Handles that prefab_to_group finds a member for.
Resolvable(H, n) ==
    \A h \in H : h \in Handle /\ (h.transient => h.id \in 0 .. n - 1 /\ h = New(h.id))

\* prefab_to_group patches every member as if it were listed once.
LEMMA Restored ==
    ASSUME NEW world, NEW members, IsMembers(members), NEW H, Resolvable(H, Len(members)),
           NEW e \in DOMAIN world, world[e] \in Record(H)
    PROVE  PrefabToGroup(world, members)[e] =
               IF e \in Range(members) THEN Patch(world[e], Resolve(members)) ELSE world[e]
<1> DEFINE q == Resolve(members)
<1>2. \A h \in H : q[h] \in Handle /\ q[h] = q[q[h]]
  <2> SUFFICES ASSUME NEW h \in H PROVE q[h] \in Handle /\ q[h] = q[q[h]]
    OBVIOUS
  <2>1. CASE h.transient
    <3>1. PICK x \in Range(members) : q[h] = Old(x)
        BY <2>1, ResolveIs DEF Resolvable
    <3>2. Old(x) \in Handle /\ ~ Old(x).transient
        BY MembersAre, Handles
    <3> QED BY <3>1, <3>2, ResolveIs
  <2>2. CASE ~ h.transient
    BY <2>2, ResolveIs DEF Resolvable
  <2> QED BY <2>1, <2>2
<1>1. PrefabToGroup(world, members) = PatchAll(world, members, q)
    BY DEF PrefabToGroup
<1> HIDE DEF q
<1>3. Patch(Patch(world[e], q), q) = Patch(world[e], q)
  <2>1. PICK r \in Record(H) : r = world[e]
    OBVIOUS
  <2>2. Patch(Patch(r, q), q) = Patch(r, q)
    BY ONLY <1>2, PatchTwice, r \in Record(H)
  <2> QED BY <2>1, <2>2
<1>4. members \in Seq(Id)
    BY DEF IsMembers
<1>5. /\ e \notin Range(members) => PatchAll(world, members, q)[e] = world[e]
      /\ e \in Range(members) => PatchAll(world, members, q)[e] = Patch(world[e], q)
    BY <1>3, <1>4, PatchAllIs
<1> QED BY <1>1, <1>5 DEF q

LEMMA PatchedDomains ==
    ASSUME NEW world, NEW members
    PROVE  /\ DOMAIN PrefabIn(world, members) = DOMAIN world
           /\ DOMAIN PrefabOnly(world, members) = DOMAIN world
           /\ DOMAIN PrefabToGroup(world, members) = DOMAIN world
           /\ PrefabToGroup(world, members)
                = [e \in DOMAIN world |-> PrefabToGroup(world, members)[e]]
    BY DEF PrefabIn, PrefabOnly, GroupToPrefab, PrefabToGroup, PatchAll

-----------------------------------------------------------------------------
(* Worlds of entities.                                                     *)

World(world, H) == \A e \in DOMAIN world : world[e] \in Record(H)

LEMMA RecordMono ==
    ASSUME NEW H, NEW K, H \subseteq K, NEW r \in Record(H)
    PROVE  r \in Record(K)
<1>1. r.group \in Seq(K)
    BY RecordIs, SeqMonotonic
<1> QED BY <1>1 DEF Record

\* In a world with handles that can be looked up, so can the groups.
LEMMA WorldIs ==
    ASSUME NEW H, \A h \in H : h.id \in Places, NEW world, World(world, H)
    PROVE  /\ Leads(world)
           /\ \A e \in DOMAIN world :
                 /\ Size(world, e) \in Nat
                 /\ Grouped(world, e) <=> Size(world, e) # 0
                 /\ \A i \in 1 .. Size(world, e) : /\ world[e].group[i] \in H
                                                   /\ Link(world, e, i) \in Places
           /\ \A e : Grouped(world, e) => /\ e \in DOMAIN world /\ Size(world, e) \in Nat \ {0}
                                          /\ 1 \in 1 .. Size(world, e)
<1>1. ASSUME NEW e \in DOMAIN world
      PROVE  /\ Size(world, e) \in Nat
             /\ Grouped(world, e) <=> Size(world, e) # 0
             /\ \A i \in 1 .. Size(world, e) : /\ world[e].group[i] \in H
                                               /\ Link(world, e, i) \in Places
             /\ Grouped(world, e) => Size(world, e) \in Nat \ {0} /\ 1 \in 1 .. Size(world, e)
  <2>1. PICK r \in Record(H) : r = world[e]
    BY <1>1 DEF World
  <2>2. /\ Len(r.group) \in Nat /\ \A i \in 1 .. Len(r.group) : r.group[i] \in H
        /\ (r.group # << >> <=> Len(r.group) # 0)
        /\ (r.group # << >> => 1 \in 1 .. Len(r.group) /\ Len(r.group) \in Nat \ {0})
    BY RecordIs
  <2> QED BY <2>1, <2>2 DEF Size, Link, Grouped, NoGroup
<1>2. \A e : Grouped(world, e) => e \in DOMAIN world
    BY DEF Grouped
<1>3. Leads(world)
    BY <1>1, <1>2 DEF Leads, Size, Link
<1> QED BY <1>1, <1>2, <1>3

\* Each entity of W has become of one of V, in a copy of its own (c).
CopyOf(V, W, src, c) ==
    \A e \in DOMAIN W :
        /\ src[e] \in DOMAIN V
        /\ Size(W, e) = Size(V, src[e]) /\ (Grouped(W, e) => Grouped(V, src[e]))
        /\ \A i \in 1 .. Size(W, e) :
               \/ Link(W, e, i) = Null.id
               \/ /\ Link(W, e, i) = c[e][Link(V, src[e], i)]
                  /\ Link(W, e, i) \in DOMAIN W =>
                         src[Link(W, e, i)] = Link(V, src[e], i) /\ c[Link(W, e, i)] = c[e]
        /\ Link(W, e, 1) # Null.id =>
               \A i \in 1 .. Size(W, e) : Link(W, e, i) = c[e][Link(V, src[e], i)]
        /\ c[e][Null.id] = Null.id

\* Copies of orderly entities are orderly.
LEMMA OrderlyCopy ==
    ASSUME NEW V, NEW W, NEW src, NEW c, CopyOf(V, W, src, c), Orderly(V),
           Leads(W), Null.id \notin DOMAIN W
    PROVE  Orderly(W)
<1>0. \A e : Grouped(W, e) => e \in DOMAIN W /\ 1 \in 1 .. Size(W, e)
    BY DEF Leads, Grouped, Size
<1>1. ASSUME NEW e, Grouped(W, e), NEW i \in 1 .. Size(W, e) PROVE Tidy(W, Link(W, e, i))
  <2> SUFFICES ASSUME Grouped(W, Link(W, e, i))
               PROVE  Link(W, Link(W, e, i), 1) \in {Null.id, Link(W, e, i)}
    BY DEF Tidy
  <2>1. PICK x, y : x = Link(V, src[e], i) /\ y = Link(W, e, i)
    OBVIOUS
  <2>2. y \in DOMAIN W /\ e \in DOMAIN W /\ 1 \in 1 .. Size(W, y) /\ y # Null.id
    BY <1>0, <1>1, <2>1
  <2>3. y = c[e][x] /\ src[y] = x /\ c[y] = c[e]
        /\ Grouped(V, src[e]) /\ Size(V, src[e]) = Size(W, e)
    BY <1>1, <2>1, <2>2 DEF CopyOf
  <2>4. Grouped(V, x)
    BY <2>1, <2>2, <2>3 DEF CopyOf
  <2>5. Link(V, x, 1) \in {Null.id, x}
    BY <1>1, <2>1, <2>3, <2>4 DEF Orderly, Tidy
  <2>6. Link(W, y, 1) = Null.id \/ Link(W, y, 1) = c[y][Link(V, x, 1)]
    BY <2>2, <2>3 DEF CopyOf
  <2>7. c[e][Null.id] = Null.id
    BY <2>2 DEF CopyOf
  <2> QED BY <2>1, <2>3, <2>5, <2>6, <2>7
<1>2. ASSUME NEW e, Grouped(W, e), Link(W, e, 1) \in DOMAIN W
      PROVE  Alike(W, e, Link(W, e, 1))
  <2>1. PICK x, h : x = Link(V, src[e], 1) /\ h = Link(W, e, 1)
    OBVIOUS
  <2>2. e \in DOMAIN W /\ h \in DOMAIN W /\ h # Null.id /\ 1 \in 1 .. Size(W, e)
    BY <1>0, <1>2, <2>1
  <2>3. h = c[e][x] /\ src[h] = x /\ c[h] = c[e]
    BY <2>1, <2>2 DEF CopyOf
  <2>4. Grouped(V, src[e]) /\ x \in DOMAIN V
        /\ Size(V, src[e]) = Size(W, e) /\ Size(W, h) = Size(V, x)
        /\ c[e][Null.id] = Null.id
    BY <1>2, <2>2, <2>3 DEF CopyOf
  <2>5. Alike(V, src[e], x)
    BY <2>1, <2>4 DEF Orderly
  <2>6. Size(W, h) = Size(W, e)
    BY <2>4, <2>5 DEF Alike
  <2>7. ASSUME NEW i \in 1 .. Size(W, e) PROVE Link(W, h, i) \in {Null.id, Link(W, e, i)}
    <3>1. Link(W, e, i) = c[e][Link(V, src[e], i)]
        BY <2>1, <2>2 DEF CopyOf
    <3>2. Link(V, x, i) \in {Null.id, Link(V, src[e], i)}
        BY <2>4, <2>5 DEF Alike
    <3>3. Link(W, h, i) = Null.id \/ Link(W, h, i) = c[h][Link(V, src[h], i)]
        BY <2>2, <2>6 DEF CopyOf
    <3> QED BY <2>3, <2>4, <3>1, <3>2, <3>3
  <2> QED BY <2>1, <2>6, <2>7 DEF Alike
<1> QED BY <1>1, <1>2 DEF Orderly

\* Two worlds that do not refer to each other are orderly together.
LEMMA OrderlyTogether ==
    ASSUME NEW U, NEW V, NEW W, Orderly(U), Orderly(V), Leads(U), Leads(V),
           DOMAIN W = DOMAIN U \cup DOMAIN V,
           \A e \in DOMAIN U : W[e] = U[e], \A e \in DOMAIN V : W[e] = V[e],
           \A e : Grouped(U, e) => \A i \in 1 .. Size(U, e) : Link(U, e, i) \notin DOMAIN V,
           \A e : Grouped(V, e) => \A i \in 1 .. Size(V, e) : Link(V, e, i) \notin DOMAIN U
    PROVE  Orderly(W)
<1>1. ASSUME NEW e
      PROVE              /\ e \in DOMAIN U =>
                             Size(W, e) = Size(U, e) /\ (Grouped(W, e) <=> Grouped(U, e))
                                              /\ \A i : Link(W, e, i) = Link(U, e, i)
                         /\ e \in DOMAIN V =>
                             Size(W, e) = Size(V, e) /\ (Grouped(W, e) <=> Grouped(V, e))
                                              /\ \A i : Link(W, e, i) = Link(V, e, i)
                         /\ Grouped(W, e) => e \in DOMAIN U \/ e \in DOMAIN V
                         /\ Grouped(W, e) => 1 \in 1 .. Size(W, e)
  <2>1. e \in DOMAIN U =>
                             Size(W, e) = Size(U, e) /\ (Grouped(W, e) <=> Grouped(U, e))
                                              /\ \A i : Link(W, e, i) = Link(U, e, i)
    BY DEF Size, Grouped, Link
  <2>2. e \in DOMAIN V =>
                             Size(W, e) = Size(V, e) /\ (Grouped(W, e) <=> Grouped(V, e))
                                              /\ \A i : Link(W, e, i) = Link(V, e, i)
    BY DEF Size, Grouped, Link
  <2>3. Grouped(W, e) => e \in DOMAIN U \/ e \in DOMAIN V
    BY DEF Grouped
  <2>4. /\ Grouped(U, e) => 1 \in 1 .. Size(U, e)
        /\ Grouped(V, e) => 1 \in 1 .. Size(V, e)
    BY DEF Leads, Size
  <2> QED BY <2>1, <2>2, <2>3, <2>4
<1>2. ASSUME NEW e, Grouped(W, e), NEW i \in 1 .. Size(W, e) PROVE Tidy(W, Link(W, e, i))
  <2> SUFFICES ASSUME Grouped(W, Link(W, e, i))
               PROVE  Link(W, Link(W, e, i), 1) \in {Null.id, Link(W, e, i)}
    BY DEF Tidy
  <2>1. PICK y : y = Link(W, e, i)
    OBVIOUS
  <2>2. CASE e \in DOMAIN U
    <3>1. Grouped(U, e) /\ i \in 1 .. Size(U, e) /\ y = Link(U, e, i)
        BY <1>1, <1>2, <2>1, <2>2
    <3>2. y \in DOMAIN U /\ Grouped(U, y) /\ Link(W, y, 1) = Link(U, y, 1)
        BY <1>1, <2>1, <3>1
    <3>3. Link(U, y, 1) \in {Null.id, y}
        BY <3>1, <3>2 DEF Orderly, Tidy
    <3> QED BY <2>1, <3>2, <3>3
  <2>3. CASE e \in DOMAIN V
    <3>1. Grouped(V, e) /\ i \in 1 .. Size(V, e) /\ y = Link(V, e, i)
        BY <1>1, <1>2, <2>1, <2>3
    <3>2. y \in DOMAIN V /\ Grouped(V, y) /\ Link(W, y, 1) = Link(V, y, 1)
        BY <1>1, <2>1, <3>1
    <3>3. Link(V, y, 1) \in {Null.id, y}
        BY <3>1, <3>2 DEF Orderly, Tidy
    <3> QED BY <2>1, <3>2, <3>3
  <2> QED BY <1>1, <1>2, <2>2, <2>3
<1>3. ASSUME NEW e, Grouped(W, e), Link(W, e, 1) \in DOMAIN W
      PROVE  Alike(W, e, Link(W, e, 1))
  <2>1. PICK h : h = Link(W, e, 1)
    OBVIOUS
  <2>2. CASE e \in DOMAIN U
    <3>1. Grouped(U, e) /\ 1 \in 1 .. Size(U, e) /\ h = Link(U, e, 1)
        BY <1>1, <1>3, <2>1, <2>2
    <3>2. h \in DOMAIN U
        BY <1>3, <2>1, <3>1
    <3>3. Alike(U, e, h)
        BY <3>1, <3>2 DEF Orderly
    <3> QED BY <1>1, <2>1, <2>2, <3>2, <3>3 DEF Alike
  <2>3. CASE e \in DOMAIN V
    <3>1. Grouped(V, e) /\ 1 \in 1 .. Size(V, e) /\ h = Link(V, e, 1)
        BY <1>1, <1>3, <2>1, <2>3
    <3>2. h \in DOMAIN V
        BY <1>3, <2>1, <3>1
    <3>3. Alike(V, e, h)
        BY <3>1, <3>2 DEF Orderly
    <3> QED BY <1>1, <2>1, <2>3, <3>2, <3>3 DEF Alike
  <2> QED BY <1>1, <1>3, <2>2, <2>3
<1> QED BY <1>2, <1>3 DEF Orderly

-----------------------------------------------------------------------------
(* The sources, afterwards.                                                *)

\* A number stands for its member: resolving undoes numbering, but for the handles
\* that serialize drops.
LEMMA NumbersResolve ==
    ASSUME NEW n \in 0 .. MaxIds, NEW members, IsMembers(members), NEW h \in Plain(n)
    PROVE  /\ NumbersIn(members)[h] \in Linked(Len(members)) \cup Plain(n)
           /\ Resolve(members)[NumbersIn(members)[h]] = h
           /\ NumbersOnly(members)[h] \in Linked(Len(members))
           /\ Resolve(members)[NumbersOnly(members)[h]] = Kept(members)[h]
<1>0. h \in Handle /\ ~ h.transient /\ Null \in Handle /\ ~ Null.transient
    BY PlainIs, Handles
<1>1. CASE h.id \in Range(members) /\ h = Old(h.id)
  <2>1. PICK x \in Range(members) : h = Old(x)
    BY <1>1
  <2>2. PICK k : k = Place(members, Old(x)) - 1
    OBVIOUS
  <2>3. k \in 0 .. Len(members) - 1 /\ members[Place(members, Old(x))] = x
        /\ NumbersIn(members)[Old(x)] = New(k) /\ NumbersOnly(members)[Old(x)] = New(k)
    BY <2>2, NumbersInAre, NumbersOnlyAre
  <2>4. members[k + 1] = x
    <3>1. Place(members, Old(x)) \in 1 .. Len(members)
        BY PlaceIs DEF IsMembers
    <3>2. k + 1 = Place(members, Old(x))
        BY <2>2, <3>1, MembersAre
    <3> QED BY <2>3, <3>2
  <2>5. Resolve(members)[New(k)] = Old(x)
    BY <2>3, <2>4, ResolveIs
  <2>6. New(k) \in Linked(Len(members))
    BY <2>3 DEF Linked
  <2>7. Kept(members)[h] = h
    BY <2>1, KeptIs
  <2> QED BY <2>1, <2>3, <2>5, <2>6, <2>7
<1>2. CASE \A x \in Range(members) : h # Old(x)
  <2>1. NumbersIn(members)[h] = h /\ NumbersOnly(members)[h] = Null
    BY <1>0, <1>2, NumbersInAre, NumbersOnlyAre
  <2>2. Kept(members)[h] = Null
    BY <1>0, <1>2, KeptIs
  <2>3. Null \in Linked(Len(members))
    BY DEF Linked
  <2>4. Resolve(members)[h] = h /\ Resolve(members)[Null] = Null
    BY <1>0, ResolveIs
  <2> QED BY <2>1, <2>2, <2>3, <2>4
<1> QED BY <1>1, <1>2, PlainSplit

LEMMA MixedResolvable ==
    ASSUME NEW n \in 0 .. MaxIds, NEW m \in 0 .. MaxIds
    PROVE  Resolvable(Linked(m) \cup Plain(n), m)
<1> SUFFICES ASSUME NEW h \in Linked(m) \cup Plain(n)
             PROVE  h \in Handle /\ (h.transient => h.id \in 0 .. m - 1 /\ h = New(h.id))
    BY DEF Resolvable
<1>1. CASE h \in Linked(m)
    BY <1>1, LinkedIs, Handles
<1>2. CASE h \in Plain(n)
    BY <1>2, PlainIs
<1> QED BY <1>1, <1>2

\* After instantiate has copied a group, its entities are as they were.
LEMMA SourceRestored ==
    ASSUME NEW n \in 0 .. MaxIds, NEW world, World(world, Plain(n)),
           NEW members, IsMembers(members),
           world = [e \in DOMAIN world |-> world[e]]
    PROVE  PrefabToGroup(PrefabIn(world, members), members) = world
<1> DEFINE prefab == PrefabIn(world, members)
           H == Linked(Len(members)) \cup Plain(n)
<1>1. DOMAIN prefab = DOMAIN world /\ DOMAIN PrefabToGroup(prefab, members) = DOMAIN world
    BY PatchedDomains
<1>2. Resolvable(H, Len(members))
    BY MembersAre, MixedResolvable
<1>3. ASSUME NEW e \in DOMAIN world PROVE PrefabToGroup(prefab, members)[e] = world[e]
  <2>1. PICK r \in Record(Plain(n)) : r = world[e]
    BY DEF World
  <2>2. prefab[e] = IF e \in Range(members) THEN Patch(r, NumbersIn(members)) ELSE r
    BY <2>1, PrefabKeeps
  <2>3. \A h \in Plain(n) : /\ NumbersIn(members)[h] \in H
                            /\ Resolve(members)[NumbersIn(members)[h]] = h
    BY NumbersResolve
  <2>4. Patch(r, NumbersIn(members)) \in Record(H)
    BY <2>3, PatchIs
  <2>5. r \in Record(H)
    BY RecordMono
  <2> HIDE DEF prefab, H
  <2>6. PrefabToGroup(prefab, members)[e] =
            IF e \in Range(members) THEN Patch(prefab[e], Resolve(members)) ELSE prefab[e]
    BY <1>1, <1>2, <2>2, <2>4, <2>5, Restored
  <2>7. Patch(Patch(r, NumbersIn(members)), Resolve(members)) = r
    <3>0. PICK t : \A h \in Plain(n) : t[h] = h
      <4> WITNESS [h \in Plain(n) |-> h]
      <4> QED OBVIOUS
    <3> DEFINE p == NumbersIn(members)
               q == Resolve(members)
    <3>1. Patch(Patch(r, p), q) = Patch(r, t)
      <4>1. \A h \in Plain(n) : p[h] \in H /\ t[h] = q[p[h]]
        BY <2>3, <3>0
      <4> HIDE DEF p, q
      <4> QED BY ONLY <4>1, PatchTwice, r \in Record(Plain(n))
    <3>2. Patch(r, t) = r
        BY ONLY <3>0, PatchNot, r \in Record(Plain(n))
    <3> QED BY <3>1, <3>2
  <2> QED BY <2>1, <2>2, <2>6, <2>7
<1>4. PrefabToGroup(prefab, members) = [e \in DOMAIN world |-> PrefabToGroup(prefab, members)[e]]
    BY <1>1, PatchedDomains
<1> QED BY <1>3, <1>4

\* After serialize has written it, they are, but for the handles that lead out.
LEMMA SourceKept ==
    ASSUME NEW n \in 0 .. MaxIds, NEW world, World(world, Plain(n)),
           NEW members, IsMembers(members),
           NEW e \in DOMAIN world,
           NEW s, s = PrefabToGroup(PrefabOnly(world, members), members)[e]
    PROVE  /\ e \notin Range(members) => s = world[e]
           /\ e \in Range(members) =>
                  s \in {Patch(world[e], Kept(members)), Patch(world[e], Nothing)}
           /\ e \in Range(members) /\ IsInjective(members) => s = Patch(world[e], Kept(members))
<1> DEFINE prefab == PrefabOnly(world, members)
           H == Linked(Len(members)) \cup Plain(n)
           p == NumbersOnly(members)
           q == Resolve(members)
<1>1. DOMAIN prefab = DOMAIN world /\ DOMAIN PrefabToGroup(prefab, members) = DOMAIN world
    BY PatchedDomains
<1>2. Resolvable(H, Len(members))
    BY MembersAre, MixedResolvable
<1>3. PICK r \in Record(Plain(n)) : r = world[e]
    BY DEF World
<1>4. /\ e \notin Range(members) => prefab[e] = r
      /\ e \in Range(members) => prefab[e] \in {Patch(r, p), Patch(r, Nothing)}
      /\ e \in Range(members) /\ IsInjective(members) => prefab[e] = Patch(r, p)
    BY <1>3, PrefabLoses
<1>5. \A h \in Plain(n) : /\ p[h] \in H /\ q[p[h]] = Kept(members)[h]
                          /\ Nothing[h] \in H /\ q[Nothing[h]] = Nothing[h]
  <2>1. ASSUME NEW h \in Plain(n) PROVE p[h] \in H /\ q[p[h]] = Kept(members)[h]
    BY NumbersResolve
  <2>2. ASSUME NEW h \in Plain(n) PROVE Nothing[h] \in H /\ q[Nothing[h]] = Nothing[h]
    <3>1. Nothing[h] = Null
        BY PlainIs DEF Nothing
    <3>2. Null \in H /\ Null \in Handle /\ ~ Null.transient
        BY PlainIs, Handles
    <3> QED BY <3>1, <3>2, ResolveIs
  <2> QED BY <2>1, <2>2
<1> HIDE DEF prefab, H, p, q
<1>6. Patch(r, p) \in Record(H) /\ Patch(r, Nothing) \in Record(H)
    BY <1>5, PatchIs
<1>7. r \in Record(H)
    BY RecordMono DEF H
<1>8. prefab[e] \in Record(H)
    BY <1>4, <1>6, <1>7
<1>9. s = IF e \in Range(members) THEN Patch(prefab[e], q) ELSE prefab[e]
  <2>1. s = PrefabToGroup(prefab, members)[e]
    BY DEF prefab
  <2> QED BY <1>1, <1>2, <1>8, <2>1, Restored DEF q
<1>10. Patch(Patch(r, p), q) = Patch(r, Kept(members))
    BY ONLY <1>5, PatchTwice, r \in Record(Plain(n))
<1>11. Patch(Patch(r, Nothing), q) = Patch(r, Nothing)
  <2>1. \A h \in Plain(n) : Nothing[h] \in H /\ Nothing[h] = q[Nothing[h]]
    BY <1>5
  <2> QED BY ONLY <2>1, PatchTwice, r \in Record(Plain(n))
<1> QED BY <1>3, <1>4, <1>9, <1>10, <1>11

-----------------------------------------------------------------------------
(* A group that is all there.                                              *)

\* A group that is all there, and short enough to be copied: s is what V's e is
\* flattened to.
Whole(V, n, e, s) ==
    /\ World(V, Plain(n)) /\ V = [x \in DOMAIN V |-> V[x]] /\ DOMAIN V \subseteq 0 .. n - 1
    /\ Orderly(V) /\ Grouped(V, e)
    /\ s = Flattened(V, e) /\ Len(s) <= MaxIds /\ Range(s) \subseteq DOMAIN V

\* A group is flattened to its first entity first.
LEMMA FlattenedFirst ==
    ASSUME NEW world, Leads(world), NEW e \in Id, Grouped(world, e)
    PROVE  Flattened(world, e)[1] = Link(world, e, 1)
<1>1. PICK F : Deep(F, world) /\ Flattened(world, e) = F[MaxIds][e]
    BY FlattenedIs
<1>2. MaxIds \in 1 .. MaxIds /\ MaxIds - 1 \in 0 .. MaxIds /\ e \in Places
    BY GroupsAssumption DEF Id, Places
<1>3. PICK each, g, L : each = F[MaxIds - 1] /\ g = world[e].group /\ L = Len(g)
    OBVIOUS
<1>4. each \in [Places -> Flat] /\ Flattened(world, e) = Joined(g, each)
    BY <1>1, <1>2, <1>3 DEF Deep
<1>5. L \in Nat \ {0} /\ \A i \in 1 .. L : g[i].id \in Places
    BY <1>3 DEF Leads
<1>6. PICK data : JoinedBy(data, g, each) /\ Joined(g, each) = data[L]
    BY <1>3, <1>4, <1>5, JoinedIs
<1>7. L \in 1 .. L
    BY <1>5
<1>8. Has(data, g, each, L)
    BY <1>3, <1>4, <1>5, <1>6, <1>7, JoinedHas
<1> QED BY <1>3, <1>4, <1>6, <1>8 DEF Has, Link

\* Every group that is met in s lists entities of s, and s awaits nothing more.
\* The exception is the group of a second copy, whose lists were lost.
LEMMA WholeIs ==
    ASSUME NEW n \in 0 .. MaxIds, NEW V, NEW e, NEW s, Whole(V, n, e, s)
    PROVE  /\ IsMembers(s) /\ Awaits(V, s, 0) /\ Len(s) \in Nat \ {0} /\ s[1] = Link(V, e, 1)
           /\ \A x \in Range(s) : \A i \in 1 .. Size(V, x) :
                 \/ V[x].group[i] = Old(Link(V, x, i)) /\ Link(V, x, i) \in Range(s)
                 \/ V[x].group[i] = Null /\ Link(V, x, i) = Null.id /\ x = Link(V, e, 1) /\ x # e
           /\ \A x \in Range(s) : V[x] \in Record(Plain(n)) /\ Size(V, x) \in Nat
           /\ \A x \in Range(s) : \A i \in 1 .. Size(V, x) : V[x].group[i] \in Plain(n)
           /\ DOMAIN V \subseteq Id /\ e \in DOMAIN V
           /\ Range(s) \subseteq Id /\ Null.id \notin Range(s)
           /\ Leads(V)
<1>1. World(V, Plain(n)) /\ \A h \in Plain(n) : h.id \in Places
    BY PlainIs DEF Whole
<1>2. /\ Leads(V)
      /\ \A x \in DOMAIN V :
            /\ Size(V, x) \in Nat /\ (Grouped(V, x) <=> Size(V, x) # 0)
            /\ \A i \in 1 .. Size(V, x) : /\ V[x].group[i] \in Plain(n)
                                              /\ Link(V, x, i) \in Places
      /\ \A x : Grouped(V, x) => /\ x \in DOMAIN V /\ Size(V, x) \in Nat \ {0}
                                     /\ 1 \in 1 .. Size(V, x)
    BY <1>1, WorldIs
<1>3. DOMAIN V \subseteq Id /\ e \in Places /\ e \in Id /\ e \in DOMAIN V
    BY <1>2, PlainIs DEF Whole, Places
<1>4. /\ s \in Flat /\ Awaits(V, s, 0)
      /\ \A i \in 1 .. Size(V, e) : Link(V, e, i) \in Range(s)
      /\ \A x \in Range(s) : Grouped(V, x) =>
            \A i \in 1 .. Size(V, x) :
                 Link(V, x, i) \in Range(s) \/ (x = Link(V, e, 1) /\ x # e
                                                /\ Link(V, x, i) = Null.id)
    BY <1>2, <1>3, RootGood DEF Whole
<1>5. Range(s) \subseteq Id /\ Null.id \notin Range(s)
    BY <1>3, Handles DEF Whole
<1>6. IsMembers(s)
  <2>1. DOMAIN s = 1 .. Len(s) /\ Len(s) \in Nat /\ s \in Seq(Places)
    BY <1>4, LenProperties DEF Flat
  <2>2. \A i \in 1 .. Len(s) : s[i] \in Id
    BY <1>5, <2>1 DEF Range
  <2>3. s \in [1 .. Len(s) -> Id]
    BY <2>1, <2>2, LenProperties
  <2>4. s \in Seq(Id)
    BY <2>1, <2>3, SeqDef
  <2> QED BY <2>4 DEF IsMembers, Whole
<1>7. Len(s) \in Nat \ {0}
  <2>1. Link(V, e, 1) \in Range(s)
    BY <1>2, <1>4 DEF Whole
  <2>2. Len(s) \in 0 .. MaxIds /\ \E i \in 1 .. Len(s) : TRUE
    BY <1>6, <2>1, MembersAre
  <2> QED BY <2>2
<1>8. s[1] = Link(V, e, 1)
    BY <1>2, <1>3, FlattenedFirst DEF Whole
<1>9. ASSUME NEW x \in Range(s), NEW i \in 1 .. Size(V, x)
      PROVE  \/ V[x].group[i] = Old(Link(V, x, i)) /\ Link(V, x, i) \in Range(s)
             \/ V[x].group[i] = Null /\ Link(V, x, i) = Null.id /\ x = Link(V, e, 1) /\ x # e
  <2>1. x \in DOMAIN V /\ Grouped(V, x) /\ V[x].group[i] \in Plain(n)
    <3>1. x \in DOMAIN V
        BY DEF Whole
    <3>2. Size(V, x) \in Nat /\ Size(V, x) # 0
        BY <1>2, <3>1
    <3> QED BY <1>2, <3>1, <3>2
  <2>2. Link(V, x, i) = V[x].group[i].id
    BY DEF Link
  <2>3. V[x].group[i] = Old(V[x].group[i].id)
        /\ (V[x].group[i].id = Null.id => V[x].group[i] = Null)
    <3>1. PICK h \in Plain(n) : h = V[x].group[i]
        BY <2>1
    <3>2. h = Old(h.id) /\ Null = Old(Null.id)
        BY PlainIs, Handles
    <3> QED BY <3>1, <3>2
  <2> QED BY <1>4, <2>1, <2>2, <2>3
<1>10. \A x \in Range(s) : x \in DOMAIN V
    BY DEF Whole
<1>11. \A x \in Range(s) : V[x] \in Record(Plain(n)) /\ Size(V, x) \in Nat
    BY <1>1, <1>2, <1>10 DEF World
<1>12. \A x \in Range(s) : \A i \in 1 .. Size(V, x) : V[x].group[i] \in Plain(n)
    BY <1>2, <1>10
<1> QED BY <1>2, <1>3, <1>4, <1>5, <1>6, <1>7, <1>8, <1>9, <1>11, <1>12

-----------------------------------------------------------------------------
(* The entities of a group that is serialized, afterwards.                 *)

\* A world with the same groups, but that some have lost all they listed.
Faded(V, W) ==
    /\ DOMAIN W = DOMAIN V
    /\ \A x \in DOMAIN V :
          /\ Size(W, x) = Size(V, x) /\ (Grouped(W, x) <=> Grouped(V, x))
          /\ \/ \A i \in 1 .. Size(V, x) : Link(W, x, i) = Link(V, x, i)
             \/ \A i \in 1 .. Size(V, x) : Link(W, x, i) = Null.id

\* Losing all that a group lists keeps the world in order.
LEMMA OrderlyFaded ==
    ASSUME NEW V, NEW W, Faded(V, W), Orderly(V), Leads(W), Null.id \notin DOMAIN W
    PROVE  Orderly(W)
<1> DEFINE src == [x \in DOMAIN W |-> x]
           same == [y \in Places |-> y]
           c == [x \in DOMAIN W |-> same]
<1>0. \A x \in DOMAIN W : src[x] = x /\ c[x] = same
    OBVIOUS
<1>1. same[Null.id] = Null.id /\ \A y \in Places : same[y] = y
    BY DEF Places
<1>2. ASSUME NEW x \in DOMAIN W, NEW i \in 1 .. Size(W, x) PROVE Link(W, x, i) \in Places
  <2>1. Size(W, x) = Len(W[x].group) /\ Link(W, x, i) = W[x].group[i].id
    BY DEF Size, Link
  <2>2. CASE Grouped(W, x)
    BY <2>1, <2>2 DEF Leads
  <2>3. CASE ~ Grouped(W, x)
    <3>1. W[x].group = << >> /\ Len(<< >>) = 0
        BY <2>3 DEF Grouped, NoGroup
    <3> QED BY <2>1, <3>1
  <2> QED BY <2>2, <2>3
<1>3. ASSUME NEW x \in DOMAIN W, NEW i \in 1 .. Size(W, x) PROVE 1 \in 1 .. Size(W, x)
  <2>1. Grouped(W, x)
    <3>1. ASSUME ~ Grouped(W, x) PROVE FALSE
        <4>1. W[x].group = << >> /\ Len(<< >>) = 0
            BY <3>1 DEF Grouped, NoGroup
        <4> QED BY <4>1 DEF Size
    <3> QED BY <3>1
  <2> QED BY <2>1 DEF Leads, Size
<1> HIDE DEF src, c, same
<1>4. CopyOf(V, W, src, c)
  <2> SUFFICES ASSUME NEW x \in DOMAIN W
               PROVE  /\ x \in DOMAIN V
                      /\ Size(W, x) = Size(V, x) /\ (Grouped(W, x) => Grouped(V, x))
                      /\ \A i \in 1 .. Size(W, x) :
                             \/ Link(W, x, i) = Null.id
                             \/ Link(W, x, i) = same[Link(V, x, i)] /\ Link(W, x, i) = Link(V, x, i)
                      /\ Link(W, x, 1) # Null.id =>
                             \A i \in 1 .. Size(W, x) : Link(W, x, i) = same[Link(V, x, i)]
                      /\ same[Null.id] = Null.id
    BY <1>0 DEF CopyOf
  <2>1. x \in DOMAIN V /\ Size(W, x) = Size(V, x) /\ (Grouped(W, x) => Grouped(V, x))
    BY DEF Faded
  <2>2. \/ \A i \in 1 .. Size(W, x) : Link(W, x, i) = Link(V, x, i)
        \/ \A i \in 1 .. Size(W, x) : Link(W, x, i) = Null.id
    BY <2>1 DEF Faded
  <2>3. ASSUME NEW i \in 1 .. Size(W, x), Link(W, x, i) = Link(V, x, i)
        PROVE  Link(W, x, i) = same[Link(V, x, i)]
    BY <1>1, <1>2, <2>3
  <2>4. Link(W, x, 1) # Null.id => \A i \in 1 .. Size(W, x) : Link(W, x, i) = Link(V, x, i)
    BY <1>3, <2>2
  <2> QED BY <1>1, <2>1, <2>2, <2>3, <2>4
<1> QED BY <1>4, OrderlyCopy

\* So the world is in order after serialize.
LEMMA SerializedWorld ==
    ASSUME NEW n \in 0 .. MaxIds, NEW V, NEW e, NEW s, Whole(V, n, e, s),
           NEW W, W = PrefabToGroup(PrefabOnly(V, s), s)
    PROVE  World(W, Plain(n)) /\ Faded(V, W) /\ Orderly(W)
<1>1. DOMAIN W = DOMAIN V
    BY PatchedDomains
<1>2. IsMembers(s) /\ Range(s) \subseteq DOMAIN V /\ World(V, Plain(n)) /\ Null.id \notin DOMAIN V
    BY WholeIs, Handles DEF Whole
<1>3. ASSUME NEW x \in DOMAIN V
      PROVE  /\ W[x] \in Record(Plain(n))
             /\ Size(W, x) = Size(V, x) /\ (Grouped(W, x) <=> Grouped(V, x))
             /\ \/ \A i \in 1 .. Size(V, x) : Link(W, x, i) = Link(V, x, i)
                \/ \A i \in 1 .. Size(V, x) : Link(W, x, i) = Null.id
  <2>1. PICK r \in Record(Plain(n)) : r = V[x]
    BY <1>2 DEF World
  <2>2. /\ x \notin Range(s) => W[x] = r
        /\ x \in Range(s) => W[x] \in {Patch(r, Kept(s)), Patch(r, Nothing)}
    BY <1>2, <2>1, SourceKept
  <2>3. \A h \in Plain(n) : Kept(s)[h] \in Plain(n) /\ Nothing[h] = Null /\ Null \in Plain(n)
    <3>1. ASSUME NEW h \in Plain(n) PROVE Kept(s)[h] \in {h, Null}
        BY <1>2, PlainSplit, PlainIs, KeptIs
    <3> QED BY <3>1, PlainIs DEF Nothing
  <2>4. CASE x \notin Range(s)
    BY <1>1, <2>1, <2>2, <2>4 DEF Size, Grouped, Link
  <2>5. CASE x \in Range(s) /\ W[x] = Patch(r, Kept(s))
    <3>1. /\ W[x] \in Record(Plain(n)) /\ Len(W[x].group) = Len(r.group)
          /\ (W[x].group = << >> <=> r.group = << >>)
          /\ \A i \in 1 .. Len(r.group) : W[x].group[i] = Kept(s)[r.group[i]]
        BY <2>3, <2>5, PatchIs
    <3>2. ASSUME NEW i \in 1 .. Len(r.group) PROVE W[x].group[i] = r.group[i]
        <4>1. i \in 1 .. Size(V, x)
            BY <2>1 DEF Size
        <4>2. \/ r.group[i] = Old(Link(V, x, i)) /\ Link(V, x, i) \in Range(s)
              \/ r.group[i] = Null
            BY <2>1, <2>5, <4>1, WholeIs
        <4>3. Kept(s)[Null] = Null
            BY <1>2, KeptIs, Handles, MembersAre
        <4>4. Kept(s)[r.group[i]] = r.group[i]
            BY <1>2, <4>2, <4>3, KeptIs
        <4> QED BY <3>1, <4>4
    <3> QED BY <1>1, <2>1, <3>1, <3>2 DEF Size, Grouped, Link, NoGroup
  <2>6. CASE x \in Range(s) /\ W[x] = Patch(r, Nothing)
    <3>1. /\ W[x] \in Record(Plain(n)) /\ Len(W[x].group) = Len(r.group)
          /\ (W[x].group = << >> <=> r.group = << >>)
          /\ \A i \in 1 .. Len(r.group) : W[x].group[i] = Nothing[r.group[i]]
        BY <2>3, <2>6, PatchIs
    <3>2. \A i \in 1 .. Len(r.group) : W[x].group[i] = Null
        BY <2>3, <3>1, RecordIs
    <3> QED BY <1>1, <2>1, <3>1, <3>2 DEF Size, Grouped, Link, NoGroup
  <2> QED BY <2>2, <2>4, <2>5, <2>6
<1>4. World(W, Plain(n)) /\ Faded(V, W)
    BY <1>1, <1>3 DEF World, Faded
<1>5. Leads(W)
    BY <1>4, WorldIs, PlainIs
<1>6. Orderly(V)
    BY DEF Whole
<1> QED BY <1>1, <1>2, <1>4, <1>5, <1>6, OrderlyFaded

-----------------------------------------------------------------------------
(* The records of a group.                                                 *)

\* The records by their numbers, a world of its own.
RecordedOf(t) == [k \in 0 .. Len(t) - 1 |-> t[k + 1]]
Wanted(t, i) == IF t[i].group = NoGroup THEN 0 ELSE Len(t[i].group) - 1
ReadCounts(t, a) ==
    /\ a[0] = 1 /\ a[Len(t)] = 0
    /\ \A i \in 1 .. Len(t) : a[i] = a[i - 1] - 1 + Wanted(t, i) /\ a[i - 1] > 0

\* Reading, nothing more is awaited exactly at the end.
ReadAll(t) == \E a \in [0 .. Len(t) -> Int] : ReadCounts(t, a)

\* The number of a member.
NumberIn(s) == [y \in Places |-> IF y \in Range(s) THEN Place(s, Old(y)) - 1 ELSE Null.id]

LEMMA NumberInIs ==
    ASSUME NEW s, IsMembers(s), Null.id \notin Range(s)
    PROVE  /\ \A x \in Range(s) : /\ NumberIn(s)[x] \in 0 .. Len(s) - 1 /\ s[NumberIn(s)[x] + 1] = x
                                  /\ NumbersOnly(s)[Old(x)] = New(NumberIn(s)[x])
                                  /\ NumbersIn(s)[Old(x)] = New(NumberIn(s)[x])
           /\ \A x \in Places \ Range(s) : NumberIn(s)[x] = Null.id
           /\ NumberIn(s)[Null.id] = Null.id
           /\ NumbersOnly(s)[Null] = Null
           /\ NumberIn(s) \in [Places -> Places]
           /\ IsInjective(s) => \A i \in 1 .. Len(s) : NumberIn(s)[s[i]] = i - 1
<1>0. Range(s) \subseteq Id /\ Range(s) \subseteq Places /\ Len(s) \in 0 .. MaxIds
    BY MembersAre DEF Places
<1>1. ASSUME NEW x \in Range(s)
      PROVE  /\ NumberIn(s)[x] \in 0 .. Len(s) - 1 /\ s[NumberIn(s)[x] + 1] = x
             /\ NumbersOnly(s)[Old(x)] = New(NumberIn(s)[x])
             /\ NumbersIn(s)[Old(x)] = New(NumberIn(s)[x])
  <2>1. PICK p : p = Place(s, Old(x))
    OBVIOUS
  <2>2. p \in 1 .. Len(s) /\ s[p] = x
    BY <2>1, PlaceIs DEF IsMembers
  <2>3. NumberIn(s)[x] = p - 1
    BY <1>0, <2>1 DEF NumberIn
  <2>4. p - 1 \in 0 .. Len(s) - 1 /\ (p - 1) + 1 = p
    BY <1>0, <2>2
  <2>5. NumbersOnly(s)[Old(x)] = New(p - 1) /\ NumbersIn(s)[Old(x)] = New(p - 1)
    BY <2>1, NumbersOnlyAre, NumbersInAre
  <2> QED BY <2>2, <2>3, <2>4, <2>5
<1>2. \A x \in Places \ Range(s) : NumberIn(s)[x] = Null.id
    BY DEF NumberIn
<1>3. NumberIn(s)[Null.id] = Null.id
    BY <1>2 DEF Places
<1>4. NumbersOnly(s)[Null] = Null
    BY <1>0, NumbersOnlyAre, Handles
<1>5. NumberIn(s) \in [Places -> Places]
  <2>1. ASSUME NEW y \in Places PROVE NumberIn(s)[y] \in Places
    <3>1. CASE y \in Range(s)
        <4>1. NumberIn(s)[y] \in 0 .. MaxIds - 1
            BY <1>0, <1>1, <3>1, GroupsAssumption
        <4> QED BY <4>1 DEF Places, Id
    <3>2. CASE y \notin Range(s)
        BY <1>2, <3>2 DEF Places
    <3> QED BY <3>1, <3>2
  <2>2. NumberIn(s) = [y \in Places |-> NumberIn(s)[y]]
    BY DEF NumberIn
  <2> QED BY <2>1, <2>2
<1>6. ASSUME IsInjective(s), NEW i \in 1 .. Len(s) PROVE NumberIn(s)[s[i]] = i - 1
  <2>1. PICK x : x = s[i]
    OBVIOUS
  <2>2. Place(s, Old(x)) = i
    BY <1>6, <2>1, PlaceOf DEF IsMembers
  <2>3. x \in Range(s)
    BY <2>1, MembersAre
  <2> QED BY <1>0, <2>1, <2>2, <2>3 DEF NumberIn
<1> QED BY <1>1, <1>2, <1>3, <1>4, <1>5, <1>6

\* The record of a member: its group has the numbers of what it listed.
LEMMA SerializedRecords ==
    ASSUME NEW n \in 0 .. MaxIds, NEW V, NEW e, NEW s, Whole(V, n, e, s),
           NEW i \in 1 .. Len(s), NEW r, r = PrefabOnly(V, s)[s[i]]
    PROVE  /\ r \in Record(Linked(Len(s)))
           /\ Len(r.group) = Size(V, s[i]) /\ (r.group = << >> <=> ~ Grouped(V, s[i]))
           /\ \/ \A j \in 1 .. Size(V, s[i]) : r.group[j].id = NumberIn(s)[Link(V, s[i], j)]
              \/ \A j \in 1 .. Size(V, s[i]) : r.group[j].id = Null.id
           /\ IsInjective(s) => r = Patch(V[s[i]], NumbersOnly(s))
<1>1. PICK x : x = s[i]
    OBVIOUS
<1>2. /\ IsMembers(s) /\ Range(s) \subseteq DOMAIN V /\ World(V, Plain(n))
      /\ Null.id \notin Range(s)
    BY WholeIs DEF Whole
<1>3. x \in Range(s) /\ x \in DOMAIN V
    BY <1>1, <1>2, MembersAre
<1>4. PICK v \in Record(Plain(n)) : v = V[x]
    BY <1>2, <1>3 DEF World
<1>5. /\ r \in {Patch(v, NumbersOnly(s)), Patch(v, Nothing)}
      /\ IsInjective(s) => r = Patch(v, NumbersOnly(s))
    BY <1>1, <1>2, <1>3, <1>4, PrefabLoses
<1>6. \A h \in Plain(n) : NumbersOnly(s)[h] \in Linked(Len(s)) /\ Nothing[h] \in Linked(Len(s))
                          /\ Nothing[h] = Null
  <2>1. \A h \in Plain(n) : Nothing[h] = Null
    BY PlainIs DEF Nothing
  <2>2. Null \in Linked(Len(s))
    BY DEF Linked
  <2> QED BY <1>2, <2>1, <2>2, NumbersResolve
<1>7. Len(v.group) = Size(V, x) /\ (v.group = << >> <=> ~ Grouped(V, x))
    BY <1>3, <1>4 DEF Size, Grouped, NoGroup
<1>8. CASE r = Patch(v, NumbersOnly(s))
  <2>1. /\ r \in Record(Linked(Len(s))) /\ Len(r.group) = Len(v.group)
        /\ (r.group = << >> <=> v.group = << >>)
        /\ \A j \in 1 .. Len(v.group) : r.group[j] = NumbersOnly(s)[v.group[j]]
    <3>1. \A h \in Plain(n) : NumbersOnly(s)[h] \in Linked(Len(s))
        BY <1>6
    <3>2. PICK to, K, u : to = NumbersOnly(s) /\ K = Linked(Len(s)) /\ u = Patch(v, to)
        OBVIOUS
    <3>3. \A h \in Plain(n) : to[h] \in K
        BY <3>1, <3>2
    <3>4. /\ u \in Record(K) /\ Len(u.group) = Len(v.group)
          /\ (u.group = << >> <=> v.group = << >>)
          /\ \A j \in 1 .. Len(v.group) : u.group[j] = to[v.group[j]]
        BY ONLY <3>2, <3>3, PatchIs, v \in Record(Plain(n))
    <3>5. u = r
        BY <1>8, <3>2
    <3> QED BY <3>2, <3>4, <3>5
  <2>2. ASSUME NEW j \in 1 .. Size(V, x) PROVE r.group[j].id = NumberIn(s)[Link(V, x, j)]
    <3>1. \/ v.group[j] = Old(Link(V, x, j)) /\ Link(V, x, j) \in Range(s)
          \/ v.group[j] = Null /\ Link(V, x, j) = Null.id
        BY <1>3, <1>4, WholeIs
    <3>2. r.group[j] = NumbersOnly(s)[v.group[j]]
        BY <1>7, <2>1
    <3> QED BY <1>2, <3>1, <3>2, NumberInIs, Handles
  <2> QED BY <1>1, <1>4, <1>5, <1>7, <2>1, <2>2
<1>9. CASE r = Patch(v, Nothing)
  <2>1. /\ r \in Record(Linked(Len(s))) /\ Len(r.group) = Len(v.group)
        /\ (r.group = << >> <=> v.group = << >>)
        /\ \A j \in 1 .. Len(v.group) : r.group[j] = Nothing[v.group[j]]
    <3>1. \A h \in Plain(n) : Nothing[h] \in Linked(Len(s))
        BY <1>6
    <3>2. PICK to, K, u : to = Nothing /\ K = Linked(Len(s)) /\ u = Patch(v, to)
        OBVIOUS
    <3>3. \A h \in Plain(n) : to[h] \in K
        BY <3>1, <3>2
    <3>4. /\ u \in Record(K) /\ Len(u.group) = Len(v.group)
          /\ (u.group = << >> <=> v.group = << >>)
          /\ \A j \in 1 .. Len(v.group) : u.group[j] = to[v.group[j]]
        BY ONLY <3>2, <3>3, PatchIs, v \in Record(Plain(n))
    <3>5. u = r
        BY <1>9, <3>2
    <3> QED BY <3>2, <3>4, <3>5
  <2>2. ASSUME NEW j \in 1 .. Size(V, x) PROVE r.group[j].id = Null.id
    BY <1>6, <1>7, <2>1, RecordIs
  <2> QED BY <1>1, <1>4, <1>5, <1>7, <2>1, <2>2
<1> QED BY <1>5, <1>8, <1>9

LEMMA RecordedIs ==
    ASSUME NEW H, NEW t \in Seq(Record(H))
    PROVE  /\ DOMAIN RecordedOf(t) = 0 .. Len(t) - 1 /\ Len(t) \in Nat
           /\ World(RecordedOf(t), H)
           /\ \A k \in 0 .. Len(t) - 1 : k + 1 \in 1 .. Len(t)
           /\ \A i \in 1 .. Len(t) : i - 1 \in 0 .. Len(t) - 1 /\ RecordedOf(t)[i - 1] = t[i]
                                     /\ t[i] \in Record(H)
<1>1. Len(t) \in Nat /\ \A i \in 1 .. Len(t) : t[i] \in Record(H)
    BY LenProperties, ElementOfSeq
<1>2. \A k \in 0 .. Len(t) - 1 : k + 1 \in 1 .. Len(t)
    BY <1>1
<1>3. \A i \in 1 .. Len(t) : i - 1 \in 0 .. Len(t) - 1 /\ (i - 1) + 1 = i
    BY <1>1
<1>4. /\ DOMAIN RecordedOf(t) = 0 .. Len(t) - 1
      /\ \A k \in 0 .. Len(t) - 1 : RecordedOf(t)[k] = t[k + 1]
    BY DEF RecordedOf
<1>5. World(RecordedOf(t), H)
    BY <1>1, <1>2, <1>4 DEF World
<1> QED BY <1>1, <1>2, <1>3, <1>4, <1>5

\* What serialize writes is in order, and can be read to its end.
LEMMA SerializedStream ==
    ASSUME NEW n \in 0 .. MaxIds, NEW V, NEW e, NEW s, Whole(V, n, e, s),
           NEW t, t = [i \in DOMAIN s |-> PrefabOnly(V, s)[s[i]]]
    PROVE  /\ t \in Seq(Record(Linked(Len(t)))) /\ Len(t) = Len(s) /\ Len(t) \in Nat \ {0}
           /\ t[1].group # NoGroup /\ Orderly(RecordedOf(t)) /\ ReadAll(t)
<1>1. /\ IsMembers(s) /\ Len(s) \in Nat \ {0} /\ DOMAIN s = 1 .. Len(s) /\ Awaits(V, s, 0)
      /\ Range(s) \subseteq DOMAIN V /\ Null.id \notin Range(s) /\ s[1] = Link(V, e, 1)
      /\ \A i \in 1 .. Len(s) : s[i] \in Range(s)
    BY WholeIs, MembersAre DEF Whole
<1>2. ASSUME NEW i \in 1 .. Len(s)
      PROVE  /\ t[i] = PrefabOnly(V, s)[s[i]]
             /\ t[i] \in Record(Linked(Len(s)))
             /\ Len(t[i].group) = Size(V, s[i]) /\ (t[i].group = << >> <=> ~ Grouped(V, s[i]))
             /\ \/ \A j \in 1 .. Size(V, s[i]) : t[i].group[j].id = NumberIn(s)[Link(V, s[i], j)]
                \/ \A j \in 1 .. Size(V, s[i]) : t[i].group[j].id = Null.id
  <2>1. t[i] = PrefabOnly(V, s)[s[i]]
    BY <1>1
  <2> QED BY <2>1, SerializedRecords
<1>3. t \in Seq(Record(Linked(Len(s)))) /\ Len(t) = Len(s)
  <2>1. t = [i \in 1 .. Len(s) |-> t[i]]
    BY <1>1
  <2>2. t \in [1 .. Len(s) -> Record(Linked(Len(s)))]
    BY <1>2, <2>1
  <2>3. t \in Seq(Record(Linked(Len(s))))
    BY <1>1, <2>2, SeqDef
  <2>4. DOMAIN t = 1 .. Len(t) /\ Len(t) \in Nat
    BY <2>3, LenProperties
  <2>5. DOMAIN t = 1 .. Len(s)
    BY <2>1
  <2> QED BY <1>1, <2>3, <2>4, <2>5
<1>4. t[1].group # NoGroup
  <2>1. 1 \in 1 .. Len(s) /\ s[1] \in DOMAIN V
    BY <1>1
  <2>2. Alike(V, e, s[1])
    BY <1>1, <2>1 DEF Whole, Orderly
  <2>3. Size(V, s[1]) # 0
    <3>1. Size(V, e) # 0
        BY WholeIs DEF Whole, Leads, Size
    <3> QED BY <2>2, <3>1 DEF Alike
  <2>4. Len(t[1].group) # 0
    BY <1>2, <2>1, <2>3
  <2>5. Len(<< >>) = 0
    OBVIOUS
  <2> QED BY <2>4, <2>5 DEF NoGroup
<1>5. ReadAll(t)
  <2>1. PICK a \in [0 .. Len(s) -> Int] : Counts(V, s, a) /\ a[Len(s)] = 0
    BY <1>1 DEF Awaits
  <2>2. ASSUME NEW i \in 1 .. Len(s) PROVE Wanted(t, i) = Wants(V, s[i])
    <3>1. PICK r, x : r = t[i] /\ x = s[i]
        OBVIOUS
    <3>2. Len(r.group) = Size(V, x) /\ (r.group = << >> <=> ~ Grouped(V, x))
        BY <1>2, <3>1
    <3>3. Wants(V, x) = IF Grouped(V, x) THEN Size(V, x) - 1 ELSE 0
        BY DEF Wants, Size
    <3>4. Wanted(t, i) = IF r.group = << >> THEN 0 ELSE Len(r.group) - 1
        BY <3>1 DEF Wanted, NoGroup
    <3> QED BY ONLY <3>1, <3>2, <3>3, <3>4
  <2>3. ReadCounts(t, a)
    BY <1>3, <2>1, <2>2 DEF ReadCounts, Counts
  <2> QED BY <1>3, <2>3 DEF ReadAll
<1> DEFINE R == RecordedOf(t)
           src == [k \in 0 .. Len(s) - 1 |-> s[k + 1]]
           c == [k \in 0 .. Len(s) - 1 |-> NumberIn(s)]
<1>6. /\ DOMAIN R = 0 .. Len(s) - 1 /\ World(R, Linked(Len(s)))
      /\ \A k \in 0 .. Len(s) - 1 : k + 1 \in 1 .. Len(s) /\ R[k] = t[k + 1]
    BY <1>3, RecordedIs DEF RecordedOf
<1>7. \A k \in 0 .. Len(s) - 1 : src[k] = s[k + 1] /\ c[k] = NumberIn(s)
    OBVIOUS
<1> HIDE DEF R, src, c
<1>8. Leads(R)
  <2>1. Len(s) \in 0 .. MaxIds
    BY <1>1, MembersAre
  <2> QED BY <1>6, <2>1, WorldIs, LinkedIs
<1>9. CopyOf(V, R, src, c)
  <2> SUFFICES ASSUME NEW k \in 0 .. Len(s) - 1
               PROVE  /\ src[k] \in DOMAIN V
                      /\ Size(R, k) = Size(V, src[k]) /\ (Grouped(R, k) => Grouped(V, src[k]))
                      /\ \A i \in 1 .. Size(R, k) :
                             \/ Link(R, k, i) = Null.id
                             \/ /\ Link(R, k, i) = c[k][Link(V, src[k], i)]
                                /\ Link(R, k, i) \in DOMAIN R =>
                                       src[Link(R, k, i)] = Link(V, src[k], i)
                                       /\ c[Link(R, k, i)] = c[k]
                      /\ Link(R, k, 1) # Null.id =>
                             \A i \in 1 .. Size(R, k) : Link(R, k, i) = c[k][Link(V, src[k], i)]
                      /\ c[k][Null.id] = Null.id
    BY <1>6 DEF CopyOf
  <2>1. PICK i, x : i = k + 1 /\ x = s[i]
    OBVIOUS
  <2>0. i \in 1 .. Len(s)
    BY <1>6, <2>1
  <2>2. i \in 1 .. Len(s) /\ src[k] = x /\ R[k] = t[i] /\ x \in DOMAIN V /\ c[k] = NumberIn(s)
    BY <1>1, <1>6, <1>7, <2>1
  <2>3. Size(R, k) = Size(V, x) /\ (Grouped(R, k) => Grouped(V, x))
    BY <1>2, <2>1, <2>2 DEF Size, Grouped, NoGroup
  <2>4. \/ \A j \in 1 .. Size(V, x) : Link(R, k, j) = NumberIn(s)[Link(V, x, j)]
        \/ \A j \in 1 .. Size(V, x) : Link(R, k, j) = Null.id
    <3>1. \A j : Link(R, k, j) = t[i].group[j].id
        BY <2>2 DEF Link
    <3>2. \/ \A j \in 1 .. Size(V, x) : t[i].group[j].id = NumberIn(s)[Link(V, x, j)]
          \/ \A j \in 1 .. Size(V, x) : t[i].group[j].id = Null.id
        BY ONLY <1>2, <2>0, <2>1
    <3> QED BY ONLY <3>1, <3>2
  <2>5. NumberIn(s)[Null.id] = Null.id
    BY <1>1, NumberInIs
  <2>6. ASSUME NEW j \in 1 .. Size(R, k), Link(R, k, j) = NumberIn(s)[Link(V, x, j)],
               Link(R, k, j) # Null.id
        PROVE  /\ src[Link(R, k, j)] = Link(V, x, j)
               /\ c[Link(R, k, j)] = NumberIn(s)
    <3>1. PICK y : y = Link(V, x, j)
        OBVIOUS
    <3>2. y \in Range(s) \/ y = Null.id
        BY <1>1, <2>1, <2>2, <2>3, <3>1, WholeIs
    <3>3. y \in Range(s)
        BY <2>5, <2>6, <3>1, <3>2
    <3>4. NumberIn(s)[y] \in 0 .. Len(s) - 1 /\ s[NumberIn(s)[y] + 1] = y
        BY <1>1, <3>3, NumberInIs
    <3> QED BY <1>7, <2>6, <3>1, <3>4
  <2>7. Size(R, k) # 0 => 1 \in 1 .. Size(R, k)
    <3>1. Size(V, x) \in Nat
        BY <1>1, <2>1, <2>2, WholeIs
    <3> QED BY <2>3, <3>1
  <2>8. Size(R, k) = 0 => \A j : j \notin 1 .. Size(R, k)
    OBVIOUS
  <2> QED BY <2>2, <2>3, <2>4, <2>5, <2>6, <2>7, <2>8
<1>10. Null.id \notin DOMAIN R /\ Orderly(V)
    BY <1>6, Handles DEF Whole
<1>11. Orderly(R)
    BY <1>8, <1>9, <1>10, OrderlyCopy
<1> QED BY <1>1, <1>3, <1>4, <1>5, <1>11 DEF R

-----------------------------------------------------------------------------
(* Where the copies are.                                                   *)

\* Arithmetic of the places of copies.
LEMMA Product ==
    ASSUME NEW a \in Nat, NEW b \in Nat
    PROVE  a * b \in Nat
    OBVIOUS

LEMMA DivMod ==
    ASSUME NEW c \in Nat, c >= 1, NEW q \in Nat, NEW r \in Nat, r < c
    PROVE  (q * c + r) \div c = q /\ (q * c + r) % c = r
    OBVIOUS

LEMMA DivModOf ==
    ASSUME NEW c \in Nat, c >= 1, NEW d \in Nat, NEW L \in Nat, d < L * c
    PROVE  /\ d \div c \in Nat /\ d \div c < L
           /\ d % c \in Nat /\ d % c < c
           /\ d = (d \div c) * c + (d % c)
<1>1. PICK q, r : q = d \div c /\ r = d % c
    OBVIOUS
<1>2. q \in Int /\ r \in Int /\ 0 <= r /\ r < c /\ d = q * c + r
    BY <1>1
<1>3. q >= 0
  <2>1. ASSUME q < 0 PROVE FALSE
    <3>1. PICK z \in Nat : q = -1 - z
        BY <1>2, <2>1
    <3>2. PICK y \in Nat : y = z * c
        BY Product
    <3>3. q * c = - c - y
        BY ONLY <3>1, <3>2, c \in Nat, z \in Nat
    <3> QED BY ONLY <1>2, <3>3, c \in Nat, d \in Nat, y \in Nat
  <2> QED BY <1>2, <2>1
<1>4. q < L
  <2>1. ASSUME q >= L PROVE FALSE
    <3>1. PICK z \in Nat : q = L + z
        BY <1>2, <2>1
    <3>2. PICK y \in Nat, m \in Nat : y = z * c /\ m = L * c
        BY Product
    <3>3. q * c = m + y
        BY ONLY <3>1, <3>2, c \in Nat, z \in Nat, L \in Nat
    <3> QED BY ONLY <1>2, <3>2, <3>3, c \in Nat, d \in Nat, y \in Nat, m \in Nat, d < L * c
  <2> QED BY <1>2, <2>1
<1>5. q \in Nat /\ r \in Nat
    BY <1>2, <1>3
<1> QED BY <1>1, <1>2, <1>4, <1>5

LEMMA Times ==
    ASSUME NEW q \in Nat, NEW L \in Nat, NEW c \in Nat, q + 1 <= L
    PROVE  q * c + c <= L * c /\ q * c \in Nat /\ L * c \in Nat
    OBVIOUS

\* The i-th member's k-th copy is found again from its id.
LEMMA MadeIs ==
    ASSUME next \in Nat, NEW L \in Nat, NEW count \in Nat, count >= 1,
           NEW i \in 1 .. L, NEW k \in 1 .. count
    PROVE  /\ Made(i, k, count) \in next .. next + L * count - 1
           /\ 1 + ((Made(i, k, count) - next) \div count) = i
           /\ 1 + ((Made(i, k, count) - next) % count) = k
           /\ Made(i, k, count) \in Int
<1>1. PICK q \in Nat, r \in Nat : q = i - 1 /\ r = k - 1
    OBVIOUS
<1>2. q + 1 <= L /\ r < count
    BY <1>1
<1>3. PICK p \in Nat, m \in Nat : p = q * count /\ m = L * count
    BY Times
<1>4. p + count <= m
    BY <1>2, <1>3, Times
<1>5. Made(i, k, count) = next + p + r
    BY <1>1, <1>3 DEF Made
<1>6. Made(i, k, count) - next = p + r
    BY <1>3, <1>5
<1>7. (p + r) \div count = q /\ (p + r) % count = r
    BY <1>2, <1>3, DivMod
<1>8. next + p + r \in next .. next + m - 1
    BY ONLY <1>2, <1>4, next \in Nat, p \in Nat, r \in Nat, m \in Nat, count \in Nat
<1> QED BY ONLY <1>1, <1>3, <1>5, <1>6, <1>7, <1>8,
              i \in 1 .. L, k \in 1 .. count, L \in Nat, count \in Nat,
           next \in Nat

\* Every new id is a copy's.
LEMMA MadeAll ==
    ASSUME next \in Nat, NEW L \in Nat, NEW count \in Nat, count >= 1,
           NEW id \in next .. next + L * count - 1
    PROVE  \E i \in 1 .. L, k \in 1 .. count :
               /\ id = Made(i, k, count)
               /\ i = 1 + ((id - next) \div count) /\ k = 1 + ((id - next) % count)
<1>1. PICK m \in Nat : m = L * count
    BY Times
<1>2. PICK d \in Nat : d = id - next /\ d < m
    BY <1>1
<1>3. PICK q, r : q = d \div count /\ r = d % count
    OBVIOUS
<1>4. q \in Nat /\ q < L /\ r \in Nat /\ r < count /\ d = q * count + r
    BY <1>1, <1>2, <1>3, DivModOf
<1>5. q + 1 \in 1 .. L /\ r + 1 \in 1 .. count /\ (q + 1) - 1 = q
    BY <1>4
<1>6. PICK p \in Nat : p = q * count
    BY <1>4, Times
<1>7. Made(q + 1, r + 1, count) = next + p + (r + 1) - 1
    BY <1>5, <1>6 DEF Made
<1>8. id = Made(q + 1, r + 1, count)
    BY <1>2, <1>4, <1>6, <1>7
<1>9. q + 1 = 1 + ((id - next) \div count) /\ r + 1 = 1 + ((id - next) % count)
    BY <1>2, <1>3, <1>4
<1> QED BY <1>5, <1>8, <1>9

\* The k-th instance.
Instance(members, k, count) == [j \in DOMAIN members |-> Made(j, k, count)]

LEMMA InstanceIs ==
    ASSUME next \in Nat, NEW members, IsMembers(members), NEW count \in Nat, count >= 1,
           next + Len(members) * count <= MaxIds, NEW k \in 1 .. count
    PROVE  /\ IsMembers(Instance(members, k, count))
           /\ Len(Instance(members, k, count)) = Len(members)
           /\ \A j \in 1 .. Len(members) :
                 /\ Instance(members, k, count)[j] = Made(j, k, count)
                 /\ Made(j, k, count) \in next .. next + Len(members) * count - 1
<1>1. DOMAIN members = 1 .. Len(members) /\ Len(members) \in Nat
    BY MembersAre
<1>2. PICK L \in Nat, m \in Nat : L = Len(members) /\ m = L * count
    BY <1>1, Product
<1>3. ASSUME NEW j \in 1 .. L
      PROVE  Made(j, k, count) \in next .. next + m - 1 /\ Made(j, k, count) \in Id
  <2>1. Made(j, k, count) \in next .. next + m - 1
    BY <1>2, MadeIs
  <2>2. next + m <= MaxIds /\ MaxIds \in Nat
    BY <1>2, GroupsAssumption
  <2> QED BY ONLY <2>1, <2>2, next \in Nat, m \in Nat DEF Id
<1> DEFINE inst == Instance(members, k, count)
<1>4. inst = [j \in 1 .. L |-> Made(j, k, count)]
    BY <1>1, <1>2 DEF Instance
<1>5. inst \in [1 .. L -> Id]
    BY <1>3, <1>4
<1>6. inst \in Seq(Id)
    BY <1>5, SeqDef
<1>7. Len(inst) = L
  <2>1. DOMAIN inst = 1 .. L
    BY <1>4
  <2> QED BY <1>6, <2>1, LenProperties
<1>8. IsMembers(inst)
    BY <1>2, <1>6, <1>7 DEF IsMembers
<1> QED BY <1>2, <1>3, <1>4, <1>7, <1>8

-----------------------------------------------------------------------------
(* What a handle becomes in a copy.                                        *)

\* What a handle of a member becomes in an instance, and what it becomes in one
\* where handles that lead out are lost.
ToIn(members, made) ==
    [h \in Handle |-> IF \E i \in DOMAIN members : h = Old(members[i])
                      THEN Old(made[Place(members, h)]) ELSE h]
ToOnly(members, made) ==
    [h \in Handle |-> IF \E i \in DOMAIN members : h = Old(members[i])
                      THEN Old(made[Place(members, h)]) ELSE Null]

\* Numbering and resolving comes to that.
LEMMA ResolveNumbers ==
    ASSUME NEW n \in 0 .. MaxIds, NEW members, IsMembers(members), NEW made, IsMembers(made),
           Len(made) = Len(members), NEW h \in Plain(n), Null.id \notin Range(members)
    PROVE  /\ Resolve(made)[NumbersIn(members)[h]] = ToIn(members, made)[h]
           /\ Resolve(made)[NumbersOnly(members)[h]] = ToOnly(members, made)[h]
           /\ h.id \in Range(members) =>
                 /\ ToIn(members, made)[h] = Old(made[NumberIn(members)[h.id] + 1])
                 /\ ToOnly(members, made)[h] = Old(made[NumberIn(members)[h.id] + 1])
           /\ h.id \notin Range(members) =>
                 ToIn(members, made)[h] = h /\ ToOnly(members, made)[h] = Null
<1>0. h \in Handle /\ ~ h.transient /\ Null \in Handle /\ ~ Null.transient /\ h = Old(h.id)
    BY PlainIs, Handles
<1>1. CASE h.id \in Range(members)
  <2>1. PICK x \in Range(members) : h = Old(x) /\ x = h.id
    BY <1>0, <1>1
  <2>2. PICK k \in 0 .. Len(members) - 1 : k = NumberIn(members)[x]
    BY NumberInIs
  <2>3. NumbersIn(members)[h] = New(k) /\ NumbersOnly(members)[h] = New(k)
    BY <2>1, <2>2, NumberInIs
  <2>4. Resolve(made)[New(k)] = Old(made[k + 1])
    BY ResolveIs
  <2>5. Place(members, h) = k + 1
    <3>1. k = Place(members, Old(x)) - 1
        BY <2>2, MembersAre DEF NumberIn, Places
    <3>2. Place(members, Old(x)) \in 1 .. Len(members) /\ Len(members) \in Nat
        BY PlaceIs, MembersAre DEF IsMembers
    <3> QED BY <2>1, <3>1, <3>2
  <2>6. \E i \in DOMAIN members : h = Old(members[i])
    BY <2>1 DEF Range
  <2>7. ToIn(members, made)[h] = Old(made[k + 1]) /\ ToOnly(members, made)[h] = Old(made[k + 1])
    BY <1>0, <2>5, <2>6 DEF ToIn, ToOnly
  <2> QED BY <1>1, <2>1, <2>2, <2>3, <2>4, <2>7
<1>2. CASE h.id \notin Range(members)
  <2>1. \A x \in Range(members) : h # Old(x)
    BY <1>0, <1>2, Handles
  <2>2. NumbersIn(members)[h] = h /\ NumbersOnly(members)[h] = Null
    BY <1>0, <2>1, NumbersInAre, NumbersOnlyAre
  <2>3. Resolve(made)[h] = h /\ Resolve(made)[Null] = Null
    BY <1>0, ResolveIs
  <2>4. ~ \E i \in DOMAIN members : h = Old(members[i])
    BY <2>1 DEF Range
  <2>5. ToIn(members, made)[h] = h /\ ToOnly(members, made)[h] = Null
    BY <1>0, <2>4 DEF ToIn, ToOnly
  <2> QED BY <1>2, <2>2, <2>3, <2>5
<1> QED BY <1>1, <1>2

-----------------------------------------------------------------------------
(* Entities are added.                                                     *)

\* The entities there are at first have groups of their own, or have lost them;
\* and no other has a group that begins with one of these.
FirstOwn(world) ==
    \A e : Grouped(world, e) /\ (e \in First \/ Link(world, e, 1) \in First) =>
        Link(world, e, 1) \in {Null.id, e}

\* A world of entities below n that is in order.
InOrder(world, n) ==
    /\ World(world, Plain(n)) /\ world = [x \in DOMAIN world |-> world[x]]
    /\ DOMAIN world \subseteq 0 .. n - 1
    /\ Orderly(world) /\ FirstOwn(world)

LEMMA PlainMono ==
    ASSUME NEW n \in Nat, NEW m \in Nat, n <= m
    PROVE  Plain(n) \subseteq Plain(m)
<1>1. 0 .. n - 1 \subseteq 0 .. m - 1
    OBVIOUS
<1> QED BY <1>1 DEF Plain

\* Entities that refer to each other alone are added to it.
LEMMA Extended ==
    ASSUME NEW n \in Count .. MaxIds, NEW m \in n .. MaxIds, NEW U, InOrder(U, n),
           NEW C, DOMAIN C = n .. m - 1, World(C, Plain(m)), Orderly(C),
           \A e : Grouped(C, e) => \A i \in 1 .. Size(C, e) :
                      Link(C, e, i) = Null.id \/ Link(C, e, i) \in n .. m - 1,
           NEW W, W = [id \in DOMAIN U \cup n .. m - 1 |-> IF id < n THEN U[id] ELSE C[id]]
    PROVE  InOrder(W, m)
<1>0. /\ n \in 0 .. MaxIds /\ m \in 0 .. MaxIds
      /\ n \in Nat /\ m \in Nat /\ n <= m /\ MaxIds \in Nat
      /\ Count \in Nat /\ Count <= n
    BY GroupsAssumption
<1>1. DOMAIN U \subseteq 0 .. n - 1 /\ World(U, Plain(n)) /\ Orderly(U) /\ FirstOwn(U)
    BY DEF InOrder
<1>2. DOMAIN W = DOMAIN U \cup DOMAIN C /\ W = [x \in DOMAIN W |-> W[x]]
    OBVIOUS
<1>3. \A e \in DOMAIN U : e \in 0 .. n - 1 /\ e \notin DOMAIN C /\ W[e] = U[e]
    BY <1>0, <1>1
<1>4. \A e \in DOMAIN C : e \notin DOMAIN U /\ W[e] = C[e] /\ e \notin First
  <2>1. \A e \in n .. m - 1 : e \notin 0 .. n - 1 /\ ~ (e < n) /\ e \notin 0 .. Count - 1
    BY <1>0
  <2> QED BY <1>1, <2>1 DEF First
<1>5. DOMAIN W \subseteq 0 .. m - 1
  <2>1. n .. m - 1 \subseteq 0 .. m - 1 /\ 0 .. n - 1 \subseteq 0 .. m - 1
    BY <1>0
  <2> QED BY <1>1, <1>2, <2>1
<1>6. World(W, Plain(m))
  <2>1. ASSUME NEW e \in DOMAIN U PROVE W[e] \in Record(Plain(m))
    BY <1>0, <1>1, <1>3, PlainMono, RecordMono DEF World
  <2>2. ASSUME NEW e \in DOMAIN C PROVE W[e] \in Record(Plain(m))
    BY <1>4 DEF World
  <2> QED BY <1>2, <2>1, <2>2 DEF World
<1>7. \A h \in Plain(n) : h.id \in Places /\ (h.id = Null.id \/ h.id \in 0 .. n - 1)
    BY <1>0, PlainIs
<1>8. /\ Leads(U)
      /\ \A e \in DOMAIN U : \A i \in 1 .. Size(U, e) : U[e].group[i] \in Plain(n)
  <2>1. \A h \in Plain(n) : h.id \in Places
    BY <1>7
  <2> QED BY ONLY <1>1, <2>1, WorldIs
<1>9. Leads(C)
    BY <1>0, PlainIs, WorldIs
<1>10. Null.id \notin DOMAIN C /\ Null.id \notin DOMAIN U
    BY <1>0, <1>1, Handles
<1>11. \A e : Grouped(U, e) => \A i \in 1 .. Size(U, e) : Link(U, e, i) \notin DOMAIN C
  <2> SUFFICES ASSUME NEW e, Grouped(U, e), NEW i \in 1 .. Size(U, e)
               PROVE  Link(U, e, i) \notin DOMAIN C
    OBVIOUS
  <2>1. Link(U, e, i) = Null.id \/ Link(U, e, i) \in 0 .. n - 1
    BY <1>7, <1>8 DEF Link, Grouped
  <2>2. \A x \in n .. m - 1 : x \notin 0 .. n - 1
    BY <1>0
  <2> QED BY <1>10, <2>1, <2>2
<1>12. \A e : Grouped(C, e) => \A i \in 1 .. Size(C, e) : Link(C, e, i) \notin DOMAIN U
    BY <1>4, <1>10
<1>13. Orderly(W)
    BY <1>1, <1>2, <1>3, <1>4, <1>8, <1>9, <1>11, <1>12, OrderlyTogether
<1>14. FirstOwn(W)
  <2> SUFFICES ASSUME NEW e, Grouped(W, e), e \in First \/ Link(W, e, 1) \in First
               PROVE  Link(W, e, 1) \in {Null.id, e}
    BY DEF FirstOwn
  <2>1. CASE e \in DOMAIN U
    <3>1. Grouped(U, e) /\ Link(W, e, 1) = Link(U, e, 1)
        BY <1>3, <2>1 DEF Grouped, Link
    <3> QED BY <1>1, <3>1 DEF FirstOwn
  <2>2. CASE e \in DOMAIN C
    <3>1. Grouped(C, e) /\ Link(W, e, 1) = Link(C, e, 1)
        BY <1>4, <2>2 DEF Grouped, Link
    <3>2. 1 \in 1 .. Size(C, e)
        BY <1>9, <3>1 DEF Leads, Size
    <3>3. Link(C, e, 1) = Null.id \/ Link(C, e, 1) \in DOMAIN C
        BY <3>1, <3>2
    <3> QED BY <1>4, <2>2, <3>1, <3>3
  <2> QED BY <1>2, <2>1, <2>2 DEF Grouped
<1> QED BY <1>2, <1>5, <1>6, <1>13, <1>14 DEF InOrder

\* Entities without a group.
LEMMA ExtendedPlainly ==
    ASSUME NEW n \in Count .. MaxIds, NEW m \in n .. MaxIds, NEW U, InOrder(U, n),
           NEW C, DOMAIN C = n .. m - 1, World(C, Plain(m)),
           \A x \in DOMAIN C : C[x].group = NoGroup,
           NEW W, W = [id \in DOMAIN U \cup n .. m - 1 |-> IF id < n THEN U[id] ELSE C[id]]
    PROVE  InOrder(W, m)
<1>1. \A x : ~ Grouped(C, x)
    BY DEF Grouped
<1>2. Orderly(C)
    BY <1>1 DEF Orderly
<1> QED BY <1>1, <1>2, Extended

-----------------------------------------------------------------------------
(* The copies of a group.                                                  *)

\* The parts of a step of instantiate.
Copied(e, s, count, m, C) ==
    /\ next \in Count .. MaxIds /\ Whole(ent, next, e, s)
    /\ count \in Nat /\ count >= 1 /\ m = next + Len(s) * count /\ m <= MaxIds
    /\ C = Copies(PrefabIn(ent, s), s, count)

LEMMA CopiedIs ==
    ASSUME NEW e, NEW s, NEW count, NEW m, NEW C, Copied(e, s, count, m, C)
    PROVE  /\ next \in Nat /\ next \in 0 .. MaxIds /\ count \in Nat /\ count >= 1
           /\ IsMembers(s) /\ Len(s) \in Nat /\ Len(s) * count \in Nat
           /\ m \in next .. MaxIds /\ m \in 0 .. MaxIds /\ m \in Nat /\ next <= m
           /\ Range(s) \subseteq DOMAIN ent /\ Null.id \notin Range(s) /\ DOMAIN s = 1 .. Len(s)
           /\ Range(s) \subseteq 0 .. next - 1
           /\ World(ent, Plain(next))
<1>1. next \in Nat /\ next \in 0 .. MaxIds /\ count \in Nat /\ count >= 1 /\ MaxIds \in Nat
    BY GroupsAssumption DEF Copied
<1>2. IsMembers(s) /\ Len(s) \in Nat /\ DOMAIN s = 1 .. Len(s) /\ Null.id \notin Range(s)
    BY <1>1, WholeIs, MembersAre DEF Copied
<1>3. Range(s) \subseteq DOMAIN ent /\ Range(s) \subseteq 0 .. next - 1 /\ World(ent, Plain(next))
    BY DEF Copied, Whole
<1>4. PICK l \in Nat : l = Len(s) * count
    BY <1>1, <1>2, Product
<1>5. m = next + l /\ m <= MaxIds
    BY <1>4 DEF Copied
<1>6. m \in next .. MaxIds /\ m \in 0 .. MaxIds /\ m \in Nat /\ next <= m
    BY ONLY <1>1, <1>5, l \in Nat
<1> QED BY <1>1, <1>2, <1>3, <1>4, <1>6

\* Every copy is the entity with its handles led along in the instance.
LEMMA CopiesAre ==
    ASSUME NEW e, NEW s, NEW count, NEW m, NEW C, Copied(e, s, count, m, C)
    PROVE  /\ DOMAIN C = next .. m - 1
           /\ \A i \in 1 .. Len(s), k \in 1 .. count :
                 /\ C[Made(i, k, count)] = Patch(ent[s[i]], ToIn(s, Instance(s, k, count)))
                 /\ C[Made(i, k, count)] \in Record(Plain(m))
<1>0. /\ next \in Nat /\ next \in 0 .. MaxIds /\ count \in Nat /\ count >= 1
      /\ IsMembers(s) /\ Len(s) \in Nat /\ Len(s) * count \in Nat
      /\ m \in 0 .. MaxIds /\ m \in Nat /\ next <= m /\ m = next + Len(s) * count
      /\ Range(s) \subseteq DOMAIN ent /\ Null.id \notin Range(s) /\ DOMAIN s = 1 .. Len(s)
      /\ World(ent, Plain(next))
    BY CopiedIs DEF Copied
<1>1. DOMAIN C = next .. m - 1
    BY DEF Copied, Copies
<1>2. ASSUME NEW i \in 1 .. Len(s), NEW k \in 1 .. count
      PROVE  /\ C[Made(i, k, count)] = Patch(ent[s[i]], ToIn(s, Instance(s, k, count)))
             /\ C[Made(i, k, count)] \in Record(Plain(m))
  <2>1. PICK id, x, made : id = Made(i, k, count) /\ x = s[i] /\ made = Instance(s, k, count)
    OBVIOUS
  <2>2. id \in DOMAIN C /\ 1 + ((id - next) \div count) = i /\ 1 + ((id - next) % count) = k
    <3>2. id \in next .. next + Len(s) * count - 1
        BY ONLY <1>0, <2>1, MadeIs, i \in 1 .. Len(s), k \in 1 .. count
    <3>3. 1 + ((id - next) \div count) = i /\ 1 + ((id - next) % count) = k
        BY ONLY <1>0, <2>1, MadeIs, i \in 1 .. Len(s), k \in 1 .. count
    <3> QED BY <1>0, <1>1, <3>2, <3>3
  <2>3. C[id] = Patch(PrefabIn(ent, s)[x], Resolve(made))
    <3>1. C[id] = LET j == 1 + ((id - next) \div count)
                      l == 1 + ((id - next) % count)
                      instance == [h \in DOMAIN s |-> Made(h, l, count)]
                  IN  Patch(PrefabIn(ent, s)[s[j]], Resolve(instance))
        BY <1>1, <2>2 DEF Copied, Copies
    <3> QED BY <2>1, <2>2, <3>1 DEF Instance
  <2>4. x \in Range(s) /\ x \in DOMAIN ent
    BY <1>0, <2>1, MembersAre
  <2>5. PICK r \in Record(Plain(next)) : r = ent[x]
    BY <1>0, <2>4 DEF World
  <2>6. PrefabIn(ent, s)[x] = Patch(r, NumbersIn(s))
    BY <1>0, <2>4, <2>5, PrefabKeeps
  <2>7. IsMembers(made) /\ Len(made) = Len(s)
        /\ \A j \in 1 .. Len(s) : made[j] \in next .. m - 1
    <3>1. m <= MaxIds
        BY <1>0
    <3>2. /\ IsMembers(Instance(s, k, count)) /\ Len(Instance(s, k, count)) = Len(s)
          /\ \A j \in 1 .. Len(s) :
                /\ Instance(s, k, count)[j] = Made(j, k, count)
                /\ Made(j, k, count) \in next .. m - 1
        BY <1>0, <3>1, InstanceIs
    <3> QED BY ONLY <2>1, <3>2
  <2>8. ASSUME NEW h \in Plain(next)
        PROVE  /\ Resolve(made)[NumbersIn(s)[h]] = ToIn(s, made)[h]
               /\ ToIn(s, made)[h] \in Plain(m)
    <3>1. Resolve(made)[NumbersIn(s)[h]] = ToIn(s, made)[h]
        BY <1>0, <2>7, ResolveNumbers
    <3>2. CASE h.id \in Range(s)
        <4>1. ToIn(s, made)[h] = Old(made[NumberIn(s)[h.id] + 1])
            BY <1>0, <2>7, <3>2, ResolveNumbers
        <4>2. NumberIn(s)[h.id] \in 0 .. Len(s) - 1
            BY <1>0, <3>2, NumberInIs
        <4>3. NumberIn(s)[h.id] + 1 \in 1 .. Len(s)
            BY <1>0, <4>2
        <4>4. made[NumberIn(s)[h.id] + 1] \in next .. m - 1
            BY <1>0, <2>7, <4>3
        <4>5. made[NumberIn(s)[h.id] + 1] \in 0 .. m - 1
            BY ONLY <1>0, <4>4
        <4>6. Old(made[NumberIn(s)[h.id] + 1]) \in Plain(m)
            BY <1>0, <4>5, PlainIs
        <4> QED BY <3>1, <4>1, <4>6
    <3>3. CASE h.id \notin Range(s)
        <4>1. ToIn(s, made)[h] = h
            BY <1>0, <2>7, <3>3, ResolveNumbers
        <4>2. Plain(next) \subseteq Plain(m)
            BY <1>0, PlainMono
        <4> QED BY <3>1, <4>1, <4>2
    <3> QED BY <3>1, <3>2, <3>3
  <2>9. \A h \in Plain(next) : NumbersIn(s)[h] \in Linked(Len(s)) \cup Plain(next)
    BY <1>0, NumbersResolve
  <2>10. Patch(Patch(r, NumbersIn(s)), Resolve(made)) = Patch(r, ToIn(s, made))
    <3>1. PICK p, q, t, K : p = NumbersIn(s) /\ q = Resolve(made) /\ t = ToIn(s, made)
                            /\ K = Linked(Len(s)) \cup Plain(next)
        OBVIOUS
    <3>2. \A h \in Plain(next) : p[h] \in K /\ t[h] = q[p[h]]
        BY <2>8, <2>9, <3>1
    <3>3. Patch(Patch(r, p), q) = Patch(r, t)
        <4>1. Composes(Plain(next), K, p, q, t)
            BY ONLY <3>2 DEF Composes
        <4> QED BY ONLY <4>1, PatchThrough, r \in Record(Plain(next))
    <3> QED BY <3>1, <3>3
  <2>11. Patch(r, ToIn(s, made)) \in Record(Plain(m))
    <3>1. \A h \in Plain(next) : ToIn(s, made)[h] \in Plain(m)
        BY <2>8
    <3> QED BY <3>1, PatchIs
  <2> QED BY <2>1, <2>3, <2>5, <2>6, <2>10, <2>11
<1> QED BY <1>1, <1>2

\* The copies' ids are the new ids.
LEMMA MadeWithin ==
    ASSUME NEW e, NEW s, NEW count, NEW m, NEW C, Copied(e, s, count, m, C)
    PROVE  /\ \A i \in 1 .. Len(s), k \in 1 .. count :
                 /\ Made(i, k, count) \in next .. m - 1
                 /\ 1 + ((Made(i, k, count) - next) \div count) = i
                 /\ 1 + ((Made(i, k, count) - next) % count) = k
           /\ \A id \in next .. m - 1 :
                 \E i \in 1 .. Len(s), k \in 1 .. count : id = Made(i, k, count)
<1>0. next \in Nat /\ count \in Nat /\ count >= 1 /\ Len(s) \in Nat /\ m = next + Len(s) * count
    BY CopiedIs DEF Copied
<1>1. PICK L : L = Len(s)
    OBVIOUS
<1>2. L \in Nat /\ next .. next + L * count - 1 = next .. m - 1
    BY <1>0, <1>1
<1>3. ASSUME NEW i \in 1 .. L, NEW k \in 1 .. count
      PROVE  /\ Made(i, k, count) \in next .. next + L * count - 1
             /\ 1 + ((Made(i, k, count) - next) \div count) = i
             /\ 1 + ((Made(i, k, count) - next) % count) = k
    BY <1>0, <1>2, MadeIs
<1>4. ASSUME NEW id \in next .. next + L * count - 1
      PROVE  \E i \in 1 .. L, k \in 1 .. count : id = Made(i, k, count)
    BY <1>0, <1>2, MadeAll
<1> QED BY ONLY <1>1, <1>2, <1>3, <1>4

\* The copy of a member in the k-th instance.
CopyPlace(s, k, count) ==
    [y \in Places |-> IF y \in Range(s) THEN Made(NumberIn(s)[y] + 1, k, count) ELSE Null.id]

LEMMA CopyPlaceIs ==
    ASSUME NEW e, NEW s, NEW count, NEW m, NEW C, Copied(e, s, count, m, C), NEW k \in 1 .. count
    PROVE  /\ \A y \in Range(s) : /\ NumberIn(s)[y] + 1 \in 1 .. Len(s)
                                  /\ s[NumberIn(s)[y] + 1] = y
                                  /\ CopyPlace(s, k, count)[y] = Made(NumberIn(s)[y] + 1, k, count)
                                  /\ CopyPlace(s, k, count)[y] =
                                        Instance(s, k, count)[NumberIn(s)[y] + 1]
                                  /\ CopyPlace(s, k, count)[y] \in next .. m - 1
           /\ CopyPlace(s, k, count)[Null.id] = Null.id
           /\ IsInjective(s) =>
                 \A i \in 1 .. Len(s) : CopyPlace(s, k, count)[s[i]] = Made(i, k, count)
<1>0. /\ next \in Nat /\ next \in 0 .. MaxIds /\ count \in Nat /\ count >= 1
      /\ IsMembers(s) /\ Len(s) \in Nat
      /\ m = next + Len(s) * count /\ m <= MaxIds /\ DOMAIN s = 1 .. Len(s)
      /\ Null.id \notin Range(s)
    BY CopiedIs DEF Copied
<1>1. Range(s) \subseteq Places
    BY <1>0, MembersAre DEF Places
<1>2. ASSUME NEW y \in Range(s)
      PROVE  /\ NumberIn(s)[y] + 1 \in 1 .. Len(s) /\ s[NumberIn(s)[y] + 1] = y
             /\ CopyPlace(s, k, count)[y] = Made(NumberIn(s)[y] + 1, k, count)
             /\ CopyPlace(s, k, count)[y] =
                                        Instance(s, k, count)[NumberIn(s)[y] + 1]
             /\ CopyPlace(s, k, count)[y] \in next .. m - 1
  <2>1. NumberIn(s)[y] \in 0 .. Len(s) - 1 /\ s[NumberIn(s)[y] + 1] = y
    BY <1>0, NumberInIs
  <2>2. PICK i : i = NumberIn(s)[y] + 1
    OBVIOUS
  <2>3. i \in 1 .. Len(s)
    BY <1>0, <2>1, <2>2
  <2>4. CopyPlace(s, k, count)[y] = Made(i, k, count)
    BY <1>1, <2>2 DEF CopyPlace
  <2>5. Instance(s, k, count)[i] = Made(i, k, count)
    BY <1>0, <2>3 DEF Instance
  <2>6. Made(i, k, count) \in next .. m - 1
    BY <1>0, <2>3, MadeIs
  <2> QED BY <2>1, <2>2, <2>3, <2>4, <2>5, <2>6
<1>3. CopyPlace(s, k, count)[Null.id] = Null.id
    BY <1>0 DEF CopyPlace, Places
<1>4. ASSUME IsInjective(s), NEW i \in 1 .. Len(s)
      PROVE  CopyPlace(s, k, count)[s[i]] = Made(i, k, count)
  <2>1. PICK y \in Range(s) : y = s[i]
    BY <1>0, MembersAre
  <2>2. NumberIn(s)[y] = i - 1
    BY <1>0, <1>4, <2>1, NumberInIs
  <2>3. NumberIn(s)[y] + 1 = i
    BY <1>0, <2>2
  <2> QED BY <1>2, <2>1, <2>3
<1> QED BY <1>2, <1>3, <1>4

\* The group of a copy lists the copies of those that the group listed.
LEMMA CopiesLinks ==
    ASSUME NEW e, NEW s, NEW count, NEW m, NEW C, Copied(e, s, count, m, C),
           NEW i \in 1 .. Len(s), NEW k \in 1 .. count
    PROVE  /\ Made(i, k, count) \in next .. m - 1
           /\ Size(C, Made(i, k, count)) = Size(ent, s[i])
           /\ Grouped(C, Made(i, k, count)) <=> Grouped(ent, s[i])
           /\ \A j \in 1 .. Size(ent, s[i]) :
                 /\ Link(C, Made(i, k, count), j) = CopyPlace(s, k, count)[Link(ent, s[i], j)]
                 /\ Link(ent, s[i], j) \in Range(s) \cup {Null.id}
           /\ s[i] \in DOMAIN ent /\ s[i] \in Range(s)
<1>0. /\ next \in Nat /\ next \in 0 .. MaxIds /\ count \in Nat /\ count >= 1
      /\ IsMembers(s) /\ Len(s) \in Nat /\ World(ent, Plain(next))
      /\ m = next + Len(s) * count /\ m <= MaxIds /\ DOMAIN s = 1 .. Len(s)
      /\ Null.id \notin Range(s) /\ Range(s) \subseteq DOMAIN ent /\ Whole(ent, next, e, s)
    BY CopiedIs DEF Copied
<1>1. PICK id, x, made : id = Made(i, k, count) /\ x = s[i] /\ made = Instance(s, k, count)
    OBVIOUS
<1>2. id \in next .. m - 1
    BY <1>0, <1>1, MadeWithin
<1>3. x \in Range(s) /\ x \in DOMAIN ent
    BY <1>0, <1>1, MembersAre
<1>4. PICK r \in Record(Plain(next)) : r = ent[x]
    BY <1>0, <1>3 DEF World
<1>5. DOMAIN C = next .. m - 1 /\ C[id] = Patch(r, ToIn(s, made))
    BY <1>1, <1>4, CopiesAre
<1>6. PICK to : to = ToIn(s, made)
    OBVIOUS
<1>7. /\ Len(C[id].group) = Len(r.group) /\ (C[id].group = << >> <=> r.group = << >>)
      /\ \A j \in 1 .. Len(r.group) : C[id].group[j] = to[r.group[j]]
  <2>1. Maps(Plain(next), {to[h] : h \in Plain(next)}, to)
    BY DEF Maps
  <2>2. PICK u : u = Patch(r, to)
    OBVIOUS
  <2>3. /\ Len(u.group) = Len(r.group) /\ (u.group = << >> <=> r.group = << >>)
        /\ \A j \in 1 .. Len(r.group) : u.group[j] = to[r.group[j]]
    BY ONLY <2>1, <2>2, PatchMaps, r \in Record(Plain(next))
  <2> QED BY <1>5, <1>6, <2>2, <2>3
<1>8. Size(C, id) = Size(ent, x) /\ (Grouped(C, id) <=> Grouped(ent, x))
      /\ Size(ent, x) = Len(r.group)
    BY <1>2, <1>3, <1>4, <1>5, <1>7 DEF Size, Grouped, NoGroup
<1>9. ASSUME NEW j \in 1 .. Size(ent, x)
      PROVE  /\ Link(C, id, j) = CopyPlace(s, k, count)[Link(ent, x, j)]
             /\ Link(ent, x, j) \in Range(s) \cup {Null.id}
  <2>1. PICK h, y : h = r.group[j] /\ y = Link(ent, x, j)
    OBVIOUS
  <2>2. \/ h = Old(y) /\ y \in Range(s)
        \/ h = Null /\ y = Null.id
    BY <1>0, <1>3, <1>4, <2>1, WholeIs
  <2>3. h \in Plain(next) /\ h.id = y
    BY <1>0, <1>3, <1>4, <2>1, <2>2, WholeIs, Handles
  <2>4. Link(C, id, j) = to[h].id
    BY <1>7, <1>8, <2>1 DEF Link
  <2>5. IsMembers(made) /\ Len(made) = Len(s)
    BY <1>0, <1>1, InstanceIs
  <2>6. CASE y \in Range(s)
    <3>1. to[h] = Old(made[NumberIn(s)[y] + 1])
        BY <1>0, <1>6, <2>3, <2>5, <2>6, ResolveNumbers
    <3>2. CopyPlace(s, k, count)[y] = made[NumberIn(s)[y] + 1]
        BY <1>1, <2>6, CopyPlaceIs
    <3> QED BY <2>1, <2>4, <2>6, <3>1, <3>2, Handles
  <2>7. CASE y \notin Range(s)
    <3>1. to[h] = h /\ y = Null.id
        BY <1>0, <1>6, <2>2, <2>3, <2>5, <2>7, ResolveNumbers
    <3>2. CopyPlace(s, k, count)[y] = Null.id
        BY <3>1, CopyPlaceIs
    <3> QED BY <2>1, <2>3, <2>4, <3>1, <3>2
  <2> QED BY <2>6, <2>7
<1> QED BY <1>1, <1>2, <1>3, <1>8, <1>9

\* So the copies are in order.
LEMMA CopiesInOrder ==
    ASSUME NEW e, NEW s, NEW count, NEW m, NEW C, Copied(e, s, count, m, C)
    PROVE  /\ DOMAIN C = next .. m - 1 /\ World(C, Plain(m)) /\ Orderly(C)
           /\ \A x : Grouped(C, x) => \A i \in 1 .. Size(C, x) :
                  Link(C, x, i) = Null.id \/ Link(C, x, i) \in next .. m - 1
<1>0. /\ next \in Nat /\ m \in 0 .. MaxIds /\ count \in Nat /\ count >= 1 /\ Len(s) \in Nat
      /\ m = next + Len(s) * count /\ Orderly(ent)
    BY CopiedIs DEF Copied, Whole
<1> DEFINE src == [id \in next .. m - 1 |-> s[1 + ((id - next) \div count)]]
           c == [id \in next .. m - 1 |-> CopyPlace(s, 1 + ((id - next) % count), count)]
<1>1. DOMAIN C = next .. m - 1
    BY CopiesAre
<1>2. ASSUME NEW id \in next .. m - 1
      PROVE  \E i \in 1 .. Len(s), k \in 1 .. count : id = Made(i, k, count)
    BY MadeWithin
<1>3. World(C, Plain(m))
  <2>1. ASSUME NEW id \in next .. m - 1 PROVE C[id] \in Record(Plain(m))
    BY <1>2, CopiesAre
  <2> QED BY <1>1, <2>1 DEF World
<1>4. ASSUME NEW i \in 1 .. Len(s), NEW k \in 1 .. count
      PROVE  /\ src[Made(i, k, count)] = s[i]
             /\ c[Made(i, k, count)] = CopyPlace(s, k, count)
  <2>1. PICK id : id = Made(i, k, count)
    OBVIOUS
  <2>2. /\ id \in next .. m - 1
        /\ 1 + ((id - next) \div count) = i /\ 1 + ((id - next) % count) = k
    <3>1. /\ Made(i, k, count) \in next .. m - 1
          /\ 1 + ((Made(i, k, count) - next) \div count) = i
          /\ 1 + ((Made(i, k, count) - next) % count) = k
        BY ONLY Copied(e, s, count, m, C), MadeWithin, i \in 1 .. Len(s), k \in 1 .. count
    <3> QED BY <2>1, <3>1
  <2> QED BY <2>1, <2>2
<1> HIDE DEF src, c
<1>5. ASSUME NEW id \in next .. m - 1
      PROVE  /\ src[id] \in DOMAIN ent
             /\ Size(C, id) = Size(ent, src[id]) /\ (Grouped(C, id) => Grouped(ent, src[id]))
             /\ \A j \in 1 .. Size(C, id) :
                    /\ Link(C, id, j) = c[id][Link(ent, src[id], j)]
                    /\ Link(C, id, j) \in DOMAIN C =>
                           src[Link(C, id, j)] = Link(ent, src[id], j) /\ c[Link(C, id, j)] = c[id]
                    /\ Link(C, id, j) = Null.id \/ Link(C, id, j) \in next .. m - 1
             /\ c[id][Null.id] = Null.id
  <2>1. PICK i \in 1 .. Len(s), k \in 1 .. count : id = Made(i, k, count)
    BY <1>2
  <2>2. src[id] = s[i] /\ c[id] = CopyPlace(s, k, count)
    BY <1>4, <2>1
  <2>3. /\ Size(C, id) = Size(ent, s[i]) /\ (Grouped(C, id) <=> Grouped(ent, s[i]))
        /\ \A j \in 1 .. Size(ent, s[i]) :
              /\ Link(C, id, j) = CopyPlace(s, k, count)[Link(ent, s[i], j)]
              /\ Link(ent, s[i], j) \in Range(s) \cup {Null.id}
        /\ s[i] \in DOMAIN ent
    BY <2>1, CopiesLinks
  <2>4. CopyPlace(s, k, count)[Null.id] = Null.id
    BY CopyPlaceIs
  <2>5. ASSUME NEW j \in 1 .. Size(C, id), NEW z, z = Link(C, id, j), NEW y, y = Link(ent, s[i], j)
        PROVE  /\ z \in DOMAIN C => src[z] = y /\ c[z] = CopyPlace(s, k, count)
               /\ z = Null.id \/ z \in next .. m - 1
    <3>1. z = CopyPlace(s, k, count)[y] /\ y \in Range(s) \cup {Null.id}
        BY <2>3, <2>5
    <3>2. CASE y = Null.id
        <4>1. z = Null.id /\ z \notin next .. m - 1
            BY <1>0, <2>4, <3>1, <3>2, Handles
        <4> QED BY <1>1, <4>1
    <3>3. CASE y \in Range(s)
        <4>1. PICK l : l = NumberIn(s)[y] + 1
            OBVIOUS
        <4>2. l \in 1 .. Len(s) /\ s[l] = y /\ z = Made(l, k, count) /\ z \in next .. m - 1
            BY <3>1, <3>3, <4>1, CopyPlaceIs
        <4> QED BY <1>4, <4>2
    <3> QED BY <3>1, <3>2, <3>3
  <2> QED BY <2>2, <2>3, <2>4, <2>5
<1>6. CopyOf(ent, C, src, c)
    BY <1>1, <1>5 DEF CopyOf
<1>7. Leads(C)
    BY <1>0, <1>3, PlainIs, WorldIs
<1>8. Null.id \notin DOMAIN C
    BY <1>0, <1>1, Handles
<1>9. Orderly(C)
    BY <1>0, <1>6, <1>7, <1>8, OrderlyCopy
<1>10. \A x : Grouped(C, x) => x \in next .. m - 1
    BY <1>1 DEF Grouped
<1> QED BY <1>1, <1>3, <1>5, <1>9, <1>10

-----------------------------------------------------------------------------
(* What is read.                                                           *)

\* deserialize reads the whole stream.
LEMMA ReadIs ==
    ASSUME Len(stream) \in Nat \ {0}, DOMAIN stream = 1 .. Len(stream),
           \A i \in 1 .. Len(stream) : Wanted(stream, i) \in Int, ReadAll(stream)
    PROVE  Read = Len(stream)
<1> DEFINE L == Len(stream)
           Is(f) == f = [n \in 0 .. Len(stream) |->
                           IF n = 0 THEN 1 ELSE f[n - 1] - 1 + Members(n)]
<1>1. PICK a \in [0 .. L -> Int] : ReadCounts(stream, a)
    BY DEF ReadAll
<1>2. \A i : Members(i) = Wanted(stream, i)
    BY DEF Members, Wanted
<1>3. Is(a)
  <2>1. ASSUME NEW i \in 0 .. L PROVE a[i] = IF i = 0 THEN 1 ELSE a[i - 1] - 1 + Members(i)
    <3>1. CASE i = 0
        BY <1>1, <3>1 DEF ReadCounts
    <3>2. CASE i # 0
        <4>1. i \in 1 .. L
            BY <3>2
        <4> QED BY <1>1, <1>2, <3>2, <4>1 DEF ReadCounts
    <3> QED BY <3>1, <3>2
  <2>2. a = [i \in 0 .. L |-> a[i]]
    OBVIOUS
  <2> QED BY <2>1, <2>2
<1> DEFINE f == CHOOSE h : Is(h)
<1>4. Read = CHOOSE n \in DOMAIN stream : f[n] = 0 /\ \A m \in 1 .. n - 1 : f[m] > 0
    BY DEF Read
<1>5. Is(f)
  <2> HIDE DEF Is
  <2> QED BY <1>3
<1> HIDE DEF f
<1>6. ASSUME NEW i \in 0 .. L PROVE f[i] = IF i = 0 THEN 1 ELSE f[i - 1] - 1 + Members(i)
    BY ONLY <1>5, i \in 0 .. Len(stream)
<1>7. \A i \in 0 .. L : f[i] = a[i]
  <2> DEFINE P == {i \in Int : f[i] = a[i]}
  <2>1. 0 \in P
    <3>1. 0 \in 0 .. L
        OBVIOUS
    <3> QED BY <1>1, <1>6, <3>1 DEF ReadCounts
  <2>2. ASSUME NEW i \in Int, 0 < i, i <= L, i - 1 \in P PROVE i \in P
    <3>1. i \in 0 .. L /\ i \in 1 .. L /\ i # 0
        BY <2>2
    <3>2. f[i] = f[i - 1] - 1 + Members(i)
        BY <1>6, <3>1
    <3>3. a[i] = a[i - 1] - 1 + Members(i)
        BY <1>1, <1>2, <3>1 DEF ReadCounts
    <3> QED BY <2>2, <3>2, <3>3
  <2>3. 0 \in Int /\ L \in Int
    OBVIOUS
  <2> HIDE DEF P
  <2>4. 0 .. L \subseteq P
    BY ONLY <2>1, <2>2, <2>3, CountUp
  <2> QED BY <2>4 DEF P
<1>8. L \in DOMAIN stream /\ f[L] = 0 /\ \A m \in 1 .. L - 1 : f[m] > 0
  <2>1. f[L] = 0
    BY <1>1, <1>7 DEF ReadCounts
  <2>2. ASSUME NEW m \in 1 .. L - 1 PROVE f[m] > 0
    <3>1. m + 1 \in 1 .. L /\ m \in 0 .. L /\ (m + 1) - 1 = m
        OBVIOUS
    <3>2. a[(m + 1) - 1] > 0
        BY <1>1, <3>1 DEF ReadCounts
    <3> QED BY <1>7, <3>1, <3>2
  <2> QED BY <2>1, <2>2
<1>9. ASSUME NEW n \in DOMAIN stream, f[n] = 0, \A m \in 1 .. n - 1 : f[m] > 0 PROVE n = L
  <2>1. ASSUME n # L PROVE FALSE
    <3>1. n \in 1 .. L - 1
        BY <2>1
    <3>2. f[n] > 0
        BY <1>8, <3>1
    <3> QED BY <1>9, <3>2
  <2> QED BY <2>1
<1> HIDE DEF L
<1>10. Read = L
    BY <1>4, <1>8, <1>9
<1> QED BY <1>10 DEF L

-----------------------------------------------------------------------------
(* The entities that are read.                                             *)

\* The entities that are made of L records, and which number becomes which.
Fresh(L) == [i \in 1 .. L |-> next + i - 1]
ReadPlace(L) == [y \in Places |-> IF y \in 0 .. L - 1 THEN y + next ELSE Null.id]

\* The parts of deserialize, of a group.
ReadGroup(t, m, D) ==
    /\ next \in Count .. MaxIds /\ m = next + Len(t) /\ m <= MaxIds
    /\ t \in Seq(Record(Linked(Len(t)))) /\ Len(t) \in Nat \ {0} /\ Orderly(RecordedOf(t))
    /\ D = [id \in next .. m - 1 |-> Patch(t[id - next + 1], Resolve(Fresh(Len(t))))]

LEMMA FreshIs ==
    ASSUME NEW t, NEW m, NEW D, ReadGroup(t, m, D)
    PROVE  /\ next \in Nat /\ next \in 0 .. MaxIds /\ m \in Nat /\ m \in next .. MaxIds
           /\ m \in 0 .. MaxIds /\ Len(t) \in 0 .. MaxIds
           /\ IsMembers(Fresh(Len(t))) /\ Len(Fresh(Len(t))) = Len(t)
           /\ \A k \in 0 .. Len(t) - 1 : /\ Fresh(Len(t))[k + 1] = next + k
                                         /\ next + k \in next .. m - 1
                                         /\ ReadPlace(Len(t))[k] = next + k
           /\ ReadPlace(Len(t))[Null.id] = Null.id
           /\ Range(Fresh(Len(t))) = next .. m - 1
<1>1. PICK L \in Nat \ {0} : L = Len(t)
    BY DEF ReadGroup
<1>2. next \in Nat /\ next \in 0 .. MaxIds /\ MaxIds \in Nat /\ m = next + L /\ m <= MaxIds
    BY <1>1, GroupsAssumption DEF ReadGroup
<1>3. m \in Nat /\ m \in next .. MaxIds /\ m \in 0 .. MaxIds /\ L \in 0 .. MaxIds
    BY <1>2
<1> DEFINE F == Fresh(L)
<1>4. F = [i \in 1 .. L |-> next + i - 1]
    BY DEF Fresh
<1>5. ASSUME NEW i \in 1 .. L PROVE F[i] = next + i - 1 /\ F[i] \in Id /\ F[i] \in next .. m - 1
  <2>1. F[i] = next + i - 1
    BY <1>4
  <2>2. next + i - 1 \in 0 .. MaxIds - 1 /\ next + i - 1 \in next .. m - 1
    BY <1>2
  <2> QED BY <2>1, <2>2 DEF Id
<1> HIDE DEF F
<1>6. F \in [1 .. L -> Id]
    BY <1>4, <1>5
<1>7. F \in Seq(Id)
    BY <1>6, SeqDef
<1>8. Len(F) = L
  <2>1. DOMAIN F = 1 .. L
    BY <1>4
  <2> QED BY <1>7, <2>1, LenProperties
<1>9. IsMembers(F)
    BY <1>3, <1>7, <1>8 DEF IsMembers
<1>10. ASSUME NEW k \in 0 .. L - 1
       PROVE  F[k + 1] = next + k /\ next + k \in next .. m - 1 /\ ReadPlace(L)[k] = next + k
  <2>1. k + 1 \in 1 .. L /\ k \in 0 .. MaxIds - 1
        /\ next + (k + 1) - 1 = next + k /\ k + next = next + k
    BY <1>2
  <2>2. ReadPlace(L)[k] = k + next
    BY <2>1 DEF ReadPlace, Places, Id
  <2> QED BY <1>5, <2>1, <2>2
<1>11. ReadPlace(L)[Null.id] = Null.id
  <2>1. Null.id \notin 0 .. L - 1
    BY Handles
  <2> QED BY <2>1 DEF ReadPlace, Places
<1>12. Range(F) = next .. m - 1
  <2>1. ASSUME NEW x \in next .. m - 1 PROVE x \in Range(F)
    <3>1. x - next \in 0 .. L - 1 /\ next + (x - next) = x /\ (x - next) + 1 \in 1 .. L
        BY <1>2
    <3>2. F[(x - next) + 1] = x
        BY <1>10, <3>1
    <3> QED BY <1>4, <3>1, <3>2 DEF Range
  <2>2. ASSUME NEW x \in Range(F) PROVE x \in next .. m - 1
    BY <1>4, <1>5 DEF Range
  <2> QED BY <2>1, <2>2
<1> QED BY <1>1, <1>2, <1>3, <1>8, <1>9, <1>10, <1>11, <1>12 DEF F

\* The group of an entity that is read lists those read for its numbers.
LEMMA ReadLinks ==
    ASSUME NEW t, NEW m, NEW D, ReadGroup(t, m, D), NEW k \in 0 .. Len(t) - 1
    PROVE  /\ D[next + k] = Patch(t[k + 1], Resolve(Fresh(Len(t))))
           /\ D[next + k] \in Record(Plain(m))
           /\ next + k \in next .. m - 1
           /\ Size(D, next + k) = Size(RecordedOf(t), k)
           /\ Grouped(D, next + k) <=> Grouped(RecordedOf(t), k)
           /\ k \in DOMAIN RecordedOf(t)
           /\ \A j \in 1 .. Size(RecordedOf(t), k) :
                 /\ Link(D, next + k, j) = ReadPlace(Len(t))[Link(RecordedOf(t), k, j)]
                 /\ Link(RecordedOf(t), k, j) \in 0 .. Len(t) - 1 \cup {Null.id}
<1>1. PICK L, id, q, r, R : /\ L = Len(t) /\ id = next + k /\ q = Resolve(Fresh(L))
                            /\ r = t[k + 1] /\ R = RecordedOf(t)
    OBVIOUS
<1>2. id \in next .. m - 1 /\ m \in Nat /\ next \in Nat /\ L \in 0 .. MaxIds /\ m \in 0 .. MaxIds
    BY <1>1, FreshIs
<1>3. D[id] = Patch(r, q) /\ DOMAIN D = next .. m - 1
  <2>1. id - next + 1 = k + 1
    BY <1>1, <1>2
  <2> QED BY <1>1, <1>2, <2>1 DEF ReadGroup
<1>4. r \in Record(Linked(L)) /\ k \in DOMAIN R /\ R[k] = r
  <2>1. t \in Seq(Record(Linked(L)))
    BY <1>1 DEF ReadGroup
  <2>2. DOMAIN R = 0 .. L - 1 /\ k + 1 \in 1 .. L
    BY <1>1, <2>1, RecordedIs
  <2>3. R[k] = t[k + 1]
    BY <1>1 DEF RecordedOf
  <2> QED BY <1>1, <2>1, <2>2, <2>3, ElementOfSeq
<1>5. ASSUME NEW h \in Linked(L)
      PROVE  /\ q[h] \in Plain(m) /\ q[h].id = ReadPlace(L)[h.id]
             /\ h.id \in 0 .. L - 1 \cup {Null.id}
  <2>1. CASE h.transient /\ h = New(h.id) /\ h.id \in 0 .. L - 1
    <3>1. PICK i \in 0 .. L - 1 : i = h.id /\ h = New(i)
        BY <2>1
    <3>2. /\ Fresh(L)[i + 1] = next + i /\ next + i \in next .. m - 1
          /\ ReadPlace(L)[i] = next + i /\ IsMembers(Fresh(L)) /\ Len(Fresh(L)) = L
        BY <1>1, FreshIs
    <3>3. q[h] = Old(next + i)
      <4>1. PICK f : f = Fresh(L)
        OBVIOUS
      <4>2. IsMembers(f) /\ Len(f) = L /\ f[i + 1] = next + i
        BY <3>2, <4>1
      <4>3. Resolve(f)[New(i)] = Old(f[i + 1])
        BY ONLY <3>1, <4>2, ResolveIs
      <4> QED BY <1>1, <3>1, <4>1, <4>2, <4>3
    <3>4. next + i \in 0 .. m - 1
        BY <1>2, <3>2
    <3>5. Old(next + i) \in Plain(m)
        BY <1>2, <3>4, PlainIs
    <3> QED BY <3>1, <3>2, <3>3, <3>5, Handles
  <2>2. CASE h = Null
    <3>1. IsMembers(Fresh(L)) /\ ReadPlace(L)[Null.id] = Null.id
        BY <1>1, FreshIs
    <3>2. q[h] = Null
        BY <1>1, <2>2, <3>1, ResolveIs, Handles
    <3> QED BY <1>2, <2>2, <3>1, <3>2, PlainIs
  <2> QED BY <1>2, <2>1, <2>2, LinkedIs
<1>6. PICK u : u = Patch(r, q)
    OBVIOUS
<1>7. /\ u \in Record(Plain(m)) /\ Len(u.group) = Len(r.group)
      /\ (u.group = << >> <=> r.group = << >>)
      /\ \A j \in 1 .. Len(r.group) : u.group[j] = q[r.group[j]] /\ r.group[j] \in Linked(L)
  <2>1. Maps(Linked(L), Plain(m), q)
    BY <1>5 DEF Maps
  <2>2. /\ u \in Record(Plain(m)) /\ Len(u.group) = Len(r.group)
        /\ (u.group = << >> <=> r.group = << >>)
        /\ \A j \in 1 .. Len(r.group) : u.group[j] = q[r.group[j]]
    BY ONLY <1>4, <1>6, <2>1, PatchMaps
  <2> QED BY <1>4, <2>2, RecordIs
<1>8. Size(D, id) = Len(u.group) /\ Size(R, k) = Len(r.group)
      /\ (Grouped(D, id) <=> u.group # << >>) /\ (Grouped(R, k) <=> r.group # << >>)
    BY <1>2, <1>3, <1>4, <1>6 DEF Size, Grouped, NoGroup
<1>9. ASSUME NEW j \in 1 .. Size(R, k)
      PROVE  /\ Link(D, id, j) = ReadPlace(L)[Link(R, k, j)]
             /\ Link(R, k, j) \in 0 .. L - 1 \cup {Null.id}
  <2>1. PICK h : h = r.group[j]
    OBVIOUS
  <2>2. h \in Linked(L) /\ u.group[j] = q[h]
    BY <1>7, <1>8, <2>1
  <2>3. Link(D, id, j) = q[h].id /\ Link(R, k, j) = h.id
    BY <1>3, <1>4, <1>6, <2>1, <2>2 DEF Link
  <2> QED BY <1>5, <2>2, <2>3
<1> QED BY <1>1, <1>2, <1>3, <1>4, <1>6, <1>7, <1>8, <1>9

\* So what is read is in order.
LEMMA ReadInOrder ==
    ASSUME NEW t, NEW m, NEW D, ReadGroup(t, m, D)
    PROVE  /\ DOMAIN D = next .. m - 1 /\ World(D, Plain(m)) /\ Orderly(D)
           /\ \A x : Grouped(D, x) => \A i \in 1 .. Size(D, x) :
                  Link(D, x, i) = Null.id \/ Link(D, x, i) \in next .. m - 1
<1>1. PICK L, R : L = Len(t) /\ R = RecordedOf(t)
    OBVIOUS
<1>2. next \in Nat /\ m \in Nat /\ L \in Nat /\ m = next + L /\ m \in 0 .. MaxIds /\ Orderly(R)
    BY <1>1, FreshIs DEF ReadGroup
<1> DEFINE src == [id \in next .. m - 1 |-> id - next]
           c == [id \in next .. m - 1 |-> ReadPlace(L)]
<1>3. DOMAIN D = next .. m - 1
    BY DEF ReadGroup
<1>4. ASSUME NEW id \in next .. m - 1
      PROVE  id - next \in 0 .. L - 1 /\ next + (id - next) = id
    BY <1>2
<1>5. World(D, Plain(m))
  <2>1. ASSUME NEW id \in next .. m - 1 PROVE D[id] \in Record(Plain(m))
    <3>1. PICK k \in 0 .. L - 1 : next + k = id
        BY <1>4
    <3> QED BY <1>1, <3>1, ReadLinks
  <2> QED BY <1>3, <2>1 DEF World
<1>6. ASSUME NEW k \in 0 .. L - 1
      PROVE  src[next + k] = k /\ c[next + k] = ReadPlace(L) /\ next + k \in next .. m - 1
    BY <1>2
<1> HIDE DEF src, c
<1>7. ASSUME NEW id \in next .. m - 1
      PROVE  /\ src[id] \in DOMAIN R
             /\ Size(D, id) = Size(R, src[id]) /\ (Grouped(D, id) => Grouped(R, src[id]))
             /\ \A j \in 1 .. Size(D, id) :
                    /\ Link(D, id, j) = c[id][Link(R, src[id], j)]
                    /\ Link(D, id, j) \in DOMAIN D =>
                           src[Link(D, id, j)] = Link(R, src[id], j) /\ c[Link(D, id, j)] = c[id]
                    /\ Link(D, id, j) = Null.id \/ Link(D, id, j) \in next .. m - 1
             /\ c[id][Null.id] = Null.id
  <2>1. PICK k \in 0 .. L - 1 : next + k = id
    BY <1>4
  <2>2. src[id] = k /\ c[id] = ReadPlace(L)
    BY <1>6, <2>1
  <2>3. /\ Size(D, id) = Size(R, k) /\ (Grouped(D, id) <=> Grouped(R, k))
        /\ \A j \in 1 .. Size(R, k) :
              /\ Link(D, id, j) = ReadPlace(L)[Link(R, k, j)]
              /\ Link(R, k, j) \in 0 .. L - 1 \cup {Null.id}
        /\ k \in DOMAIN R
    BY <1>1, <2>1, ReadLinks
  <2>4. ReadPlace(L)[Null.id] = Null.id
    BY <1>1, FreshIs
  <2>5. ASSUME NEW j \in 1 .. Size(D, id), NEW z, z = Link(D, id, j), NEW y, y = Link(R, k, j)
        PROVE  /\ z \in DOMAIN D => src[z] = y /\ c[z] = ReadPlace(L)
               /\ z = Null.id \/ z \in next .. m - 1
    <3>1. z = ReadPlace(L)[y] /\ y \in 0 .. L - 1 \cup {Null.id}
        BY <2>3, <2>5
    <3>2. CASE y = Null.id
        <4>1. z = Null.id /\ z \notin next .. m - 1
            BY <1>2, <2>4, <3>1, <3>2, Handles
        <4> QED BY <1>3, <4>1
    <3>3. CASE y \in 0 .. L - 1
        <4>1. z = next + y
            BY <1>1, <3>1, <3>3, FreshIs
        <4> QED BY <1>6, <3>3, <4>1
    <3> QED BY <3>1, <3>2, <3>3
  <2> QED BY <2>2, <2>3, <2>4, <2>5
<1>8. CopyOf(R, D, src, c)
    BY <1>3, <1>7 DEF CopyOf
<1>9. Leads(D)
    BY <1>2, <1>5, PlainIs, WorldIs
<1>10. Null.id \notin DOMAIN D
    BY <1>2, <1>3, Handles
<1>11. Orderly(D)
    BY <1>2, <1>8, <1>9, <1>10, OrderlyCopy
<1>12. \A x : Grouped(D, x) => x \in next .. m - 1
    BY <1>3 DEF Grouped
<1> QED BY <1>3, <1>5, <1>7, <1>11, <1>12

\* Other references and the same groups.
LEMMA OrderlySame ==
    ASSUME NEW n \in 0 .. MaxIds, NEW U, InOrder(U, n), NEW W, W = [x \in DOMAIN W |-> W[x]],
           DOMAIN W = DOMAIN U, World(W, Plain(n)),
           \A x \in DOMAIN U : W[x].group = U[x].group
    PROVE  InOrder(W, n)
<1>1. /\ DOMAIN U \subseteq 0 .. n - 1 /\ Orderly(U) /\ FirstOwn(U)
    BY DEF InOrder
<1>2. \A x : /\ Grouped(W, x) <=> Grouped(U, x)
             /\ x \in DOMAIN U => /\ Size(W, x) = Size(U, x)
                                  /\ \A i : Link(W, x, i) = Link(U, x, i)
    BY DEF Grouped, Size, Link
<1>3. Faded(U, W)
    BY <1>2 DEF Faded
<1>4. Leads(W) /\ Null.id \notin DOMAIN W
    BY <1>1, PlainIs, WorldIs, Handles
<1>5. Orderly(W)
    BY <1>1, <1>3, <1>4, OrderlyFaded
<1>6. FirstOwn(W)
    BY <1>1, <1>2 DEF FirstOwn, Grouped
<1> QED BY <1>1, <1>5, <1>6 DEF InOrder

\* SetRef, SetGroup and Destroy keep the world in order.
LEMMA RefSet ==
    ASSUME NEW n \in 0 .. MaxIds, NEW U, InOrder(U, n), NEW e \in DOMAIN U, NEW h \in Plain(n),
           NEW W, W = [U EXCEPT ![e].ref = h]
    PROVE  InOrder(W, n)
<1>1. World(U, Plain(n)) /\ U = [x \in DOMAIN U |-> U[x]]
    BY DEF InOrder
<1>2. DOMAIN W = DOMAIN U /\ W = [x \in DOMAIN W |-> W[x]]
      /\ W[e] = [U[e] EXCEPT !.ref = h] /\ \A x \in DOMAIN U \ {e} : W[x] = U[x]
    BY <1>1
<1>3. U[e] \in Record(Plain(n))
    BY <1>1 DEF World
<1>4. W[e] \in Record(Plain(n)) /\ W[e].group = U[e].group
    BY <1>2, <1>3 DEF Record
<1>5. World(W, Plain(n)) /\ \A x \in DOMAIN U : W[x].group = U[x].group
    BY <1>1, <1>2, <1>4 DEF World
<1> QED BY <1>2, <1>5, OrderlySame

LEMMA GroupSet ==
    ASSUME NEW n \in 0 .. MaxIds, NEW U, InOrder(U, n), NEW e \in DOMAIN U, e \in First,
           NEW g \in Seq(Plain(n)), Len(g) \in Nat \ {0}, g[1] = Old(e),
           \A i \in 2 .. Len(g) : g[i].id \in First,
           NEW W, W = [U EXCEPT ![e].group = g]
    PROVE  InOrder(W, n)
<1>1. /\ World(U, Plain(n)) /\ U = [x \in DOMAIN U |-> U[x]]
      /\ DOMAIN U \subseteq 0 .. n - 1 /\ Orderly(U) /\ FirstOwn(U)
    BY DEF InOrder
<1>2. DOMAIN W = DOMAIN U /\ W = [x \in DOMAIN W |-> W[x]]
      /\ W[e] = [U[e] EXCEPT !.group = g] /\ \A x \in DOMAIN U \ {e} : W[x] = U[x]
    BY <1>1
<1>3. U[e] \in Record(Plain(n))
    BY <1>1 DEF World
<1>4. W[e] \in Record(Plain(n)) /\ W[e].group = g
    BY <1>2, <1>3 DEF Record
<1>5. World(W, Plain(n))
    BY <1>1, <1>2, <1>4 DEF World
<1>6. Grouped(W, e) /\ Size(W, e) = Len(g) /\ Link(W, e, 1) = e
      /\ \A i \in 2 .. Len(g) : Link(W, e, i) \in First
  <2>1. g # << >>
    OBVIOUS
  <2> QED BY <1>2, <1>4, <2>1, Handles DEF Grouped, Size, Link, NoGroup
<1>7. \A x : x # e => /\ Grouped(W, x) <=> Grouped(U, x)
                      /\ x \in DOMAIN U => /\ Size(W, x) = Size(U, x)
                                           /\ \A i : Link(W, x, i) = Link(U, x, i)
    BY <1>2 DEF Grouped, Size, Link
<1>8. \A x : Grouped(U, x) => x \in DOMAIN U
    BY DEF Grouped
<1>9. Tidy(W, e) /\ Alike(W, e, e)
    BY <1>6 DEF Tidy, Alike
<1>10. \A y : Tidy(U, y) => Tidy(W, y)
    BY <1>7, <1>8, <1>9 DEF Tidy
<1>11. \A y \in First : Tidy(U, y)
    BY <1>1 DEF FirstOwn, Tidy
<1>12. Null.id \notin First /\ Null.id \notin DOMAIN U
    BY <1>1, Handles DEF First
<1>13. ASSUME NEW x, Grouped(W, x), NEW i \in 1 .. Size(W, x)
       PROVE  Tidy(W, Link(W, x, i))
  <2>1. CASE x = e
    <3>1. CASE i = 1
        BY <1>6, <1>9, <2>1, <3>1
    <3>2. CASE i # 1
        <4>1. i \in 2 .. Len(g)
            BY <1>6, <1>13, <2>1, <3>2
        <4> QED BY <1>6, <1>10, <1>11, <2>1, <4>1
    <3> QED BY <3>1, <3>2
  <2>2. CASE x # e
    <3>1. Grouped(U, x) /\ i \in 1 .. Size(U, x) /\ Link(W, x, i) = Link(U, x, i)
        BY <1>7, <1>8, <1>13, <2>2
    <3>2. Tidy(U, Link(U, x, i))
        BY <1>1, <3>1 DEF Orderly
    <3> QED BY <1>10, <3>1, <3>2
  <2> QED BY <2>1, <2>2
<1>14. ASSUME NEW x, Grouped(W, x), Link(W, x, 1) \in DOMAIN W
       PROVE  Alike(W, x, Link(W, x, 1))
  <2>1. CASE x = e
    BY <1>6, <1>9, <2>1
  <2>2. CASE x # e
    <3>1. PICK y : y = Link(U, x, 1)
        OBVIOUS
    <3>2. Grouped(U, x) /\ x \in DOMAIN U /\ Link(W, x, 1) = y /\ y \in DOMAIN U
        BY <1>2, <1>7, <1>8, <1>14, <2>2, <3>1
    <3>3. y # e
        BY <1>1, <1>12, <2>2, <3>1, <3>2 DEF FirstOwn
    <3>4. Alike(U, x, y)
        BY <1>1, <3>1, <3>2 DEF Orderly
    <3>5. /\ Size(W, x) = Size(U, x) /\ \A i : Link(W, x, i) = Link(U, x, i)
          /\ Size(W, y) = Size(U, y) /\ \A i : Link(W, y, i) = Link(U, y, i)
        BY <1>7, <2>2, <3>2, <3>3
    <3>6. Alike(W, x, y)
        BY <3>4, <3>5 DEF Alike
    <3> QED BY <3>2, <3>6
  <2> QED BY <2>1, <2>2
<1>15. Orderly(W)
    BY <1>13, <1>14 DEF Orderly
<1>16. FirstOwn(W)
  <2>1. ASSUME NEW x, Grouped(W, x), x \in First \/ Link(W, x, 1) \in First
        PROVE  Link(W, x, 1) \in {Null.id, x}
    <3>1. CASE x = e
        BY <1>6, <3>1
    <3>2. CASE x # e
        BY <1>1, <1>7, <1>8, <2>1, <3>2 DEF FirstOwn
    <3> QED BY <3>1, <3>2
  <2> QED BY <2>1 DEF FirstOwn
<1> QED BY <1>1, <1>2, <1>5, <1>15, <1>16 DEF InOrder

LEMMA Removed ==
    ASSUME NEW n \in 0 .. MaxIds, NEW U, InOrder(U, n), NEW e \in DOMAIN U, ~ Grouped(U, e),
           NEW W, W = Restrict(U, DOMAIN U \ {e})
    PROVE  InOrder(W, n)
<1>1. /\ World(U, Plain(n)) /\ DOMAIN U \subseteq 0 .. n - 1 /\ Orderly(U) /\ FirstOwn(U)
    BY DEF InOrder
<1>2. DOMAIN W = DOMAIN U \ {e} /\ W = [x \in DOMAIN W |-> W[x]]
      /\ \A x \in DOMAIN U \ {e} : W[x] = U[x]
    BY DEF Restrict
<1>3. World(W, Plain(n))
    BY <1>1, <1>2 DEF World
<1>4. \A x : Grouped(W, x) <=> Grouped(U, x)
    BY <1>2 DEF Grouped
<1>5. \A x \in DOMAIN W : Size(W, x) = Size(U, x) /\ \A i : Link(W, x, i) = Link(U, x, i)
    BY <1>2 DEF Size, Link
<1>6. \A x : Grouped(U, x) => x \in DOMAIN W
    BY <1>2 DEF Grouped
<1>7. \A x : Tidy(U, x) => Tidy(W, x)
    BY <1>4, <1>5, <1>6 DEF Tidy
<1>8. ASSUME NEW x, Grouped(W, x)
      PROVE  /\ \A i \in 1 .. Size(W, x) : Tidy(W, Link(W, x, i))
             /\ Link(W, x, 1) \in DOMAIN W => Alike(W, x, Link(W, x, 1))
  <2>1. Grouped(U, x) /\ Size(W, x) = Size(U, x) /\ \A i : Link(W, x, i) = Link(U, x, i)
    BY <1>4, <1>5, <1>6, <1>8
  <2>2. ASSUME NEW i \in 1 .. Size(W, x) PROVE Tidy(W, Link(W, x, i))
    BY <1>1, <1>7, <2>1 DEF Orderly
  <2>3. ASSUME NEW y, y = Link(W, x, 1), y \in DOMAIN W PROVE Alike(W, x, y)
    <3>1. Alike(U, x, y)
        BY <1>1, <1>2, <2>1, <2>3 DEF Orderly
    <3> QED BY <1>5, <2>1, <2>3, <3>1 DEF Alike
  <2> QED BY <2>2, <2>3
<1>9. Orderly(W)
    BY <1>8 DEF Orderly
<1>10. FirstOwn(W)
    BY <1>1, <1>4, <1>5, <1>6 DEF FirstOwn
<1> QED BY <1>1, <1>2, <1>3, <1>9, <1>10 DEF InOrder

\* An entity that has no group is flattened to itself.
LEMMA FlattenedOne ==
    ASSUME NEW world, Leads(world), NEW e \in Places
    PROVE  /\ Flattened(world, e) \in Flat
           /\ ~ Grouped(world, e) => Flattened(world, e) = <<e>>
<1>1. PICK F : /\ Deep(F, world)
               /\ \A root : Flattened(world, root) = F[MaxIds][root]
    BY FlattenedIs
<1>2. MaxIds \in 0 .. MaxIds
    BY GroupsAssumption
<1>3. F[MaxIds] \in [Places -> Flat]
      /\ (~ Grouped(world, e) => F[MaxIds][e] = <<e>>)
    BY <1>1, <1>2 DEF Deep
<1>4. F[MaxIds][e] \in Flat
    BY <1>3
<1> QED BY <1>1, <1>3, <1>4

\* The invariant of ent.
InWorld == next \in Count .. MaxIds /\ edits \in Nat /\ InOrder(ent, next)

LEMMA InWorldIs ==
    ASSUME InWorld
    PROVE  /\ next \in Nat /\ next \in 0 .. MaxIds /\ next \in Count .. MaxIds /\ edits \in Nat
           /\ World(ent, Plain(next)) /\ ent = [x \in DOMAIN ent |-> ent[x]]
           /\ DOMAIN ent \subseteq 0 .. next - 1 /\ DOMAIN ent \subseteq Id
           /\ DOMAIN ent \subseteq Places /\ DOMAIN ent \cap First \subseteq 0 .. next - 1
           /\ Orderly(ent) /\ FirstOwn(ent) /\ Leads(ent) /\ InOrder(ent, next)
<1>1. next \in Nat /\ next \in 0 .. MaxIds /\ next \in Count .. MaxIds /\ edits \in Nat
    BY GroupsAssumption DEF InWorld
<1>2. World(ent, Plain(next)) /\ ent = [x \in DOMAIN ent |-> ent[x]]
      /\ DOMAIN ent \subseteq 0 .. next - 1 /\ Orderly(ent) /\ FirstOwn(ent) /\ InOrder(ent, next)
    BY DEF InWorld, InOrder
<1>3. 0 .. next - 1 \subseteq Id
    BY <1>1, PlainIs
<1>4. Leads(ent)
    BY <1>1, <1>2, PlainIs, WorldIs
<1> QED BY <1>1, <1>2, <1>3, <1>4 DEF Places

LEMMA WholeNow ==
    ASSUME InWorld, NEW e, HasGroup(e), NEW s, s = Flatten(e), Len(s) <= MaxIds,
           Range(s) \subseteq DOMAIN ent
    PROVE  Whole(ent, next, e, s)
BY InWorldIs DEF Whole, HasGroup, Flatten

\* instantiate of an entity that has no group.
LEMMA InstantiatePlain ==
    ASSUME InWorld, NEW e \in DOMAIN ent, ~ HasGroup(e), NEW count \in Nat, count >= 1,
           next + count * Len(Flatten(e)) <= MaxIds, Instantiate(e, count)
    PROVE  /\ next' \in next .. MaxIds /\ InOrder(ent', next')
           /\ UNCHANGED <<stream, saved, crashed>>
           /\ \A x \in DOMAIN ent : ent'[x] = ent[x]
<1>1. /\ next \in Nat /\ next \in Count .. MaxIds /\ World(ent, Plain(next)) /\ Leads(ent)
      /\ next \in 0 .. MaxIds /\ DOMAIN ent \subseteq Places /\ InOrder(ent, next)
      /\ DOMAIN ent \subseteq 0 .. next - 1
    BY InWorldIs
<1>2. Len(Flatten(e)) = 1
    BY <1>1, FlattenedOne DEF HasGroup, Flatten
<1>3. PICK m : m = next + count
    OBVIOUS
<1>4. m \in next .. MaxIds /\ m \in Nat /\ next <= m
    BY <1>1, <1>2, <1>3
<1>5. PICK C : C = [id \in next .. m - 1 |-> ent[e]]
    OBVIOUS
<1>6. /\ next' = m /\ UNCHANGED <<stream, saved, crashed>>
      /\ ent' = [id \in DOMAIN ent \cup next .. m - 1 |-> IF id < next THEN ent[id] ELSE C[id]]
  <2>1. /\ next' = next + count /\ UNCHANGED <<stream, saved, crashed>>
        /\ ent' = [id \in DOMAIN ent \cup next .. next + count - 1 |->
                           IF id < next THEN ent[id] ELSE ent[e]]
    BY DEF Instantiate
  <2>2. ASSUME NEW id \in DOMAIN ent \cup next .. m - 1
        PROVE  (IF id < next THEN ent[id] ELSE C[id]) = (IF id < next THEN ent[id] ELSE ent[e])
    <3>1. CASE id \in next .. m - 1
        BY <1>5, <3>1
    <3>2. CASE id \in 0 .. next - 1
        BY <1>1, <3>2
    <3> QED BY <1>1, <3>1, <3>2
  <2>3. PICK S : S = DOMAIN ent \cup next .. m - 1
    OBVIOUS
  <2>4. [id \in S |-> IF id < next THEN ent[id] ELSE C[id]]
            = [id \in S |-> IF id < next THEN ent[id] ELSE ent[e]]
    BY <2>2, <2>3
  <2>5. ent' = [id \in S |-> IF id < next THEN ent[id] ELSE ent[e]]
    <3>1. S = DOMAIN ent \cup next .. next + count - 1
        BY <1>1, <1>3, <2>3
    <3> QED BY <2>1, <3>1, Zenon
  <2> QED BY <1>3, <2>1, <2>3, <2>4, <2>5
<1>7. ent[e] \in Record(Plain(m))
    BY <1>1, <1>4, PlainMono, RecordMono DEF World
<1>8. DOMAIN C = next .. m - 1 /\ World(C, Plain(m)) /\ \A x \in DOMAIN C : C[x].group = NoGroup
    BY <1>5, <1>7 DEF World, HasGroup, Grouped
<1>9. InOrder(ent', m)
    BY <1>1, <1>4, <1>6, <1>8, ExtendedPlainly
<1>10. ASSUME NEW x \in DOMAIN ent PROVE ent'[x] = ent[x]
    BY <1>1, <1>6
<1> QED BY <1>4, <1>6, <1>9, <1>10

LEMMA Scaled ==
    ASSUME NEW L \in Nat, NEW count \in Nat, count >= 1
    PROVE  L * count \in Nat /\ count * L = L * count /\ L <= L * count
<1>1. PICK c \in Nat : count = c + 1
    BY count - 1 \in Nat
<1>2. L * (c + 1) = L * c + L
    OBVIOUS
<1> QED BY <1>1, <1>2, Product

\* instantiate of an entity that has one, none of whose members is gone.
LEMMA InstantiateGroup ==
    ASSUME InWorld, NEW e \in DOMAIN ent, HasGroup(e), NEW count \in Nat, count >= 1,
           next + count * Len(Flatten(e)) <= MaxIds, Instantiate(e, count),
           NEW s, s = Flatten(e), Range(s) \subseteq DOMAIN ent
    PROVE  \E m, C : /\ Copied(e, s, count, m, C) /\ next' = m
                     /\ ent' = [id \in DOMAIN ent \cup next .. m - 1 |->
                                   IF id < next THEN ent[id] ELSE C[id]]
                     /\ UNCHANGED <<stream, saved, crashed>>
<1>1. /\ next \in Nat /\ next \in Count .. MaxIds /\ World(ent, Plain(next)) /\ Leads(ent)
      /\ next \in 0 .. MaxIds /\ DOMAIN ent \subseteq Places
      /\ ent = [x \in DOMAIN ent |-> ent[x]]
    BY InWorldIs
<1>2. s \in Flat /\ Len(s) \in Nat
    BY <1>1, FlattenedOne DEF Flatten, Flat
<1>3. next + Len(s) * count <= MaxIds /\ Len(s) <= MaxIds /\ Len(s) * count \in Nat
  <2>1. Len(s) * count \in Nat /\ count * Len(s) = Len(s) * count /\ Len(s) <= Len(s) * count
    BY <1>2, Scaled
  <2>2. PICK K, P : K = Len(s) /\ P = Len(s) * count
    OBVIOUS
  <2>3. next + P <= MaxIds /\ P \in Nat /\ K \in Nat /\ K <= P /\ next \in Nat /\ MaxIds \in Nat
    BY <1>1, <1>2, <2>1, <2>2, GroupsAssumption
  <2>4. K <= MaxIds
    BY ONLY <2>3
  <2> QED BY <2>2, <2>3, <2>4
<1>4. Whole(ent, next, e, s)
    BY <1>3, WholeNow
<1>5. IsMembers(s)
    BY <1>1, <1>4, WholeIs
<1>6. PICK m, C : m = next + Len(s) * count /\ C = Copies(PrefabIn(ent, s), s, count)
    OBVIOUS
<1>7. Copied(e, s, count, m, C)
    BY <1>1, <1>3, <1>4, <1>6 DEF Copied
<1>8. DOMAIN C = next .. m - 1
    BY <1>7, CopiesAre
<1>9. PrefabToGroup(PrefabIn(ent, s), s) = ent
    BY <1>1, <1>5, SourceRestored
<1>10. /\ next' = m /\ UNCHANGED <<stream, saved, crashed>>
       /\ ent' = [id \in DOMAIN ent \cup DOMAIN C |->
                      IF id < next THEN PrefabToGroup(PrefabIn(ent, s), s)[id] ELSE C[id]]
    BY <1>6 DEF Instantiate, PrefabIn
<1> QED BY <1>7, <1>8, <1>9, <1>10

\* instantiate, whatever it is called for: no entity that there is changes.
LEMMA InstantiateStep ==
    ASSUME InWorld, NEW e \in DOMAIN ent, NEW count \in Nat, count >= 1,
           next + count * Len(Flatten(e)) <= MaxIds, Instantiate(e, count)
    PROVE  /\ next' \in next .. MaxIds /\ InOrder(ent', next') /\ UNCHANGED <<stream, saved>>
           /\ \A x \in DOMAIN ent : ent'[x] = ent[x]
<1>1. CASE ~ HasGroup(e)
    BY <1>1, InstantiatePlain
<1>2. CASE HasGroup(e) /\ ~ (Range(Flatten(e)) \subseteq DOMAIN ent)
  <2>1. UNCHANGED <<ent, next, stream, saved>>
    BY <1>2 DEF Instantiate, Crash
  <2> QED BY <2>1, InWorldIs
<1>3. CASE HasGroup(e) /\ Range(Flatten(e)) \subseteq DOMAIN ent
  <2>1. PICK s : s = Flatten(e)
    OBVIOUS
  <2>2. PICK m, C : /\ Copied(e, s, count, m, C) /\ next' = m
                    /\ ent' = [id \in DOMAIN ent \cup next .. m - 1 |->
                                   IF id < next THEN ent[id] ELSE C[id]]
                    /\ UNCHANGED <<stream, saved, crashed>>
    BY <1>3, <2>1, InstantiateGroup
  <2>3. /\ DOMAIN C = next .. m - 1 /\ World(C, Plain(m)) /\ Orderly(C)
        /\ \A x : Grouped(C, x) => \A i \in 1 .. Size(C, x) :
               Link(C, x, i) = Null.id \/ Link(C, x, i) \in next .. m - 1
    BY <2>2, CopiesInOrder
  <2>4. m \in next .. MaxIds /\ next \in Count .. MaxIds /\ InOrder(ent, next)
        /\ DOMAIN ent \subseteq 0 .. next - 1
    BY <2>2, CopiedIs, InWorldIs
  <2>5. InOrder(ent', m)
    BY <2>2, <2>3, <2>4, Extended
  <2>6. ASSUME NEW x \in DOMAIN ent PROVE ent'[x] = ent[x]
    BY <2>2, <2>4
  <2> QED BY <2>2, <2>4, <2>5, <2>6
<1> QED BY <1>1, <1>2, <1>3

SingleStream(t, n) ==
    /\ Len(t) = 1 /\ t \in Seq(Record(Plain(n)))
    /\ t[1].group = NoGroup /\ ReadAll(t)
GroupStream(t) ==
    /\ Len(t) \in Nat \ {0} /\ Len(t) <= MaxIds /\ t \in Seq(Record(Linked(Len(t))))
    /\ t[1].group # NoGroup /\ Orderly(RecordedOf(t)) /\ ReadAll(t)

\* The invariant of stream: a single entity's record, whose handles are as they
\* were, or a group's records.
InStream(t, n) == t = << >> \/ SingleStream(t, n) \/ GroupStream(t)

\* Of the record of an entity without a group nothing more is awaited.
LEMMA ReadOne ==
    ASSUME NEW r, r.group = NoGroup
    PROVE  ReadAll(<<r>>)
<1> DEFINE a == [n \in 0 .. 1 |-> 1 - n]
<1>1. PICK t : t = <<r>>
    OBVIOUS
<1>2. Len(t) = 1 /\ t[1] = r
    BY <1>1
<1>3. a \in [0 .. Len(t) -> Int] /\ a[0] = 1 /\ a[1] = 0
    BY <1>2
<1> HIDE DEF a
<1>4. \A i \in 1 .. Len(t) : i = 1
    BY <1>2
<1>5. Wanted(t, 1) = 0
    BY <1>2 DEF Wanted
<1>6. a[1] = a[1 - 1] - 1 + Wanted(t, 1) /\ a[1 - 1] > 0
    BY <1>3, <1>5
<1>7. ReadCounts(t, a)
    BY <1>2, <1>3, <1>4, <1>6 DEF ReadCounts
<1> QED BY <1>1, <1>3, <1>7 DEF ReadAll

LEMMA SingleMono ==
    ASSUME NEW n \in Nat, NEW m \in Nat, n <= m, NEW t, InStream(t, n)
    PROVE  InStream(t, m)
<1>1. Plain(n) \subseteq Plain(m)
    BY PlainMono
<1>2. Record(Plain(n)) \subseteq Record(Plain(m))
    BY <1>1, RecordMono
<1>3. Seq(Record(Plain(n))) \subseteq Seq(Record(Plain(m)))
  <2>1. PICK A, B : A = Record(Plain(n)) /\ B = Record(Plain(m))
    OBVIOUS
  <2>2. A \subseteq B
    BY <1>2, <2>1
  <2>3. Seq(A) \subseteq Seq(B)
    BY ONLY <2>2
  <2> QED BY <2>1, <2>3
<1> QED BY <1>3 DEF InStream, SingleStream

LEMMA SerializePlain ==
    ASSUME InWorld, NEW e \in DOMAIN ent, ~ HasGroup(e), Serialize(e)
    PROVE  /\ UNCHANGED <<ent, next, crashed>> /\ SingleStream(stream', next)
           /\ stream' = <<ent[e]>> /\ saved' = Now(<<e>>)
<1>1. UNCHANGED <<ent, next, crashed>> /\ stream' = <<ent[e]>> /\ saved' = Now(<<e>>)
    BY DEF Serialize
<1>2. ent[e] \in Record(Plain(next)) /\ ent[e].group = NoGroup
    BY InWorldIs DEF World, HasGroup, Grouped
<1>3. PICK r, S, t : r = ent[e] /\ S = Record(Plain(next)) /\ t = stream'
    OBVIOUS
<1>4. t = <<r>> /\ r \in S /\ r.group = NoGroup
    BY <1>1, <1>2, <1>3
<1>5. Len(t) = 1 /\ t \in Seq(S) /\ t[1] = r
    BY ONLY <1>4
<1>6. ReadAll(t)
    BY <1>4, ReadOne
<1>7. SingleStream(t, next)
    BY <1>3, <1>4, <1>5, <1>6 DEF SingleStream
<1> QED BY <1>1, <1>3, <1>7

LEMMA SerializeGroup ==
    ASSUME InWorld, NEW e \in DOMAIN ent, HasGroup(e), Serialize(e),
           NEW s, s = Flatten(e), Len(s) <= MaxIds, Range(s) \subseteq DOMAIN ent
    PROVE  /\ Whole(ent, next, e, s)
           /\ stream' = [i \in DOMAIN s |-> PrefabOnly(ent, s)[s[i]]]
           /\ ent' = PrefabToGroup(PrefabOnly(ent, s), s)
           /\ saved' = IF Apart(e) THEN Now(s) ELSE << >>
           /\ UNCHANGED <<next, crashed>>
           /\ GroupStream(stream') /\ Len(stream') = Len(s) /\ InOrder(ent', next)
<1>1. Whole(ent, next, e, s)
    BY WholeNow
<1>2. /\ stream' = [i \in DOMAIN s |-> PrefabOnly(ent, s)[s[i]]]
      /\ ent' = PrefabToGroup(PrefabOnly(ent, s), s)
      /\ saved' = IF Apart(e) THEN Now(s) ELSE << >>
      /\ UNCHANGED <<next, crashed>>
    BY DEF Serialize, PrefabOnly
<1>3. PICK t, W : t = stream' /\ W = ent'
    OBVIOUS
<1>4. next \in 0 .. MaxIds /\ FirstOwn(ent) /\ World(ent, Plain(next))
      /\ DOMAIN ent \subseteq 0 .. next - 1
    BY InWorldIs
<1>5. GroupStream(t) /\ Len(t) = Len(s)
  <2>1. t \in Seq(Record(Linked(Len(t)))) /\ Len(t) = Len(s) /\ Len(t) \in Nat \ {0}
        /\ t[1].group # NoGroup /\ Orderly(RecordedOf(t)) /\ ReadAll(t)
    BY <1>1, <1>2, <1>3, <1>4, SerializedStream
  <2> QED BY <2>1 DEF GroupStream
<1>6. World(W, Plain(next)) /\ Faded(ent, W) /\ Orderly(W)
    BY <1>1, <1>2, <1>3, <1>4, SerializedWorld
<1>7. W = [x \in DOMAIN W |-> W[x]]
    BY <1>2, <1>3, PatchedDomains
<1>8. FirstOwn(W)
  <2>1. ASSUME NEW x, Grouped(W, x), x \in First \/ Link(W, x, 1) \in First
        PROVE  Link(W, x, 1) \in {Null.id, x}
    <3>1. Grouped(ent, x) /\ x \in DOMAIN ent
        BY <1>6, <2>1 DEF Faded, Grouped
    <3>2. 1 \in 1 .. Size(ent, x)
        BY <1>4, <3>1, PlainIs, WorldIs
    <3>3. Link(W, x, 1) = Link(ent, x, 1) \/ Link(W, x, 1) = Null.id
        BY <1>6, <3>1, <3>2 DEF Faded
    <3>4. Null.id \notin First
        BY Handles DEF First
    <3> QED BY <1>4, <2>1, <3>1, <3>3, <3>4 DEF FirstOwn
  <2> QED BY <2>1 DEF FirstOwn
<1>9. InOrder(W, next)
    BY <1>4, <1>6, <1>7, <1>8 DEF InOrder, Faded
<1> QED BY <1>1, <1>2, <1>3, <1>5, <1>9

\* serialize, whatever it is called for.
LEMMA SerializeStep ==
    ASSUME InWorld, InStream(stream, next), NEW e \in DOMAIN ent, Len(Flatten(e)) <= MaxIds,
           Serialize(e)
    PROVE  /\ next' = next /\ InOrder(ent', next) /\ InStream(stream', next)
<1>1. CASE ~ HasGroup(e)
    BY <1>1, SerializePlain, InWorldIs DEF InStream
<1>2. CASE HasGroup(e) /\ ~ (Range(Flatten(e)) \subseteq DOMAIN ent)
    BY <1>2, InWorldIs DEF Serialize, Crash
<1>3. CASE HasGroup(e) /\ Range(Flatten(e)) \subseteq DOMAIN ent
  <2>1. PICK s : s = Flatten(e)
    OBVIOUS
  <2>2. GroupStream(stream') /\ InOrder(ent', next) /\ next' = next
    BY <1>3, <2>1, SerializeGroup
  <2> QED BY <2>2 DEF InStream
<1> QED BY <1>1, <1>2, <1>3

\* Whatever is on the stream is read to its end.
LEMMA WholeRead ==
    ASSUME next \in Nat, NEW n \in 0 .. MaxIds, InStream(stream, n), stream # << >>
    PROVE  Read = Len(stream) /\ Len(stream) \in Nat \ {0} /\ DOMAIN stream = 1 .. Len(stream)
<1>1. PICK H : stream \in Seq(Record(H)) /\ ReadAll(stream) /\ Len(stream) \in Nat \ {0}
    BY DEF InStream, SingleStream, GroupStream
<1>2. DOMAIN stream = 1 .. Len(stream)
    BY <1>1
<1>3. ASSUME NEW i \in 1 .. Len(stream) PROVE Wanted(stream, i) \in Int
  <2>1. PICK r : r = stream[i]
    OBVIOUS
  <2>2. r \in Record(H)
    BY <1>1, <2>1, ElementOfSeq
  <2>3. Len(r.group) \in Nat
    BY <2>2, RecordIs
  <2> QED BY <2>1, <2>3 DEF Wanted
<1> QED BY <1>1, <1>2, <1>3, ReadIs

\* deserialize of an entity that has no group.
LEMMA DeserializePlain ==
    ASSUME InWorld, SingleStream(stream, next), Deserialize
    PROVE  /\ next' = next + 1 /\ next' <= MaxIds /\ UNCHANGED <<stream, saved, crashed>>
           /\ DOMAIN ent' = DOMAIN ent \cup {next} /\ ent'[next] = stream[1]
           /\ \A x \in DOMAIN ent : ent'[x] = ent[x]
           /\ InOrder(ent', next')
<1>1. /\ next \in Nat /\ next \in Count .. MaxIds /\ next \in 0 .. MaxIds
      /\ InOrder(ent, next) /\ DOMAIN ent \subseteq 0 .. next - 1
    BY InWorldIs
<1>2. Len(stream) = 1 /\ stream[1].group = NoGroup /\ stream # << >>
      /\ stream \in Seq(Record(Plain(next)))
    BY DEF SingleStream
<1>3. Read = 1
    BY <1>1, <1>2, WholeRead DEF InStream
<1>4. PICK m : m = next + 1
    OBVIOUS
<1>5. /\ next' = m /\ m <= MaxIds /\ UNCHANGED <<stream, saved, crashed>>
      /\ ent' = [id \in DOMAIN ent \cup Range([i \in 1 .. Read |-> next + i - 1]) |->
                    IF id < next THEN ent[id] ELSE stream[id - next + 1]]
    BY <1>2, <1>3, <1>4 DEF Deserialize
<1>6. Range([i \in 1 .. Read |-> next + i - 1]) = next .. m - 1
  <2>1. [i \in 1 .. 1 |-> next + i - 1] = [i \in 1 .. 1 |-> next]
    BY <1>1
  <2>2. Range([i \in 1 .. 1 |-> next]) = {next}
    BY DEF Range
  <2>3. next .. m - 1 = {next}
    BY <1>1, <1>4
  <2> QED BY <1>3, <2>1, <2>2, <2>3
<1>7. PICK C : C = [id \in next .. m - 1 |-> stream[id - next + 1]]
    OBVIOUS
<1>8. m \in next .. MaxIds /\ m \in Nat /\ next <= m
    BY <1>1, <1>4, <1>5
<1>9. stream[1] \in Record(Plain(m))
  <2>1. stream[1] \in Record(Plain(next))
    BY <1>2, ElementOfSeq
  <2> QED BY <1>1, <1>8, <2>1, PlainMono, RecordMono
<1>10. \A id \in next .. m - 1 : id = next /\ C[id] = stream[1]
    BY <1>1, <1>4, <1>7
<1>11. DOMAIN C = next .. m - 1 /\ World(C, Plain(m)) /\ \A x \in DOMAIN C : C[x].group = NoGroup
    BY <1>2, <1>7, <1>9, <1>10 DEF World
<1>12. ent' = [id \in DOMAIN ent \cup next .. m - 1 |-> IF id < next THEN ent[id] ELSE C[id]]
  <2>1. ASSUME NEW id \in DOMAIN ent \cup next .. m - 1
        PROVE  (IF id < next THEN ent[id] ELSE C[id])
                   = (IF id < next THEN ent[id] ELSE stream[id - next + 1])
    <3>1. CASE id \in next .. m - 1
        BY <1>7, <3>1
    <3>2. CASE id \in 0 .. next - 1
        BY <1>1, <3>2
    <3> QED BY <1>1, <3>1, <3>2
  <2>2. PICK S : S = DOMAIN ent \cup next .. m - 1
    OBVIOUS
  <2>3. [id \in S |-> IF id < next THEN ent[id] ELSE C[id]]
            = [id \in S |-> IF id < next THEN ent[id] ELSE stream[id - next + 1]]
    BY <2>1, <2>2
  <2>4. ent' = [id \in S |-> IF id < next THEN ent[id] ELSE stream[id - next + 1]]
    BY <1>5, <1>6, <2>2, Zenon
  <2> QED BY <2>2, <2>3, <2>4
<1>13. InOrder(ent', m)
    BY <1>1, <1>8, <1>11, <1>12, ExtendedPlainly
<1>14. ASSUME NEW x \in DOMAIN ent PROVE ent'[x] = ent[x]
    BY <1>1, <1>12
<1>15. next \in next .. m - 1 /\ next .. m - 1 = {next}
    BY <1>1, <1>4
<1>16. ent'[next] = stream[1] /\ DOMAIN ent' = DOMAIN ent \cup {next}
    BY <1>1, <1>10, <1>12, <1>15
<1> QED BY <1>4, <1>5, <1>13, <1>14, <1>16

\* deserialize of one that has: the numbers are resolved to the new entities.
LEMMA DeserializeGroup ==
    ASSUME InWorld, GroupStream(stream), Deserialize
    PROVE  \E m, D : /\ ReadGroup(stream, m, D) /\ next' = m
                     /\ ent' = [id \in DOMAIN ent \cup next .. m - 1 |->
                                   IF id < next THEN ent[id] ELSE D[id]]
                     /\ UNCHANGED <<stream, saved, crashed>>
<1>1. /\ next \in Nat /\ next \in Count .. MaxIds /\ next \in 0 .. MaxIds
      /\ World(ent, Plain(next)) /\ DOMAIN ent \subseteq 0 .. next - 1
    BY InWorldIs
<1>2. PICK L : L = Len(stream)
    OBVIOUS
<1>3. L \in Nat \ {0} /\ L <= MaxIds /\ stream \in Seq(Record(Linked(L))) /\ L \in 0 .. MaxIds
      /\ stream[1].group # NoGroup /\ Orderly(RecordedOf(stream)) /\ stream # << >>
    BY <1>2, GroupsAssumption DEF GroupStream
<1>4. Read = L
    BY <1>1, <1>2, <1>3, WholeRead DEF InStream
<1>5. PICK m, D : m = next + L
                  /\ D = [id \in next .. m - 1 |-> Patch(stream[id - next + 1], Resolve(Fresh(L)))]
    OBVIOUS
<1>6. PICK world : world = [id \in DOMAIN ent \cup Range(Fresh(L)) |->
                               IF id < next THEN ent[id] ELSE stream[id - next + 1]]
    OBVIOUS
<1>7. /\ next' = m /\ m <= MaxIds /\ UNCHANGED <<stream, saved, crashed>>
      /\ ent' = PrefabToGroup(world, Fresh(L))
    BY <1>3, <1>4, <1>5, <1>6 DEF Deserialize, Fresh
<1>8. ReadGroup(stream, m, D)
    BY <1>1, <1>2, <1>3, <1>5, <1>7 DEF ReadGroup
<1>9. /\ IsMembers(Fresh(L)) /\ Len(Fresh(L)) = L /\ Range(Fresh(L)) = next .. m - 1
      /\ m \in Nat /\ m \in next .. MaxIds
    BY <1>2, <1>8, FreshIs
<1>10. DOMAIN world = DOMAIN ent \cup next .. m - 1
    BY <1>6, <1>9
<1>11. PICK H : H = Linked(L) \cup Plain(next)
    OBVIOUS
<1>12. Resolvable(H, L)
    BY <1>1, <1>3, <1>11, MixedResolvable
<1>13. ASSUME NEW id \in DOMAIN world
       PROVE  /\ world[id] \in Record(H)
              /\ id < next => id \notin next .. m - 1 /\ world[id] = ent[id]
              /\ ~ (id < next) => id \in next .. m - 1 /\ world[id] = stream[id - next + 1]
  <2>1. CASE id \in DOMAIN ent
    <3>1. id < next /\ id \notin next .. m - 1 /\ world[id] = ent[id]
        BY <1>1, <1>6, <1>10, <1>13, <2>1
    <3>2. ent[id] \in Record(H)
        BY <1>1, <1>11, <2>1, RecordMono DEF World
    <3> QED BY <3>1, <3>2
  <2>2. CASE id \in next .. m - 1
    <3>1. ~ (id < next) /\ world[id] = stream[id - next + 1]
        BY <1>1, <1>6, <1>10, <1>13, <2>2
    <3>2. PICK k : k = id - next + 1
        OBVIOUS
    <3>3. k \in 1 .. L
        BY <1>1, <1>3, <1>5, <2>2, <3>2
    <3>4. stream[k] \in Record(Linked(L))
        BY <1>2, <1>3, <3>3, ElementOfSeq
    <3>5. stream[k] \in Record(H)
        BY <1>11, <3>4, RecordMono
    <3> QED BY <2>2, <3>1, <3>2, <3>5
  <2> QED BY <1>10, <1>13, <2>1, <2>2
<1>14. ASSUME NEW id \in DOMAIN world
       PROVE  PrefabToGroup(world, Fresh(L))[id] = IF id < next THEN ent[id] ELSE D[id]
  <2>1. world[id] \in Record(H)
    BY <1>13
  <2>2. PrefabToGroup(world, Fresh(L))[id] =
            IF id \in Range(Fresh(L)) THEN Patch(world[id], Resolve(Fresh(L))) ELSE world[id]
    BY <1>9, <1>12, <2>1, Restored
  <2>3. CASE id < next
    BY <1>9, <1>13, <2>2, <2>3
  <2>4. CASE ~ (id < next)
    BY <1>5, <1>9, <1>13, <2>2, <2>4
  <2> QED BY <2>3, <2>4
<1>15. ent' = [id \in DOMAIN world |-> IF id < next THEN ent[id] ELSE D[id]]
  <2>1. PrefabToGroup(world, Fresh(L))
            = [id \in DOMAIN world |-> PrefabToGroup(world, Fresh(L))[id]]
    BY PatchedDomains
  <2>2. [id \in DOMAIN world |-> PrefabToGroup(world, Fresh(L))[id]]
            = [id \in DOMAIN world |-> IF id < next THEN ent[id] ELSE D[id]]
    BY <1>14
  <2> QED BY <1>7, <2>1, <2>2
<1> QED BY <1>7, <1>8, <1>10, <1>15

\* deserialize, whatever is on the stream.
LEMMA DeserializeStep ==
    ASSUME InWorld, InStream(stream, next), Deserialize
    PROVE  /\ next' \in next .. MaxIds /\ InOrder(ent', next') /\ UNCHANGED <<stream, saved>>
           /\ \A x \in DOMAIN ent : ent'[x] = ent[x]
<1>1. stream # << >>
    BY DEF Deserialize
<1>2. CASE SingleStream(stream, next)
    BY <1>2, DeserializePlain, InWorldIs
<1>3. CASE GroupStream(stream)
  <2>1. PICK m, D : /\ ReadGroup(stream, m, D) /\ next' = m
                    /\ ent' = [id \in DOMAIN ent \cup next .. m - 1 |->
                                  IF id < next THEN ent[id] ELSE D[id]]
                    /\ UNCHANGED <<stream, saved, crashed>>
    BY <1>3, DeserializeGroup
  <2>2. /\ DOMAIN D = next .. m - 1 /\ World(D, Plain(m)) /\ Orderly(D)
        /\ \A x : Grouped(D, x) => \A i \in 1 .. Size(D, x) :
               Link(D, x, i) = Null.id \/ Link(D, x, i) \in next .. m - 1
    BY <2>1, ReadInOrder
  <2>3. m \in next .. MaxIds /\ next \in Count .. MaxIds /\ InOrder(ent, next)
        /\ DOMAIN ent \subseteq 0 .. next - 1
    BY <2>1, FreshIs, InWorldIs
  <2>4. InOrder(ent', m)
    BY <2>1, <2>2, <2>3, Extended
  <2>5. ASSUME NEW x \in DOMAIN ent PROVE ent'[x] = ent[x]
    BY <2>1, <2>3
  <2> QED BY <2>1, <2>3, <2>4, <2>5
<1> QED BY <1>1, <1>2, <1>3 DEF InStream

\* The invariant of saved: the records on the stream are those of the entities
\* that were saved, with numbers for the handles among them.
Ids(v) == [i \in DOMAIN v |-> v[i].id]
SavedSingle(v, t, n) ==
    SingleStream(t, n) /\ Len(v) = 1 /\ v[1].was = t[1]
SavedGroup(v, t, n) ==
    /\ GroupStream(t) /\ Len(v) = Len(t) /\ DOMAIN v = 1 .. Len(t) /\ IsMembers(Ids(v))
    /\ \A i \in 1 .. Len(t) :
          v[i].was \in Record(Plain(n)) /\ t[i] = Patch(v[i].was, NumbersOnly(Ids(v)))
    /\ Flattened(RecordedOf(t), 0) = [i \in 1 .. Len(t) |-> i - 1]
InSaved(v, t, n) == v = << >> \/ SavedSingle(v, t, n) \/ SavedGroup(v, t, n)

LEMMA SavedMono ==
    ASSUME NEW n \in Nat, NEW m \in Nat, n <= m, NEW t, NEW v, InSaved(v, t, n)
    PROVE  InSaved(v, t, m)
<1>1. Record(Plain(n)) \subseteq Record(Plain(m))
    BY PlainMono, RecordMono
<1>2. SingleStream(t, n) => SingleStream(t, m)
  <2>1. PICK A, B : A = Record(Plain(n)) /\ B = Record(Plain(m))
    OBVIOUS
  <2>2. A \subseteq B
    BY <1>1, <2>1
  <2>3. Seq(A) \subseteq Seq(B)
    BY ONLY <2>2
  <2> QED BY <2>1, <2>3 DEF SingleStream
<1>3. SavedGroup(v, t, n) => SavedGroup(v, t, m)
    BY <1>1 DEF SavedGroup
<1> QED BY <1>2, <1>3 DEF InSaved, SavedSingle

\* The numbers that serialize gives to the members of a group, where none is
\* listed twice.
Numbered(n, V, e, s, t) ==
    /\ n \in 0 .. MaxIds /\ Whole(V, n, e, s) /\ IsInjective(s) /\ V[e].group[1] = Old(e)
    /\ t = [i \in DOMAIN s |-> PrefabOnly(V, s)[s[i]]]

LEMMA NumberedIs ==
    ASSUME NEW n, NEW V, NEW e, NEW s, NEW t, Numbered(n, V, e, s, t)
    PROVE  /\ IsMembers(s) /\ DOMAIN s = 1 .. Len(s) /\ Len(s) \in Nat \ {0} /\ s[1] = e
           /\ Len(s) \in 0 .. MaxIds
           /\ \A x \in Range(s) : NumberIn(s)[x] \in 0 .. Len(s) - 1 /\ s[NumberIn(s)[x] + 1] = x
           /\ \A i \in 1 .. Len(s) : NumberIn(s)[s[i]] = i - 1 /\ s[i] \in Range(s)
           /\ t \in Seq(Record(Linked(Len(s)))) /\ Len(t) = Len(s)
           /\ \A i \in 1 .. Len(s) : /\ t[i] = Patch(V[s[i]], NumbersOnly(s))
                                     /\ V[s[i]] \in Record(Plain(n))
           /\ \A x \in Range(s) : \A j \in 1 .. Size(V, x) :
                 V[x].group[j] = Old(Link(V, x, j)) /\ Link(V, x, j) \in Range(s)
           /\ Range(s) \subseteq Id /\ Range(s) \subseteq DOMAIN V
<1>1. n \in 0 .. MaxIds /\ Whole(V, n, e, s) /\ IsInjective(s) /\ V[e].group[1] = Old(e)
      /\ t = [i \in DOMAIN s |-> PrefabOnly(V, s)[s[i]]]
    BY DEF Numbered
<1>2. /\ IsMembers(s) /\ Len(s) \in Nat \ {0} /\ s[1] = Link(V, e, 1)
      /\ \A x \in Range(s) : \A i \in 1 .. Size(V, x) :
            \/ V[x].group[i] = Old(Link(V, x, i)) /\ Link(V, x, i) \in Range(s)
            \/ V[x].group[i] = Null /\ Link(V, x, i) = Null.id /\ x = Link(V, e, 1) /\ x # e
      /\ \A x \in Range(s) : V[x] \in Record(Plain(n)) /\ Size(V, x) \in Nat
      /\ Range(s) \subseteq Id /\ Null.id \notin Range(s)
    BY <1>1, WholeIs
<1>3. Link(V, e, 1) = e
    BY <1>1, Handles DEF Link
<1>4. /\ DOMAIN s = 1 .. Len(s) /\ Len(s) \in 0 .. MaxIds
      /\ \A i \in 1 .. Len(s) : s[i] \in Range(s)
    BY <1>2, MembersAre
<1>5. /\ \A x \in Range(s) : NumberIn(s)[x] \in 0 .. Len(s) - 1 /\ s[NumberIn(s)[x] + 1] = x
      /\ \A i \in 1 .. Len(s) : NumberIn(s)[s[i]] = i - 1
    BY <1>1, <1>2, NumberInIs
<1>6. t \in Seq(Record(Linked(Len(t)))) /\ Len(t) = Len(s)
    BY <1>1, SerializedStream
<1>7. ASSUME NEW i \in 1 .. Len(s) PROVE t[i] = Patch(V[s[i]], NumbersOnly(s))
  <2>1. PICK r : r = PrefabOnly(V, s)[s[i]]
    OBVIOUS
  <2>2. r = Patch(V[s[i]], NumbersOnly(s))
    BY <1>1, <2>1, SerializedRecords
  <2> QED BY <1>1, <1>4, <2>1, <2>2
<1>8. Range(s) \subseteq DOMAIN V
    BY <1>1 DEF Whole
<1> QED BY <1>2, <1>3, <1>4, <1>5, <1>6, <1>7, <1>8

LEMMA NumberedLinks ==
    ASSUME NEW n, NEW V, NEW e, NEW s, NEW t, Numbered(n, V, e, s, t),
           NEW i \in 1 .. Len(s), NEW R, R = RecordedOf(t)
    PROVE  /\ Grouped(V, s[i]) <=> Grouped(R, i - 1)
           /\ Grouped(V, s[i]) => /\ Size(R, i - 1) = Size(V, s[i])
                                  /\ \A j \in 1 .. Size(V, s[i]) :
                                        Link(R, i - 1, j) = NumberIn(s)[Link(V, s[i], j)]
<1>1. PICK x, r, u, q : x = s[i] /\ r = V[x] /\ u = t[i] /\ q = NumbersOnly(s)
    OBVIOUS
<1>2. n \in 0 .. MaxIds
    BY DEF Numbered
<1>3. /\ IsMembers(s) /\ x \in Range(s) /\ u = Patch(r, q) /\ r \in Record(Plain(n))
      /\ t \in Seq(Record(Linked(Len(s)))) /\ Len(t) = Len(s) /\ x \in DOMAIN V
      /\ Range(s) \subseteq Id
      /\ \A j \in 1 .. Size(V, x) : r.group[j] = Old(Link(V, x, j)) /\ Link(V, x, j) \in Range(s)
    BY <1>1, NumberedIs
<1>4. i - 1 \in DOMAIN R /\ R[i - 1] = u
  <2>1. i \in 1 .. Len(t)
    BY <1>3
  <2>2. PICK H : H = Linked(Len(s))
    OBVIOUS
  <2>3. t \in Seq(Record(H))
    BY <1>3, <2>2
  <2>4. i - 1 \in 0 .. Len(t) - 1 /\ R[i - 1] = t[i] /\ DOMAIN R = 0 .. Len(t) - 1
    BY <2>1, <2>3, RecordedIs
  <2> QED BY <1>1, <2>4
<1>5. Maps(Plain(n), Linked(Len(s)), q)
  <2>1. \A h \in Plain(n) : q[h] \in Linked(Len(s))
    BY <1>1, <1>2, <1>3, NumbersResolve
  <2> QED BY <2>1 DEF Maps
<1>6. /\ Len(u.group) = Len(r.group) /\ (u.group = << >> <=> r.group = << >>)
      /\ \A j \in 1 .. Len(r.group) : u.group[j] = q[r.group[j]]
    BY ONLY <1>3, <1>5, PatchMaps
<1>7. Grouped(V, x) <=> Grouped(R, i - 1)
    BY <1>1, <1>3, <1>4, <1>6 DEF Grouped, NoGroup
<1>8. Size(R, i - 1) = Size(V, x) /\ Size(V, x) = Len(r.group)
    BY <1>1, <1>4, <1>6 DEF Size
<1>9. ASSUME NEW j \in 1 .. Size(V, x)
      PROVE  Link(R, i - 1, j) = NumberIn(s)[Link(V, x, j)]
  <2>1. PICK y : y = Link(V, x, j)
    OBVIOUS
  <2>2. r.group[j] = Old(y) /\ y \in Range(s) /\ u.group[j] = q[Old(y)]
    BY <1>3, <1>6, <1>8, <2>1
  <2>3. Null.id \notin Range(s)
    BY <1>3, Handles
  <2>4. q[Old(y)] = New(NumberIn(s)[y])
    BY <1>1, <1>3, <2>2, <2>3, NumberInIs
  <2>5. Link(R, i - 1, j) = NumberIn(s)[y]
    BY <1>4, <2>2, <2>4, Handles DEF Link
  <2> QED BY <2>1, <2>5
<1> QED BY <1>1, <1>7, <1>8, <1>9

\* The records are flattened to all of them, in the order of the stream.
LEMMA NumberedFlat ==
    ASSUME NEW n, NEW V, NEW e, NEW s, NEW t, Numbered(n, V, e, s, t)
    PROVE  Flattened(RecordedOf(t), 0) = [i \in 1 .. Len(s) |-> i - 1]
<1>1. PICK R : R = RecordedOf(t)
    OBVIOUS
<1>2. /\ IsMembers(s) /\ DOMAIN s = 1 .. Len(s) /\ Len(s) \in Nat \ {0} /\ s[1] = e
      /\ Len(s) \in 0 .. MaxIds
      /\ \A x \in Range(s) : NumberIn(s)[x] \in 0 .. Len(s) - 1 /\ s[NumberIn(s)[x] + 1] = x
      /\ \A i \in 1 .. Len(s) : NumberIn(s)[s[i]] = i - 1 /\ s[i] \in Range(s)
      /\ t \in Seq(Record(Linked(Len(s)))) /\ Len(t) = Len(s)
      /\ \A x \in Range(s) : \A j \in 1 .. Size(V, x) : Link(V, x, j) \in Range(s)
      /\ Range(s) \subseteq Id
    BY NumberedIs
<1>3. n \in 0 .. MaxIds /\ Whole(V, n, e, s) /\ s = Flattened(V, e)
    BY DEF Numbered, Whole
<1>4. Leads(V)
    BY <1>3, WholeIs
<1>5. Leads(R)
  <2>1. World(R, Linked(Len(s)))
    BY <1>1, <1>2, RecordedIs
  <2> QED BY <1>2, <2>1, LinkedIs, WorldIs
<1>6. PICK A, c : A = Range(s) /\ c = [y \in A |-> NumberIn(s)[y]]
    OBVIOUS
<1>7. A \subseteq Places /\ c \in [A -> Places]
  <2>1. A \subseteq Places
    BY <1>2, <1>6 DEF Places
  <2>2. ASSUME NEW y \in A PROVE NumberIn(s)[y] \in Places
    <3>1. NumberIn(s)[y] \in 0 .. Len(s) - 1 /\ 0 .. Len(s) - 1 \subseteq Id
        BY <1>2, <1>6, PlainIs
    <3> QED BY <3>1 DEF Places
  <2> QED BY <1>6, <2>1, <2>2
<1>8. ASSUME NEW x \in A
      PROVE  /\ Grouped(V, x) <=> Grouped(R, c[x])
             /\ Grouped(V, x) =>
                    /\ Size(R, c[x]) = Size(V, x)
                    /\ \A j \in 1 .. Size(V, x) :
                           Link(V, x, j) \in A /\ Link(R, c[x], j) = c[Link(V, x, j)]
  <2>1. PICK i \in 1 .. Len(s) : s[i] = x
    BY <1>2, <1>6, MembersAre
  <2>2. c[x] = i - 1
    BY <1>2, <1>6, <2>1
  <2>3. /\ Grouped(V, x) <=> Grouped(R, i - 1)
        /\ Grouped(V, x) => /\ Size(R, i - 1) = Size(V, x)
                            /\ \A j \in 1 .. Size(V, x) :
                                   Link(R, i - 1, j) = NumberIn(s)[Link(V, x, j)]
    BY <1>1, <2>1, NumberedLinks
  <2>4. \A j \in 1 .. Size(V, x) : Link(V, x, j) \in A
    BY <1>2, <1>6
  <2> QED BY <1>6, <2>2, <2>3, <2>4
<1>9. Mirrored(V, R, A, c)
    BY <1>8 DEF Mirrored
<1>10. e \in A /\ c[e] = 0
  <2>1. 1 \in 1 .. Len(s)
    BY <1>2
  <2> QED BY <1>2, <1>6, <2>1
<1>11. Flattened(R, c[e]) = Mapped(c, s)
    BY <1>3, <1>4, <1>5, <1>7, <1>9, <1>10, FlattenedSame
<1>12. \A i \in 1 .. Len(s) : c[s[i]] = i - 1
    BY <1>2, <1>6
<1>13. Mapped(c, s) = [i \in 1 .. Len(s) |-> i - 1]
    BY <1>2, <1>12 DEF Mapped
<1> QED BY <1>1, <1>10, <1>11, <1>13

\* serialize saves what it writes.
LEMMA SerializeSaved ==
    ASSUME InWorld, InSaved(saved, stream, next), NEW e \in DOMAIN ent, Len(Flatten(e)) <= MaxIds,
           Serialize(e)
    PROVE  InSaved(saved', stream', next)
<1>1. CASE ~ HasGroup(e)
  <2>1. SingleStream(stream', next) /\ stream' = <<ent[e]>> /\ saved' = Now(<<e>>)
    BY <1>1, SerializePlain
  <2>2. Len(Now(<<e>>)) = 1 /\ Now(<<e>>)[1] = [id |-> e, was |-> ent[e]]
    BY DEF Now
  <2>3. Len(saved') = 1 /\ saved'[1].was = stream'[1]
    BY <2>1, <2>2
  <2> QED BY <2>1, <2>3 DEF InSaved, SavedSingle
<1>2. CASE HasGroup(e) /\ ~ (Range(Flatten(e)) \subseteq DOMAIN ent)
  <2>1. UNCHANGED <<stream, saved>>
    BY <1>2 DEF Serialize, Crash
  <2> QED BY <2>1
<1>3. CASE HasGroup(e) /\ Range(Flatten(e)) \subseteq DOMAIN ent
  <2>1. PICK s, t, v : s = Flatten(e) /\ t = stream' /\ v = Now(s)
    OBVIOUS
  <2>2. /\ Whole(ent, next, e, s) /\ GroupStream(t) /\ Len(t) = Len(s)
        /\ t = [i \in DOMAIN s |-> PrefabOnly(ent, s)[s[i]]]
        /\ saved' = IF Apart(e) THEN v ELSE << >>
    BY <1>3, <2>1, SerializeGroup
  <2>3. CASE Apart(e)
    <3>1. Numbered(next, ent, e, s, t)
        BY <1>3, <2>1, <2>2, <2>3, InWorldIs DEF Numbered, Apart
    <3>2. /\ IsMembers(s) /\ DOMAIN s = 1 .. Len(s)
          /\ \A i \in 1 .. Len(s) : /\ t[i] = Patch(ent[s[i]], NumbersOnly(s))
                                    /\ ent[s[i]] \in Record(Plain(next))
        BY <3>1, NumberedIs
    <3>3. Flattened(RecordedOf(t), 0) = [i \in 1 .. Len(s) |-> i - 1]
        BY <3>1, NumberedFlat
    <3>4. /\ DOMAIN v = 1 .. Len(s) /\ v \in Seq(Range(v)) /\ Len(v) = Len(s)
          /\ \A i \in 1 .. Len(s) : v[i].id = s[i] /\ v[i].was = ent[s[i]]
      <4>1. Len(s) \in Nat /\ v = [i \in 1 .. Len(s) |-> [id |-> s[i], was |-> ent[s[i]]]]
        BY <2>1, <3>2 DEF Now, IsMembers
      <4> QED BY <4>1 DEF Range
    <3>5. Ids(v) = s
      <4>1. s = [i \in 1 .. Len(s) |-> s[i]]
        BY <3>2 DEF IsMembers
      <4>2. [i \in 1 .. Len(s) |-> v[i].id] = [i \in 1 .. Len(s) |-> s[i]]
        BY <3>4
      <4> QED BY <3>4, <4>1, <4>2 DEF Ids
    <3>6. SavedGroup(v, t, next)
        BY <2>2, <3>2, <3>3, <3>4, <3>5 DEF SavedGroup
    <3> QED BY <2>1, <2>2, <2>3, <3>6 DEF InSaved
  <2>4. CASE ~ Apart(e)
    BY <2>2, <2>4 DEF InSaved
  <2> QED BY <2>3, <2>4
<1> QED BY <1>1, <1>2, <1>3

\* The entities are in order, what was written can be read to its end, and it
\* is what was there.
GroupsInv ==
    InWorld /\ InStream(stream, next) /\ InSaved(saved, stream, next)

\* The edits.
LEMMA EditStep ==
    ASSUME InWorld, Edit
    PROVE  /\ UNCHANGED <<next, stream, saved>> /\ edits' = edits + 1 /\ InOrder(ent', next)
<1>1. /\ InOrder(ent, next) /\ next \in 0 .. MaxIds /\ next \in Count .. MaxIds /\ next \in Nat
      /\ First \subseteq 0 .. next - 1 /\ Count \in Nat
    BY InWorldIs, GroupsAssumption DEF First
<1>2. \A x \in First : Old(x) \in Plain(next)
    BY <1>1, PlainIs
<1>3. ASSUME NEW e \in First \cap DOMAIN ent, NEW f \in First \cap DOMAIN ent, SetRef(e, Old(f))
      PROVE  UNCHANGED <<next, stream, saved>> /\ edits' = edits + 1 /\ InOrder(ent', next)
    BY <1>1, <1>2, <1>3, RefSet DEF SetRef
<1>4. ASSUME NEW e \in First \cap DOMAIN ent, NEW n \in 1 .. Count - 1,
             NEW members \in Injection(1 .. n, First \cap DOMAIN ent), SetGroup(e, members)
      PROVE  UNCHANGED <<next, stream, saved>> /\ edits' = edits + 1 /\ InOrder(ent', next)
  <2>1. members \in [1 .. n -> First \cap DOMAIN ent]
    BY DEF Injection
  <2>2. n \in Nat /\ members \in Seq(First \cap DOMAIN ent) /\ Len(members) = n
    BY <1>1, <2>1
  <2>3. PICK all : all = <<e>> \o members
    OBVIOUS
  <2>4. all \in Seq(First) /\ Len(all) = n + 1 /\ all[1] = e
        /\ \A i \in 1 .. n + 1 : all[i] \in First
    BY <2>2, <2>3
  <2>5. PICK g : g = [i \in 1 .. n + 1 |-> Old(all[i])]
    OBVIOUS
  <2>6. \A i \in 1 .. n + 1 : g[i] = Old(all[i]) /\ g[i] \in Plain(next) /\ g[i].id \in First
    BY <1>2, <2>4, <2>5, Handles
  <2>7. g \in Seq(Plain(next)) /\ Len(g) = n + 1
    BY <2>2, <2>5, <2>6
  <2>8. g[1] = Old(e) /\ Len(g) \in Nat \ {0} /\ \A i \in 2 .. Len(g) : g[i].id \in First
    BY <2>2, <2>4, <2>6, <2>7
  <2>9. ent' = [ent EXCEPT ![e].group = g]
        /\ UNCHANGED <<next, stream, saved>> /\ edits' = edits + 1
    BY <1>4, <2>2, <2>3, <2>5 DEF SetGroup
  <2> QED BY <1>1, <2>7, <2>8, <2>9, GroupSet
<1>5. ASSUME NEW e \in First \cap DOMAIN ent, Destroy(e)
      PROVE  UNCHANGED <<next, stream, saved>> /\ edits' = edits + 1 /\ InOrder(ent', next)
    BY <1>1, <1>5, Removed DEF Destroy, HasGroup
<1> QED BY <1>3, <1>4, <1>5 DEF Edit

LEMMA GroupsStep ==
    ASSUME GroupsInv, [Next]_vars
    PROVE  GroupsInv'
<1>1. /\ InWorld /\ InStream(stream, next) /\ InSaved(saved, stream, next)
      /\ next \in Nat /\ next \in Count .. MaxIds
      /\ edits \in Nat /\ Count \in Nat /\ MaxIds \in Nat
    BY InWorldIs, GroupsAssumption DEF GroupsInv
<1>2. ASSUME next' \in next .. MaxIds, edits' \in Nat, InOrder(ent', next'),
             UNCHANGED <<stream, saved>>
      PROVE  GroupsInv'
  <2>1. next' \in Nat /\ next <= next' /\ next' \in Count .. MaxIds
    BY <1>1, <1>2
  <2>2. InStream(stream, next') /\ InSaved(saved, stream, next')
    BY <1>1, <2>1, SingleMono, SavedMono
  <2> QED BY <1>2, <2>1, <2>2 DEF GroupsInv, InWorld
<1>3. CASE Edit
    BY <1>1, <1>2, <1>3, EditStep
<1>4. ASSUME UNCHANGED edits, NEW e \in DOMAIN ent, NEW count \in 1 .. MaxCopies,
             next + count * Len(Flatten(e)) <= MaxIds, Instantiate(e, count)
      PROVE  GroupsInv'
  <2>1. count \in Nat /\ count >= 1
    BY GroupsAssumption
  <2> QED BY <1>1, <1>2, <1>4, <2>1, InstantiateStep
<1>5. ASSUME UNCHANGED edits, NEW e \in DOMAIN ent, Len(Flatten(e)) <= MaxIds, Serialize(e)
      PROVE  GroupsInv'
  <2>1. next' = next /\ InOrder(ent', next) /\ InStream(stream', next)
    BY <1>1, <1>5, SerializeStep
  <2>2. InSaved(saved', stream', next)
    BY <1>1, <1>5, SerializeSaved
  <2> QED BY <1>1, <1>5, <2>1, <2>2 DEF GroupsInv, InWorld
<1>6. ASSUME UNCHANGED edits, Deserialize
      PROVE  GroupsInv'
    BY <1>1, <1>2, <1>6, DeserializeStep
<1>7. CASE UNCHANGED vars
    BY <1>1, <1>7 DEF vars, GroupsInv, InWorld
<1> QED BY <1>3, <1>4, <1>5, <1>6, <1>7 DEF Next, Copying

LEMMA GroupsInit ==
    ASSUME Init
    PROVE  GroupsInv
<1>1. /\ next = Count /\ edits = 0 /\ stream = << >> /\ saved = << >>
      /\ ent = [e \in First |-> [data |-> e, ref |-> Null, group |-> << >>]]
    BY DEF Init, NoGroup
<1>2. next \in Count .. MaxIds /\ next \in Nat /\ next \in 0 .. MaxIds
    BY <1>1, GroupsAssumption
<1>3. World(ent, Plain(next))
  <2>1. ASSUME NEW e \in First PROVE ent[e] \in Record(Plain(next))
    <3>1. ent[e] = [data |-> e, ref |-> Null, group |-> << >>]
        BY <1>1
    <3>2. Null \in Plain(next) /\ << >> \in Seq(Plain(next))
        BY <1>2, PlainIs
    <3> QED BY <3>1, <3>2 DEF Record
  <2> QED BY <1>1, <2>1 DEF World
<1>4. \A e : ~ Grouped(ent, e)
    BY <1>1 DEF Grouped, NoGroup
<1>5. Orderly(ent) /\ FirstOwn(ent)
    BY <1>4 DEF Orderly, FirstOwn
<1>6. DOMAIN ent \subseteq 0 .. next - 1 /\ ent = [x \in DOMAIN ent |-> ent[x]]
    BY <1>1 DEF First
<1>7. InOrder(ent, next)
    BY <1>3, <1>5, <1>6 DEF InOrder
<1> QED BY <1>1, <1>2, <1>7 DEF GroupsInv, InWorld, InStream, InSaved

\* Inductive invariant: groups stay in order through every instantiate, serialize and
\* deserialize, the stream can be read to its end, and holds what was saved.
THEOREM GroupsInvHolds == Spec => []GroupsInv
<1>1. Init => GroupsInv
    BY GroupsInit
<1>2. GroupsInv /\ [Next]_vars => GroupsInv'
    BY GroupsStep
<1> QED BY <1>1, <1>2, PTL DEF Spec

\* Where a patcher does not change what is listed, only the reference changes.
LEMMA PatchRef ==
    ASSUME NEW H, NEW r \in Record(H), NEW p,
           \A i \in 1 .. Len(r.group) : p[r.group[i]] = r.group[i]
    PROVE  /\ Patch(r, p) = [r EXCEPT !.ref = p[r.ref]]
           /\ p[r.ref] = r.ref => Patch(r, p) = r
<1>1. PICK g : g = r.group
    OBVIOUS
<1>2. g \in Seq(H) /\ DOMAIN g = 1 .. Len(g)
    BY <1>1, RecordIs
<1>3. [i \in DOMAIN g |-> p[g[i]]] = g
  <2>1. g = [i \in DOMAIN g |-> g[i]]
    BY <1>2
  <2>2. [i \in DOMAIN g |-> p[g[i]]] = [i \in DOMAIN g |-> g[i]]
    BY <1>1, <1>2
  <2> QED BY <2>1, <2>2
<1>4. Patch(r, p) = [r EXCEPT !.ref = p[r.ref], !.group = g]
    BY <1>1, <1>3 DEF Patch
<1>5. r \in [data : First, ref : H, group : Seq(H)]
    BY DEF Record
<1>6. \A a : [r EXCEPT !.ref = a, !.group = g] = [r EXCEPT !.ref = a]
    BY <1>1, <1>5
<1>7. [r EXCEPT !.ref = r.ref] = r
    BY <1>5
<1> QED BY <1>4, <1>6, <1>7

\* An entity that serialize leaves changed has lost a reference that led out.
LEMMA SerializeRestores ==
    ASSUME InWorld, NEW root \in DOMAIN ent, HasGroup(root), Serialize(root),
           NEW s, s = Flatten(root), Len(s) <= MaxIds, Range(s) \subseteq DOMAIN ent,
           IsInjective(s), NEW e \in DOMAIN ent, ent'[e] # ent[e]
    PROVE  ~ Inside(ent[e].ref, Range(s)) /\ ent'[e] = [ent[e] EXCEPT !.ref = Null]
<1>1. Whole(ent, next, root, s) /\ ent' = PrefabToGroup(PrefabOnly(ent, s), s)
    BY SerializeGroup
<1>2. next \in 0 .. MaxIds /\ World(ent, Plain(next))
    BY InWorldIs
<1>3. /\ IsMembers(s) /\ Range(s) \subseteq Id /\ Null.id \notin Range(s)
      /\ \A x \in Range(s) : \A i \in 1 .. Size(ent, x) :
            \/ ent[x].group[i] = Old(Link(ent, x, i)) /\ Link(ent, x, i) \in Range(s)
            \/ ent[x].group[i] = Null
    BY <1>1, <1>2, WholeIs
<1>4. PICK r, p : r = ent[e] /\ p = Kept(s)
    OBVIOUS
<1>5. r \in Record(Plain(next)) /\ r.ref \in Plain(next)
    BY <1>2, <1>4, RecordIs DEF World
<1>6. e \in Range(s) /\ ent'[e] = Patch(r, p)
    BY <1>1, <1>2, <1>3, <1>4, SourceKept
<1>7. p[Null] = Null /\ \A x \in Range(s) : p[Old(x)] = Old(x)
  <2>1. Null \in Handle /\ \A x \in Range(s) : Null # Old(x)
    BY <1>3, Handles
  <2> QED BY <1>3, <1>4, <2>1, KeptIs
<1>8. \A i \in 1 .. Len(r.group) : p[r.group[i]] = r.group[i]
    BY <1>3, <1>4, <1>6, <1>7 DEF Size
<1>9. ent'[e] = [r EXCEPT !.ref = p[r.ref]] /\ (p[r.ref] = r.ref => ent'[e] = r)
    BY <1>5, <1>6, <1>8, PatchRef
<1>10. p[r.ref] # r.ref
    BY <1>4, <1>9
<1>11. \/ r.ref.id \in Range(s) /\ r.ref = Old(r.ref.id)
       \/ r.ref.id \notin Range(s) /\ \A x \in Range(s) : r.ref # Old(x)
    BY <1>2, <1>3, <1>5, PlainSplit
<1>12. r.ref.id \notin Range(s) /\ \A x \in Range(s) : r.ref # Old(x)
    BY <1>7, <1>10, <1>11
<1>13. p[r.ref] = Null
  <2>1. r.ref \in Handle
    BY <1>2, <1>5, PlainIs
  <2> QED BY <1>3, <1>4, <1>12, <2>1, KeptIs
<1> QED BY <1>4, <1>9, <1>12, <1>13 DEF Inside

LEMMA SerializeKeeps ==
    ASSUME InWorld, NEW root \in DOMAIN ent, Len(Flatten(root)) <= MaxIds, Serialize(root),
           NEW e \in DOMAIN ent
    PROVE  \/ ent'[e] = ent[e]
           \/ /\ HasGroup(root) /\ Serialize(root)
              /\ IsInjective(Flatten(root)) =>
                     /\ ~ Inside(ent[e].ref, Range(Flatten(root)))
                     /\ ent'[e] = [ent[e] EXCEPT !.ref = Null]
<1>1. CASE ~ HasGroup(root)
    BY <1>1 DEF Serialize
<1>2. CASE HasGroup(root) /\ ~ (Range(Flatten(root)) \subseteq DOMAIN ent)
    BY <1>2 DEF Serialize, Crash
<1>3. CASE HasGroup(root) /\ Range(Flatten(root)) \subseteq DOMAIN ent
    BY <1>3, SerializeRestores
<1> QED BY <1>1, <1>2, <1>3

LEMMA SourcesStep ==
    ASSUME GroupsInv, Next, NEW e \in DOMAIN ent \cap DOMAIN ent'
    PROVE  \/ ent'[e] = ent[e]
           \/ edits' > edits
           \/ \E root \in DOMAIN ent :
                 /\ HasGroup(root) /\ Serialize(root)
                 /\ IsInjective(Flatten(root)) =>
                        /\ ~ Inside(ent[e].ref, Range(Flatten(root)))
                        /\ ent'[e] = [ent[e] EXCEPT !.ref = Null]
<1>1. InWorld /\ InStream(stream, next) /\ edits \in Nat
    BY InWorldIs DEF GroupsInv
<1>2. CASE Edit
    BY <1>1, <1>2, EditStep
<1>3. ASSUME NEW x \in DOMAIN ent, NEW count \in 1 .. MaxCopies,
             next + count * Len(Flatten(x)) <= MaxIds, Instantiate(x, count)
      PROVE  ent'[e] = ent[e]
  <2>1. count \in Nat /\ count >= 1
    BY GroupsAssumption
  <2> QED BY <1>1, <1>3, <2>1, InstantiateStep
<1>4. ASSUME NEW root \in DOMAIN ent, Len(Flatten(root)) <= MaxIds, Serialize(root)
      PROVE  \/ ent'[e] = ent[e]
             \/ /\ HasGroup(root) /\ Serialize(root)
                /\ IsInjective(Flatten(root)) =>
                       /\ ~ Inside(ent[e].ref, Range(Flatten(root)))
                       /\ ent'[e] = [ent[e] EXCEPT !.ref = Null]
    BY <1>1, <1>4, SerializeKeeps
<1>5. CASE Deserialize
    BY <1>1, <1>5, DeserializeStep
<1> QED BY <1>2, <1>3, <1>4, <1>5 DEF Next, Copying

\* instantiate, serialize and deserialize leave the entities that there were as they
\* were (prefab_to_group undoes group_to_prefab), except that serialize drops
\* references that lead out of the group.
THEOREM SourcesRestoredHolds == Spec => SourcesRestored
<1>1. GroupsInv /\ [Next]_vars =>
         [\A e \in DOMAIN ent \cap DOMAIN ent' :
              \/ ent'[e] = ent[e]
              \/ edits' > edits
              \/ \E root \in DOMAIN ent :
                     /\ HasGroup(root) /\ Serialize(root)
                     /\ IsInjective(Flatten(root)) =>
                            /\ ~ Inside(ent[e].ref, Range(Flatten(root)))
                            /\ ent'[e] = [ent[e] EXCEPT !.ref = Null]]_vars
    BY SourcesStep
<1> QED BY <1>1, GroupsInvHolds, PTL DEF Spec, SourcesRestored

\* The root of an instance is flattened to the instance.
LEMMA InstanceFlat ==
    ASSUME NEW e, NEW s, NEW count, NEW m, NEW C, Copied(e, s, count, m, C), s[1] = e,
           IsInjective(s), NEW W, Leads(W), DOMAIN W \subseteq 0 .. m - 1,
           next .. m - 1 \subseteq DOMAIN W, \A id \in next .. m - 1 : W[id] = C[id],
           NEW k \in 1 .. count
    PROVE  Flattened(W, Made(1, k, count)) = Instance(s, k, count)
<1>1. /\ next \in Nat /\ next \in 0 .. MaxIds /\ IsMembers(s) /\ Len(s) \in Nat
      /\ m \in 0 .. MaxIds /\ Range(s) \subseteq DOMAIN ent /\ DOMAIN s = 1 .. Len(s)
      /\ Null.id \notin Range(s) /\ Range(s) \subseteq 0 .. next - 1
    BY CopiedIs
<1>2. Whole(ent, next, e, s)
    BY DEF Copied
<1>3. Leads(ent) /\ Len(s) \in Nat \ {0} /\ Range(s) \subseteq Id /\ DOMAIN ent \subseteq Id
      /\ s = Flattened(ent, e)
    BY <1>1, <1>2, WholeIs DEF Whole
<1>4. PICK A, c : A = Range(s) \cup {Null.id} /\ c = [y \in A |-> CopyPlace(s, k, count)[y]]
    OBVIOUS
<1>5. /\ \A y \in Range(s) : c[y] = CopyPlace(s, k, count)[y] /\ c[y] \in next .. m - 1
      /\ c[Null.id] = Null.id
      /\ \A i \in 1 .. Len(s) : s[i] \in Range(s) /\ c[s[i]] = Made(i, k, count)
  <2>1. /\ \A y \in Range(s) : CopyPlace(s, k, count)[y] \in next .. m - 1
        /\ CopyPlace(s, k, count)[Null.id] = Null.id
        /\ \A i \in 1 .. Len(s) : CopyPlace(s, k, count)[s[i]] = Made(i, k, count)
    BY CopyPlaceIs
  <2>2. \A i \in 1 .. Len(s) : s[i] \in Range(s)
    BY <1>1, MembersAre
  <2> QED BY <1>4, <2>1, <2>2
<1>6. A \subseteq Places /\ c \in [A -> Places]
  <2>1. next .. m - 1 \subseteq Id
    <3>1. next .. m - 1 \subseteq 0 .. m - 1
        BY <1>1
    <3> QED BY <1>1, <3>1, PlainIs
  <2> QED BY <1>3, <1>4, <1>5, <2>1 DEF Places
<1>7. ~ Grouped(ent, Null.id) /\ ~ Grouped(W, Null.id)
    BY <1>1, <1>3, Handles DEF Grouped
<1>8. ASSUME NEW x \in Range(s)
      PROVE  /\ Grouped(ent, x) <=> Grouped(W, c[x])
             /\ Grouped(ent, x) =>
                    /\ Size(W, c[x]) = Size(ent, x)
                    /\ \A j \in 1 .. Size(ent, x) :
                           Link(ent, x, j) \in A /\ Link(W, c[x], j) = c[Link(ent, x, j)]
  <2>1. PICK i \in 1 .. Len(s) : s[i] = x
    BY <1>1, MembersAre
  <2>2. PICK id : id = Made(i, k, count)
    OBVIOUS
  <2>3. /\ id \in next .. m - 1 /\ Size(C, id) = Size(ent, x)
        /\ Grouped(C, id) <=> Grouped(ent, x)
        /\ \A j \in 1 .. Size(ent, x) : /\ Link(C, id, j) = CopyPlace(s, k, count)[Link(ent, x, j)]
                                        /\ Link(ent, x, j) \in Range(s) \cup {Null.id}
    BY <2>1, <2>2, CopiesLinks
  <2>4. c[x] = id
    BY <1>5, <2>1, <2>2
  <2>5. id \in DOMAIN W /\ W[id] = C[id] /\ id \in DOMAIN C
    <3>1. DOMAIN C = next .. m - 1
        BY CopiesAre
    <3> QED BY <2>3, <3>1
  <2>6. Size(W, id) = Size(C, id) /\ (Grouped(W, id) <=> Grouped(C, id))
        /\ \A j : Link(W, id, j) = Link(C, id, j)
    BY <2>5 DEF Size, Grouped, Link
  <2>7. \A y \in A : c[y] = CopyPlace(s, k, count)[y]
    BY <1>4
  <2> QED BY <1>4, <2>3, <2>4, <2>6, <2>7
<1>9. Mirrored(ent, W, A, c)
    BY <1>4, <1>5, <1>7, <1>8 DEF Mirrored
<1>10. e \in A /\ c[e] = Made(1, k, count)
  <2>1. 1 \in 1 .. Len(s)
    BY <1>3
  <2> QED BY <1>4, <1>5, <2>1
<1>11. Flattened(W, c[e]) = Mapped(c, s)
  <2>1. PICK V : V = ent
    OBVIOUS
  <2>2. Leads(V) /\ Leads(W) /\ Mirrored(V, W, A, c) /\ A \subseteq Places
        /\ c \in [A -> Places] /\ e \in A
    BY <1>3, <1>6, <1>9, <1>10, <2>1
  <2>3. Flattened(W, c[e]) = Mapped(c, Flattened(V, e))
    BY ONLY <2>2, FlattenedSame
  <2> QED BY <1>3, <2>1, <2>3
<1>12. Mapped(c, s) = Instance(s, k, count)
  <2>1. [i \in 1 .. Len(s) |-> c[s[i]]] = [i \in 1 .. Len(s) |-> Made(i, k, count)]
    BY <1>5
  <2> QED BY <1>1, <2>1 DEF Mapped, Instance
<1> QED BY <1>10, <1>11, <1>12

\* The first entity that is read is flattened to all that were read.
LEMMA ReadFlat ==
    ASSUME NEW t, NEW m, NEW D, ReadGroup(t, m, D),
           Flattened(RecordedOf(t), 0) = [i \in 1 .. Len(t) |-> i - 1],
           NEW W, Leads(W), DOMAIN W \subseteq 0 .. m - 1,
           next .. m - 1 \subseteq DOMAIN W, \A id \in next .. m - 1 : W[id] = D[id]
    PROVE  Flattened(W, next) = Fresh(Len(t))
<1>1. PICK L, R : L = Len(t) /\ R = RecordedOf(t)
    OBVIOUS
<1>2. /\ next \in Nat /\ m \in Nat /\ m \in 0 .. MaxIds /\ L \in 0 .. MaxIds
      /\ \A k \in 0 .. L - 1 : Fresh(L)[k + 1] = next + k /\ next + k \in next .. m - 1
                               /\ ReadPlace(L)[k] = next + k
      /\ ReadPlace(L)[Null.id] = Null.id
    BY <1>1, FreshIs
<1>3. t \in Seq(Record(Linked(L))) /\ L \in Nat \ {0} /\ DOMAIN D = next .. m - 1
    BY <1>1 DEF ReadGroup
<1>4. Leads(R) /\ DOMAIN R = 0 .. L - 1
  <2>1. World(R, Linked(L)) /\ DOMAIN R = 0 .. L - 1
    BY <1>1, <1>3, RecordedIs
  <2> QED BY <1>2, <2>1, LinkedIs, WorldIs
<1>5. PICK A, c : A = 0 .. L - 1 \cup {Null.id} /\ c = [y \in A |-> ReadPlace(L)[y]]
    OBVIOUS
<1>6. /\ \A k \in 0 .. L - 1 : c[k] = next + k /\ c[k] \in next .. m - 1
      /\ c[Null.id] = Null.id
    BY <1>2, <1>5
<1>7. A \subseteq Places /\ c \in [A -> Places]
  <2>1. next .. m - 1 \subseteq Id
    <3>1. next .. m - 1 \subseteq 0 .. m - 1
        BY <1>2
    <3> QED BY <1>2, <3>1, PlainIs
  <2>2. 0 .. L - 1 \subseteq Id
    BY <1>2, PlainIs
  <2> QED BY <1>5, <1>6, <2>1, <2>2 DEF Places
<1>8. ~ Grouped(R, Null.id) /\ ~ Grouped(W, Null.id)
    BY <1>2, <1>3, <1>4, Handles DEF Grouped
<1>9. ASSUME NEW k \in 0 .. L - 1
      PROVE  /\ Grouped(R, k) <=> Grouped(W, c[k])
             /\ Grouped(R, k) =>
                    /\ Size(W, c[k]) = Size(R, k)
                    /\ \A j \in 1 .. Size(R, k) :
                           Link(R, k, j) \in A /\ Link(W, c[k], j) = c[Link(R, k, j)]
  <2>1. PICK id : id = next + k
    OBVIOUS
  <2>2. /\ id \in next .. m - 1 /\ Size(D, id) = Size(R, k) /\ (Grouped(D, id) <=> Grouped(R, k))
        /\ \A j \in 1 .. Size(R, k) : /\ Link(D, id, j) = ReadPlace(L)[Link(R, k, j)]
                                      /\ Link(R, k, j) \in 0 .. L - 1 \cup {Null.id}
    BY <1>1, <2>1, ReadLinks
  <2>3. id \in DOMAIN W /\ W[id] = D[id] /\ id \in DOMAIN D
    BY <1>3, <2>2
  <2>4. Size(W, id) = Size(D, id) /\ (Grouped(W, id) <=> Grouped(D, id))
        /\ \A j : Link(W, id, j) = Link(D, id, j)
    BY <2>3 DEF Size, Grouped, Link
  <2>5. c[k] = id /\ \A y \in A : c[y] = ReadPlace(L)[y]
    BY <1>5, <1>6, <2>1
  <2> QED BY <1>5, <2>2, <2>4, <2>5
<1>10. Mirrored(R, W, A, c)
    BY <1>5, <1>6, <1>8, <1>9 DEF Mirrored
<1>11. 0 \in A /\ c[0] = next
    BY <1>2, <1>3, <1>5, <1>6
<1>12. Flattened(W, c[0]) = Mapped(c, Flattened(R, 0))
  <2>1. PICK z : z = 0
    OBVIOUS
  <2>2. Leads(R) /\ Leads(W) /\ Mirrored(R, W, A, c) /\ A \subseteq Places
        /\ c \in [A -> Places] /\ z \in A
    BY <1>4, <1>7, <1>10, <1>11, <2>1
  <2>3. Flattened(W, c[z]) = Mapped(c, Flattened(R, z))
    BY ONLY <2>2, FlattenedSame
  <2> QED BY <2>1, <2>3
<1>13. PICK q : q = [i \in 1 .. L |-> i - 1]
    OBVIOUS
<1>14. ASSUME NEW i \in 1 .. L PROVE c[q[i]] = next + i - 1
    BY <1>2, <1>3, <1>6, <1>13
<1>15. Mapped(c, q) = Fresh(L)
  <2>1. [i \in 1 .. L |-> c[q[i]]] = [i \in 1 .. L |-> next + i - 1]
    BY <1>14
  <2>2. DOMAIN q = 1 .. L
    BY <1>13
  <2> QED BY <2>1, <2>2 DEF Mapped, Fresh
<1> QED BY <1>1, <1>11, <1>12, <1>13, <1>15

ImagedIn(s, made, W) ==
    \A i \in 1 .. Len(s) : made[i] \notin DOMAIN ent /\ W[made[i]] = Patch(ent[s[i]], ToIn(s, made))

\* What Image says, of an instance.
LEMMA ImageIn ==
    ASSUME NEW s, DOMAIN s = 1 .. Len(s), Len(s) \in Nat, s = [i \in DOMAIN s |-> s[i]],
           NEW root, NEW made, made = Flattened(ent', root),
           Len(made) = Len(s), ImagedIn(s, made, ent')
    PROVE  Image(Now(s), root, TRUE)
<1>1. PICK v : v = Now(s)
    OBVIOUS
<1>2. /\ DOMAIN v = 1 .. Len(s) /\ v \in Seq(Range(v)) /\ Len(v) = Len(s)
      /\ \A i \in 1 .. Len(s) : v[i].id = s[i] /\ v[i].was = ent[s[i]]
  <2>1. v = [i \in 1 .. Len(s) |-> [id |-> s[i], was |-> ent[s[i]]]]
    BY <1>1 DEF Now
  <2> QED BY <2>1 DEF Range
<1>3. [i \in DOMAIN v |-> v[i].id] = s
  <2>1. [i \in 1 .. Len(s) |-> v[i].id] = [i \in 1 .. Len(s) |-> s[i]]
    BY <1>2
  <2> QED BY <1>2, <2>1
<1>4. Flatten(root)' = made
    BY DEF Flatten
<1>5. \A i \in DOMAIN v :
         made[i] \notin DOMAIN ent /\ ent'[made[i]] = Patch(v[i].was, ToIn(s, made))
    BY <1>2 DEF ImagedIn
<1>6. Renamed(s, made, TRUE) = ToIn(s, made)
    BY DEF ToIn, Renamed
<1>7. Image(v, root, TRUE)
    BY <1>2, <1>3, <1>4, <1>5, <1>6, Zenon DEF Image
<1> QED BY <1>1, <1>7

\* Each instance is an image of the group.
LEMMA InstanceMirrors ==
    ASSUME InWorld, NEW e \in DOMAIN ent, HasGroup(e), Apart(e), NEW count \in Nat, count >= 1,
           NEW s, s = Flatten(e), NEW m, NEW C, Copied(e, s, count, m, C),
           ent' = [id \in DOMAIN ent \cup next .. m - 1 |-> IF id < next THEN ent[id] ELSE C[id]],
           InOrder(ent', m), NEW k \in 1 .. count, NEW root, root = Made(1, k, count)
    PROVE  Image(Now(s), root, TRUE) /\ Flatten(root)' = Instance(s, k, count)
<1>1. PICK W : W = ent'
    OBVIOUS
<1>2. /\ next \in Nat /\ IsMembers(s) /\ Len(s) \in Nat /\ m \in 0 .. MaxIds /\ m \in Nat
      /\ DOMAIN s = 1 .. Len(s) /\ DOMAIN ent \subseteq 0 .. next - 1
    BY CopiedIs, InWorldIs
<1>3. IsInjective(s) /\ s[1] = e
  <2>1. Whole(ent, next, e, s) /\ next \in 0 .. MaxIds
    BY InWorldIs DEF Copied
  <2>2. s[1] = Link(ent, e, 1)
    BY <2>1, WholeIs
  <2>3. Link(ent, e, 1) = e
    BY Handles DEF Apart, Link
  <2> QED BY <2>2, <2>3 DEF Apart
<1>4. Leads(W) /\ DOMAIN W \subseteq 0 .. m - 1
    BY <1>1, <1>2, PlainIs, WorldIs DEF InOrder
<1>5. next .. m - 1 \subseteq DOMAIN W /\ \A id \in next .. m - 1 : W[id] = C[id]
    BY <1>1, <1>2
<1>6. PICK made : made = Instance(s, k, count)
    OBVIOUS
<1>7. Flattened(W, root) = made
    BY <1>3, <1>4, <1>5, <1>6, InstanceFlat
<1>8. Len(made) = Len(s) /\ \A i \in 1 .. Len(s) : made[i] = Made(i, k, count)
  <2>1. next + Len(s) * count <= MaxIds
    BY <1>2 DEF Copied
  <2> QED BY <1>2, <1>6, <2>1, InstanceIs
<1>9. ASSUME NEW i \in 1 .. Len(s)
      PROVE  made[i] \notin DOMAIN ent /\ W[made[i]] = Patch(ent[s[i]], ToIn(s, made))
  <2>1. made[i] \in next .. m - 1
    BY <1>8, MadeWithin
  <2>2. made[i] \notin DOMAIN ent
    BY <1>2, <2>1
  <2>3. C[made[i]] = Patch(ent[s[i]], ToIn(s, made))
    BY <1>6, <1>8, CopiesAre
  <2> QED BY <1>5, <2>1, <2>2, <2>3
<1>10. ImagedIn(s, made, ent')
    BY <1>1, <1>9 DEF ImagedIn
<1>11. s = [i \in DOMAIN s |-> s[i]]
    BY <1>2 DEF IsMembers
<1>12. Image(Now(s), root, TRUE)
    BY <1>1, <1>2, <1>7, <1>8, <1>10, <1>11, ImageIn
<1>13. Flatten(root)' = made
    BY <1>1, <1>7 DEF Flatten
<1> QED BY <1>6, <1>12, <1>13

LEMMA InstancesStep ==
    ASSUME GroupsInv, GroupsInv', NEW e \in DOMAIN ent, NEW count \in 1 .. MaxCopies,
           HasGroup(e), Apart(e), Instantiate(e, count), ~ crashed'
    PROVE  LET added == DOMAIN ent' \ DOMAIN ent
               members == Flatten(e)
           IN  \E roots \in SUBSET added :
                   /\ Cardinality(roots) = count
                   /\ Cardinality(added) = count * Len(members)
                   /\ \A root \in roots : Image(Now(members), root, TRUE)
                   /\ added = UNION {Range(Flatten(root)') : root \in roots}
<1>1. InWorld /\ count \in Nat /\ count >= 1
    BY GroupsAssumption DEF GroupsInv
<1>2. PICK s : s = Flatten(e)
    OBVIOUS
<1>3. Range(s) \subseteq DOMAIN ent /\ next' = next + Len(s) * count
    BY <1>2 DEF Instantiate, Crash
<1>4. next' \in Count .. MaxIds /\ InOrder(ent', next')
    BY DEF GroupsInv, InWorld
<1>5. s \in Flat /\ Len(s) \in Nat
    BY <1>1, <1>2, FlattenedOne, InWorldIs DEF Flatten, Flat
<1>6. count * Len(s) = Len(s) * count /\ Len(s) * count \in Nat
    BY <1>1, <1>5, Scaled
<1>7. next + count * Len(Flatten(e)) <= MaxIds
  <2>1. PICK P : P = Len(s) * count
    OBVIOUS
  <2>2. P \in Nat /\ count * Len(s) = P /\ next' = next + P
    BY <1>3, <1>6, <2>1
  <2> QED BY <1>2, <1>4, <2>2
<1>8. PICK m, C : /\ Copied(e, s, count, m, C) /\ next' = m
                  /\ ent' = [id \in DOMAIN ent \cup next .. m - 1 |->
                                IF id < next THEN ent[id] ELSE C[id]]
                  /\ UNCHANGED <<stream, saved, crashed>>
    BY <1>1, <1>2, <1>3, <1>7, InstantiateGroup
<1>9. InOrder(ent', m)
    BY <1>4, <1>8
<1>10. /\ next \in Nat /\ m \in Nat /\ m = next + Len(s) * count
       /\ DOMAIN ent \subseteq 0 .. next - 1
       /\ Len(s) \in Nat \ {0}
  <2>1. Whole(ent, next, e, s) /\ next \in 0 .. MaxIds
    BY <1>1, <1>8, InWorldIs DEF Copied
  <2> QED BY <1>1, <1>8, <2>1, WholeIs, CopiedIs, InWorldIs DEF Copied
<1>11. PICK added : added = DOMAIN ent' \ DOMAIN ent
    OBVIOUS
<1>12. added = next .. m - 1
    BY <1>8, <1>10, <1>11
<1>13. Cardinality(added) = count * Len(s)
  <2>1. PICK P : P = Len(s) * count
    OBVIOUS
  <2>2. P \in Nat /\ m = next + P /\ count * Len(s) = P
    BY <1>6, <1>10, <2>1
  <2>3. PICK b : b = m - 1
    OBVIOUS
  <2>4. b \in Int
    BY <1>10, <2>3
  <2>5. Cardinality(next .. b) = IF next > b THEN 0 ELSE b - next + 1
    BY <1>10, <2>4, FS_Interval
  <2> QED BY <1>10, <1>12, <2>2, <2>3, <2>5
<1>14. PICK roots : roots = next .. next + count - 1
    OBVIOUS
<1>15. Cardinality(roots) = count
  <2>1. PICK b : b = next + count - 1
    OBVIOUS
  <2>2. b \in Int /\ b - next + 1 = count /\ ~ (next > b)
    BY <1>1, <1>10, <2>1
  <2>3. Cardinality(next .. b) = IF next > b THEN 0 ELSE b - next + 1
    BY <1>10, <2>2, FS_Interval
  <2> QED BY <1>14, <2>1, <2>2, <2>3
<1>16. ASSUME NEW root \in roots
       PROVE  \E k \in 1 .. count : root = Made(1, k, count)
  <2>1. PICK k : k = root - next + 1
    OBVIOUS
  <2>2. k \in 1 .. count
    BY <1>1, <1>10, <1>14, <2>1
  <2>3. Made(1, k, count) = next + k - 1
    BY <1>1, <1>10, <2>2 DEF Made
  <2> QED BY <1>10, <1>14, <2>1, <2>2, <2>3
<1>17. ASSUME NEW k \in 1 .. count
       PROVE  Made(1, k, count) \in roots
  <2>1. Made(1, k, count) = next + k - 1
    BY <1>1, <1>10 DEF Made
  <2> QED BY <1>1, <1>10, <1>14, <2>1
<1>18. ASSUME NEW k \in 1 .. count, NEW root, root = Made(1, k, count)
       PROVE  Image(Now(s), root, TRUE) /\ Flatten(root)' = Instance(s, k, count)
    BY <1>1, <1>2, <1>8, <1>9, <1>18, InstanceMirrors
<1>19. roots \in SUBSET added
  <2>1. ASSUME NEW root \in roots PROVE root \in added
    <3>1. PICK k \in 1 .. count : root = Made(1, k, count)
        BY <1>16
    <3>2. 1 \in 1 .. Len(s)
        BY <1>10
    <3> QED BY <1>8, <1>12, <3>1, <3>2, MadeWithin
  <2> QED BY <2>1
<1>20. \A root \in roots : Image(Now(s), root, TRUE)
  <2>1. ASSUME NEW root \in roots PROVE Image(Now(s), root, TRUE)
    <3>1. PICK k \in 1 .. count : root = Made(1, k, count)
        BY <1>16
    <3> QED BY <1>18, <3>1
  <2> QED BY <2>1
<1>21. ASSUME NEW k \in 1 .. count
       PROVE  \A x : x \in Range(Instance(s, k, count))
                         <=> \E i \in 1 .. Len(s) : x = Made(i, k, count)
  <2>1. Instance(s, k, count) = [i \in 1 .. Len(s) |-> Made(i, k, count)]
    BY <1>8, CopiedIs DEF Instance
  <2> QED BY <2>1 DEF Range
<1>22. ASSUME NEW x
       PROVE  x \in added <=> \E root \in roots : x \in Range(Flatten(root)')
  <2>1. ASSUME x \in added PROVE \E root \in roots : x \in Range(Flatten(root)')
    <3>1. PICK i \in 1 .. Len(s), k \in 1 .. count : x = Made(i, k, count)
        BY <1>8, <1>12, <2>1, MadeWithin
    <3>2. PICK root : root = Made(1, k, count)
        OBVIOUS
    <3>3. root \in roots /\ Flatten(root)' = Instance(s, k, count)
        BY <1>17, <1>18, <3>2
    <3>4. x \in Range(Instance(s, k, count))
        BY <1>21, <3>1
    <3> QED BY <3>3, <3>4
  <2>2. ASSUME NEW root \in roots, x \in Range(Flatten(root)') PROVE x \in added
    <3>1. PICK k \in 1 .. count : root = Made(1, k, count)
        BY <1>16
    <3>2. x \in Range(Instance(s, k, count))
      <4>1. Flatten(root)' = Instance(s, k, count)
        BY <1>18, <3>1
      <4> QED BY <2>2, <4>1
    <3>3. PICK i \in 1 .. Len(s) : x = Made(i, k, count)
        BY <1>21, <3>2
    <3> QED BY <1>8, <1>12, <3>3, MadeWithin
  <2> QED BY <2>1, <2>2
<1>23. added = UNION {Range(Flatten(root)') : root \in roots}
    BY <1>22
<1> QED BY <1>2, <1>11, <1>13, <1>15, <1>19, <1>20, <1>23, Zenon

\* instantiate of a group that lists no entity twice makes count instances, each an
\* image of the group, and nothing else: handles among the members name the copies
\* made with them, in no other instance and not in the source.
THEOREM InstancesMirrorHolds == Spec => InstancesMirror
<1>1. GroupsInv /\ [Next]_vars =>
         [\A e \in DOMAIN ent, count \in 1 .. MaxCopies :
             HasGroup(e) /\ Apart(e) /\ Instantiate(e, count) /\ ~ crashed' =>
                 LET added == DOMAIN ent' \ DOMAIN ent
                     members == Flatten(e)
                 IN  \E roots \in SUBSET added :
                         /\ Cardinality(roots) = count
                         /\ Cardinality(added) = count * Len(members)
                         /\ \A root \in roots : Image(Now(members), root, TRUE)
                         /\ added = UNION {Range(Flatten(root)') : root \in roots}]_vars
  <2>1. SUFFICES ASSUME GroupsInv, Next, NEW e \in DOMAIN ent, NEW count \in 1 .. MaxCopies,
                        HasGroup(e), Apart(e), Instantiate(e, count), ~ crashed'
                 PROVE  LET added == DOMAIN ent' \ DOMAIN ent
                            members == Flatten(e)
                        IN  \E roots \in SUBSET added :
                                /\ Cardinality(roots) = count
                                /\ Cardinality(added) = count * Len(members)
                                /\ \A root \in roots : Image(Now(members), root, TRUE)
                                /\ added = UNION {Range(Flatten(root)') : root \in roots}
    BY Zenon
  <2>2. GroupsInv'
    BY <2>1, GroupsStep
  <2> QED BY <2>1, <2>2, InstancesStep
<1> QED BY <1>1, GroupsInvHolds, PTL DEF Spec, InstancesMirror

\* deserialize, of what serialize wrote of an entity without a group.
LEMMA ReadBackOne ==
    ASSUME InWorld, SavedSingle(saved, stream, next), Deserialize
    PROVE  LET added == DOMAIN ent' \ DOMAIN ent
           IN  /\ Cardinality(added) = Len(saved)
               /\ \E root \in added : ent'[root] = saved[1].was
               /\ stream[1].group = NoGroup
<1>1. SingleStream(stream, next) /\ Len(saved) = 1 /\ saved[1].was = stream[1]
      /\ stream[1].group = NoGroup
    BY DEF SavedSingle, SingleStream
<1>2. DOMAIN ent' = DOMAIN ent \cup {next} /\ ent'[next] = stream[1]
    BY <1>1, DeserializePlain
<1>3. next \notin DOMAIN ent
    BY InWorldIs
<1>4. PICK added : added = DOMAIN ent' \ DOMAIN ent
    OBVIOUS
<1>5. added = {next}
    BY <1>2, <1>3, <1>4
<1>6. Cardinality(added) = 1
    BY <1>5, FS_Singleton
<1> QED BY <1>1, <1>2, <1>4, <1>5, <1>6

ImagedOnly(v, made, W) ==
    \A i \in 1 .. Len(v) :
        made[i] \notin DOMAIN ent /\ W[made[i]] = Patch(v[i].was, ToOnly(Ids(v), made))

\* What Image says, of what is read.
LEMMA ImageOnly ==
    ASSUME NEW v, DOMAIN v = 1 .. Len(v), NEW root, NEW made, made = Flattened(ent', root),
           Len(made) = Len(v), ImagedOnly(v, made, ent')
    PROVE  Image(v, root, FALSE)
<1>1. [i \in DOMAIN v |-> v[i].id] = Ids(v)
    BY DEF Ids
<1>2. Flatten(root)' = made
    BY DEF Flatten
<1>3. \A i \in DOMAIN v :
         made[i] \notin DOMAIN ent /\ ent'[made[i]] = Patch(v[i].was, ToOnly(Ids(v), made))
    BY DEF ImagedOnly
<1>4. Renamed(Ids(v), made, FALSE) = ToOnly(Ids(v), made)
    BY DEF ToOnly, Renamed
<1> QED BY <1>1, <1>2, <1>3, <1>4, Zenon DEF Image

\* What was read is what was written, with new entities for the numbers.
LEMMA ReadImage ==
    ASSUME next \in Nat, next \in 0 .. MaxIds, NEW v, NEW t, SavedGroup(v, t, next),
           NEW m, NEW D, ReadGroup(t, m, D), NEW i \in 1 .. Len(t)
    PROVE  D[Fresh(Len(t))[i]] = Patch(v[i].was, ToOnly(Ids(v), Fresh(Len(t))))
<1>1. PICK L, f, ids, r : L = Len(t) /\ f = Fresh(L) /\ ids = Ids(v) /\ r = v[i].was
    OBVIOUS
<1>2. PICK k : k = i - 1
    OBVIOUS
<1>3. L \in Nat /\ i \in 1 .. L /\ k \in 0 .. L - 1 /\ k + 1 = i
    BY <1>1, <1>2 DEF SavedGroup, GroupStream
<1>4. IsMembers(f) /\ Len(f) = L /\ f[i] = next + k
  <2>1. IsMembers(f) /\ Len(f) = L /\ f[k + 1] = next + k
    BY <1>1, <1>3, FreshIs
  <2> QED BY <1>3, <2>1
<1>5. D[next + k] = Patch(t[i], Resolve(f))
  <2>1. D[next + k] = Patch(t[k + 1], Resolve(Fresh(Len(t))))
    BY <1>1, <1>3, ReadLinks
  <2> QED BY <1>1, <1>3, <2>1
<1>6. r \in Record(Plain(next)) /\ t[i] = Patch(r, NumbersOnly(ids))
      /\ IsMembers(ids) /\ Len(ids) = L
  <2>1. Len(Ids(v)) = Len(v)
    BY DEF SavedGroup, Ids, IsMembers
  <2> QED BY <1>1, <1>3, <2>1 DEF SavedGroup
<1>7. Null.id \notin Range(ids)
    BY <1>6, MembersAre, Handles
<1>8. Composes(Plain(next), Linked(L), NumbersOnly(ids), Resolve(f), ToOnly(ids, f))
  <2>1. ASSUME NEW h \in Plain(next)
        PROVE  /\ NumbersOnly(ids)[h] \in Linked(L)
               /\ ToOnly(ids, f)[h] = Resolve(f)[NumbersOnly(ids)[h]]
    <3>1. NumbersOnly(ids)[h] \in Linked(L)
        BY <1>6, NumbersResolve
    <3>2. Resolve(f)[NumbersOnly(ids)[h]] = ToOnly(ids, f)[h]
        BY <1>4, <1>6, <1>7, ResolveNumbers
    <3> QED BY <3>1, <3>2
  <2> QED BY <2>1 DEF Composes
<1>9. Patch(Patch(r, NumbersOnly(ids)), Resolve(f)) = Patch(r, ToOnly(ids, f))
    BY ONLY <1>6, <1>8, PatchThrough
<1> QED BY <1>1, <1>4, <1>5, <1>6, <1>9

LEMMA ReadBackGroup ==
    ASSUME InWorld, SavedGroup(saved, stream, next), Deserialize, InOrder(ent', next')
    PROVE  LET added == DOMAIN ent' \ DOMAIN ent
           IN  /\ Cardinality(added) = Len(saved)
               /\ \E root \in added : Image(saved, root, FALSE)
               /\ stream[1].group # NoGroup
<1>1. PICK v, t, L : v = saved /\ t = stream /\ L = Len(t)
    OBVIOUS
<1>2. /\ GroupStream(t) /\ Len(v) = L /\ DOMAIN v = 1 .. L /\ L \in Nat \ {0}
      /\ Flattened(RecordedOf(t), 0) = [i \in 1 .. Len(t) |-> i - 1] /\ t[1].group # NoGroup
    BY <1>1 DEF SavedGroup, GroupStream
<1>3. PICK m, D : /\ ReadGroup(t, m, D) /\ next' = m
                  /\ ent' = [id \in DOMAIN ent \cup next .. m - 1 |->
                                IF id < next THEN ent[id] ELSE D[id]]
                  /\ UNCHANGED <<stream, saved, crashed>>
    BY <1>1, <1>2, DeserializeGroup
<1>4. /\ next \in Nat /\ next \in 0 .. MaxIds /\ m \in Nat /\ m \in 0 .. MaxIds /\ m = next + L
      /\ DOMAIN ent \subseteq 0 .. next - 1
    BY <1>1, <1>3, FreshIs, InWorldIs DEF ReadGroup
<1>5. PICK W : W = ent'
    OBVIOUS
<1>6. Leads(W) /\ DOMAIN W \subseteq 0 .. m - 1
    BY <1>3, <1>4, <1>5, PlainIs, WorldIs DEF InOrder
<1>7. next .. m - 1 \subseteq DOMAIN W /\ \A id \in next .. m - 1 : W[id] = D[id]
    BY <1>3, <1>4, <1>5
<1>8. PICK f, root : f = Fresh(L) /\ root = next
    OBVIOUS
<1>9. Flattened(W, root) = f
    BY <1>1, <1>2, <1>3, <1>6, <1>7, <1>8, ReadFlat
<1>10. Len(f) = L /\ \A i \in 1 .. L : f[i] = next + i - 1 /\ f[i] \in next .. m - 1
    BY <1>2, <1>4, <1>8 DEF Fresh
<1>11. \A i \in 1 .. L : D[f[i]] = Patch(v[i].was, ToOnly(Ids(v), f))
    BY <1>1, <1>3, <1>4, <1>8, ReadImage
<1>12. ASSUME NEW i \in 1 .. Len(v)
       PROVE  f[i] \notin DOMAIN ent /\ W[f[i]] = Patch(v[i].was, ToOnly(Ids(v), f))
  <2>1. f[i] \in next .. m - 1 /\ D[f[i]] = Patch(v[i].was, ToOnly(Ids(v), f))
    BY <1>2, <1>10, <1>11
  <2>2. f[i] \notin DOMAIN ent
    BY <1>4, <2>1
  <2> QED BY <1>7, <2>1, <2>2
<1>13. ImagedOnly(v, f, ent')
    BY <1>5, <1>12 DEF ImagedOnly
<1>14. Image(v, root, FALSE)
    BY <1>2, <1>5, <1>9, <1>10, <1>13, ImageOnly
<1>15. PICK added : added = DOMAIN ent' \ DOMAIN ent
    OBVIOUS
<1>16. added = next .. m - 1 /\ root \in added
    BY <1>2, <1>3, <1>4, <1>8, <1>15
<1>17. Cardinality(added) = L
  <2>1. PICK b : b = m - 1
    OBVIOUS
  <2>2. b \in Int /\ ~ (next > b) /\ b - next + 1 = L
    BY <1>2, <1>4, <2>1
  <2>3. Cardinality(next .. b) = IF next > b THEN 0 ELSE b - next + 1
    BY <1>4, <2>2, FS_Interval
  <2> QED BY <1>16, <2>1, <2>2, <2>3
<1> QED BY <1>1, <1>2, <1>14, <1>15, <1>16, <1>17

LEMMA RoundTripStep ==
    ASSUME GroupsInv, GroupsInv', saved # << >>, Deserialize
    PROVE  LET added == DOMAIN ent' \ DOMAIN ent
           IN  /\ Cardinality(added) = Len(saved)
               /\ \E root \in added : IF stream[1].group = NoGroup THEN ent'[root] = saved[1].was
                                      ELSE Image(saved, root, FALSE)
<1>1. InWorld /\ InOrder(ent', next')
    BY DEF GroupsInv, InWorld
<1>2. CASE SavedSingle(saved, stream, next)
    BY <1>1, <1>2, ReadBackOne
<1>3. CASE SavedGroup(saved, stream, next)
    BY <1>1, <1>3, ReadBackGroup
<1> QED BY <1>2, <1>3 DEF GroupsInv, InSaved

\* What world::deserialize reads is the image of what serialize wrote, whatever has become
\* of the entities since, and no handle leads out of the group.
THEOREM RoundTripHolds == Spec => RoundTrip
<1>1. GroupsInv /\ [Next]_vars =>
         [saved # << >> /\ Deserialize =>
             LET added == DOMAIN ent' \ DOMAIN ent
             IN  /\ Cardinality(added) = Len(saved)
                 /\ \E root \in added :
                        IF stream[1].group = NoGroup THEN ent'[root] = saved[1].was
                        ELSE Image(saved, root, FALSE)]_vars
    BY GroupsStep, RoundTripStep
<1> QED BY <1>1, GroupsInvHolds, PTL DEF Spec, RoundTrip
=============================================================================
