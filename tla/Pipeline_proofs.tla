-------------------------- MODULE Pipeline_proofs --------------------------
(***************************************************************************)
(* Proofs about Pipeline, for any number of passes, archetypes, types and  *)
(* resources: passes that conflict run in the order of their creation, and *)
(* the program waits for the passes that use what it touches.              *)
(*                                                                         *)
(* The argument is about one entry.  A pass is separated from an earlier   *)
(* one at an entry when both have asked for it and one of the passes from  *)
(* the one to the other has asked to write it.  What a pass waits for need *)
(* not name every pass that it is separated from: it is enough that it     *)
(* names one that is itself separated from it, as that one has waited.     *)
(***************************************************************************)
EXTENDS Pipeline, TLAPS

\* What the theorems suppose of the program and of malloc.
Careful ==
    /\ ~ ReuseStale /\ ~ MayDrop /\ ~ SlowRelease
    /\ \A kind \in Kinds : AsksForAll(kind)

\* Destroying entities moves none to an archetype that is not synchronised.
NothingMoves == \A at \in Archetype : Cleaning[at] \in {at, NoArchetype}

-----------------------------------------------------------------------------
(* The inductive invariant.                                                *)

Asked(p) == Requests(pass[p].kind)

\* The requests that p has not made yet.
Left(p) == IF main.op = "create" /\ main.p = p THEN Len(main.rest) ELSE 0

\* The passes that have asked for e, and those that have asked to write it.
Askers(e) ==
    {p \in Pass : /\ pass[p].phase # "none"
                  /\ \E i \in 1 .. Len(Asked(p)) - Left(p) : Asked(p)[i].entry = e}
Writers(e) ==
    {p \in Pass : /\ pass[p].phase # "none"
                  /\ \E i \in 1 .. Len(Asked(p)) - Left(p) :
                         Asked(p)[i].entry = e /\ AsksToWrite(Asked(p), i)}

Separated(p, q, e) ==
    /\ p < q /\ p \in Askers(e) /\ q \in Askers(e)
    /\ \E w \in Writers(e) : p <= w /\ w <= q

\* Who waits for the passes in S has waited for p.
Behind(p, S, e) == p \in S \/ \E d \in S : Separated(p, d, e)

\* A pass has begun to run.
Begun(p) == pass[p].phase \in {"running", "signalled", "over"}

PassType == [phase : Phase, kind : Kinds \cup {NoKind}, held : BOOLEAN,
             addr : Addr \cup {NoAddr}, deps : SUBSET Pass, todo : Seq(Archetype),
             waits : SUBSET Pass, own : BOOLEAN]

\* Passes are created one after the other, and held until they are scheduled.
LifeInv ==
    /\ \A p \in Pass : pass[p].phase = "none" => ~ pass[p].held /\ pass[p].deps = {}
    /\ \A p \in Pass : pass[p].phase \in {"creating", "created"} => pass[p].held
    /\ \A p \in Pass : pass[p].phase = "creating" <=> main.op = "create" /\ main.p = p
    /\ \A p, q \in Pass : p < q /\ pass[q].phase # "none" =>
           pass[p].phase \notin {"none", "creating"}
    /\ \A p \in Pass : pass[p].phase # "none" =>
           pass[p].kind \in Kinds /\ pass[p].addr \in Addr
    /\ \A p \in Pass : /\ pass[p].waits = {} /\ pass[p].todo = <<>>
                       /\ \A d \in pass[p].deps : d <= p

\* What is left of the requests of the pass being created.
RequestInv ==
    main.op = "create" =>
        /\ Len(main.rest) <= Len(Asked(main.p))
        /\ \A i \in 1 .. Len(main.rest) :
               main.rest[i] = Asked(main.p)[Len(Asked(main.p)) - Len(main.rest) + i]
        /\ \A e \in Entry : e \in main.synced <=>
               \E j \in 1 .. Len(Asked(main.p)) - Len(main.rest) :
                   Asked(main.p)[j].once /\ Asked(main.p)[j].entry = e

\* A live pass has its event in eventmap, and no address serves two.
EventInv ==
    /\ \A p \in Pass : pass[p].phase # "creating" /\ Alive(p) => event[pass[p].addr].of = p
    /\ \A p \in Pass : pass[p].phase = "creating" => event[pass[p].addr].of = NoPass
    /\ \A a \in Addr : event[a].set => event[a].of # NoPass /\ Done(event[a].of)

\* The passes that the program waits for exist.
MainInv ==
    main.op = "sync" =>
        \A p \in main.for : pass[p].phase # "none"

\* A pass waits, directly or not, for those it is separated from.
DepsInv ==
    \A e \in Entry, p, q \in Pass :
        ~ Begun(q) /\ Separated(p, q, e) => Done(p) \/ Behind(p, pass[q].deps, e)

\* Once it has begun, they are done.
DoneInv ==
    \A e \in Entry, p, q \in Pass : Begun(q) /\ Separated(p, q, e) => Done(p)

\* The program is waiting for p.
MainBehind(p, e) == main.op = "sync" /\ Behind(p, main.for, e)

Owners(e) == {entry[e].owned} \ {NoPass}

\* An entry leads to every pass that has asked for it and may not be done: its
\* writers by the last of them, its readers by that or as readers since.
EntryInv ==
    \A e \in Entry :
        /\ \A p \in Writers(e) : Done(p) \/ Behind(p, Owners(e), e) \/ MainBehind(p, e)
        /\ \A p \in Askers(e) : \/ Done(p) \/ Behind(p, Owners(e), e) \/ MainBehind(p, e)
                                \/ p \in entry[e].shared
        /\ Owners(e) \subseteq Writers(e)
        /\ entry[e].shared \subseteq Askers(e)
        /\ \A w \in Owners(e), r \in entry[e].shared : w <= r

\* The program waits for the passes that use what it is about to touch.
UsesInv ==
    NothingMoves /\ main.op = "sync" => \A e \in main.uses :
        \A p \in IF main.writes THEN Askers(e) ELSE Writers(e) :
            Done(p) \/ Behind(p, main.for, e)

Lives == TypeOK /\ LifeInv /\ RequestInv /\ EventInv /\ MainInv
Ordered == DepsInv /\ DoneInv /\ EntryInv /\ UsesInv
IInv == Lives /\ Ordered

-----------------------------------------------------------------------------
(* What passes have asked for.                                             *)

LEMMA PassIs ==
    ASSUME TypeOK, NEW p \in Pass
    PROVE  /\ pass[p].phase \in Phase /\ pass[p].kind \in Kinds \cup {NoKind}
           /\ pass[p].held \in BOOLEAN /\ pass[p].addr \in Addr \cup {NoAddr}
           /\ pass[p].deps \subseteq Pass /\ pass[p].waits \subseteq Pass
           /\ p \in Nat
<1>1. pass \in [Pass -> PassType]
    BY DEF TypeOK, PassType
<1>2. pass[p] \in PassType
    BY <1>1
<1>3. p \in Nat
    BY PipelineAssumption DEF Pass
<1> QED BY <1>2, <1>3 DEF PassType

LEMMA EntryIs ==
    ASSUME TypeOK, NEW e \in Entry
    PROVE  /\ entry[e].owned \in Pass \cup {NoPass} /\ entry[e].shared \subseteq Pass
           /\ Owners(e) \subseteq Pass
           /\ entry[e] = [owned |-> entry[e].owned, shared |-> entry[e].shared]
<1>1. entry[e] \in [owned : Pass \cup {NoPass}, shared : SUBSET Pass]
    BY DEF TypeOK
<1> QED BY <1>1 DEF Owners

LEMMA MainIs ==
    ASSUME TypeOK
    PROVE  /\ main.op = "create" => /\ main.p \in Pass /\ main.rest \in Seq(Request)
                                    /\ main.synced \subseteq Entry
                                    /\ main = [op |-> "create", p |-> main.p,
                                               rest |-> main.rest, synced |-> main.synced]
           /\ main.op = "sync" => /\ main.for \subseteq Pass /\ main.uses \subseteq Entry
                                  /\ main.writes \in BOOLEAN
           /\ main.op \in {"idle", "wait", "create", "sync"}
<1>1. CASE main \in [op : {"idle", "wait"}]
    BY <1>1
<1>2. CASE main \in [op : {"create"}, p : Pass, rest : Seq(Request), synced : SUBSET Entry]
    BY <1>2
<1>3. CASE main \in [op : {"sync"}, for : SUBSET Pass, uses : SUBSET Entry, writes : BOOLEAN]
    BY <1>3
<1> QED BY <1>1, <1>2, <1>3 DEF TypeOK

\* Whether a pass is alive.
LEMMA LivesIs ==
    ASSUME TypeOK, LifeInv, NEW p \in Pass, pass[p].phase # "none"
    PROVE  ~ Alive(p) => pass[p].phase = "over" /\ Done(p)
BY PassIs DEF LifeInv, Alive, Done, Phase

\* Nothing has been asked in a step in which no pass is created or asks.
LEMMA SameAsked ==
    ASSUME \A p \in Pass : /\ pass'[p].phase = "none" <=> pass[p].phase = "none"
                           /\ pass'[p].kind = pass[p].kind
                           /\ Left(p)' = Left(p)
    PROVE  \A e : Askers(e)' = Askers(e) /\ Writers(e)' = Writers(e)
<1> SUFFICES ASSUME NEW e
             PROVE  Askers(e)' = Askers(e) /\ Writers(e)' = Writers(e)
    OBVIOUS
<1>1. \A p \in Pass : Asked(p)' = Asked(p)
    BY DEF Asked
<1>2. \A p \in Pass : p \in Askers(e)' <=> p \in Askers(e)
    BY <1>1 DEF Askers
<1>3. \A p \in Pass : p \in Writers(e)' <=> p \in Writers(e)
    BY <1>1 DEF Writers
<1>4. Askers(e) \subseteq Pass /\ Askers(e)' \subseteq Pass
      /\ Writers(e) \subseteq Pass /\ Writers(e)' \subseteq Pass
    BY DEF Askers, Writers
<1> QED BY <1>2, <1>3, <1>4

LEMMA WritersAsk ==
    ASSUME NEW e
    PROVE  /\ Writers(e) \subseteq Askers(e) /\ Askers(e) \subseteq Pass
           /\ \A p \in Askers(e) : pass[p].phase # "none"
BY DEF Writers, Askers

\* A pass is behind what those that it is behind are behind.
LEMMA Through ==
    ASSUME TypeOK, NEW e, NEW p \in Pass, NEW o \in Writers(e), Behind(p, {o}, e),
           NEW q \in Askers(e), o <= q
    PROVE  Behind(p, {q}, e)
<1>1. o \in Askers(e) /\ o \in Pass /\ q \in Pass /\ p \in Nat /\ o \in Nat /\ q \in Nat
    BY WritersAsk, PassIs
<1>2. CASE p = o
    BY <1>1, <1>2 DEF Behind, Separated
<1>3. CASE Separated(p, o, e)
    BY <1>1, <1>3 DEF Behind, Separated
<1> QED BY <1>2, <1>3 DEF Behind

\* Who is behind a pass that is done is done.
LEMMA BehindDone ==
    ASSUME TypeOK, DoneInv, NEW e \in Entry, NEW p \in Pass, NEW S, S \subseteq Pass,
           \A d \in S : Done(d), Behind(p, S, e)
    PROVE  Done(p)
<1>1. CASE p \in S
    BY <1>1
<1>2. ASSUME NEW d \in S, Separated(p, d, e) PROVE Done(p)
  <2>1. Begun(d)
    BY DEF Done, Begun
  <2> QED BY <1>2, <2>1 DEF DoneInv
<1> QED BY <1>1, <1>2 DEF Behind

LEMMA BehindMore ==
    ASSUME NEW e, NEW p, NEW S, NEW T \in SUBSET S, Behind(p, T, e)
    PROVE  Behind(p, S, e)
BY DEF Behind

LEMMA BehindOne ==
    ASSUME NEW e, NEW p, NEW S, Behind(p, S, e)
    PROVE  \E d \in S : Behind(p, {d}, e)
BY DEF Behind

\* When the program waits for no pass, whoever has asked for an entry is done or
\* behind the passes that sync_entry waits for.
LEMMA SyncBehind ==
    ASSUME Lives, Ordered, main.op # "sync", NEW e \in Entry, NEW p \in Askers(e)
    PROVE  Done(p) \/ Behind(p, SyncDeps(entry[e]), e)
<1> DEFINE x == entry[e]
<1>1. /\ p \in Pass /\ Owners(e) \subseteq Writers(e) /\ x.shared \subseteq Askers(e)
      /\ \A w \in Owners(e), r \in x.shared : w <= r
      /\ Done(p) \/ Behind(p, Owners(e), e) \/ p \in x.shared
    BY WritersAsk DEF Ordered, EntryInv, MainBehind
<1>2. TypeOK /\ LifeInv /\ DoneInv
    BY DEF Lives, Ordered
<1>3. CASE p \in x.shared
    BY <1>3 DEF SyncDeps, Behind
<1>4. ASSUME NEW o \in Owners(e), Behind(p, {o}, e), x.shared # {}
      PROVE  Behind(p, SyncDeps(x), e)
  <2>1. PICK r \in x.shared : TRUE
    BY <1>4
  <2>2. Behind(p, {r}, e)
    BY <1>1, <1>2, <1>4, <2>1, Through
  <2> QED BY <1>4, <2>1, <2>2 DEF SyncDeps, Behind
<1>5. ASSUME NEW o \in Owners(e), Behind(p, {o}, e), x.shared = {}
      PROVE  Done(p) \/ Behind(p, SyncDeps(x), e)
  <2>1. o = x.owned /\ o # NoPass /\ o \in Pass /\ pass[o].phase # "none"
    BY <1>1, WritersAsk DEF Owners
  <2>2. CASE Alive(o)
    <3>1. o \in SyncDeps(x)
      BY <1>5, <2>1, <2>2 DEF SyncDeps, LivePasses
    <3> QED BY <1>5, <3>1 DEF Behind
  <2>3. CASE ~ Alive(o)
    <3>1. \A d \in {o} : Done(d)
      BY <1>2, <2>1, <2>3, LivesIs
    <3> QED BY <1>2, <1>5, <2>1, <3>1, <1>1, BehindDone
  <2> QED BY <2>2, <2>3
<1> QED BY <1>1, <1>3, <1>4, <1>5, BehindOne

-----------------------------------------------------------------------------
(* Steps that leave what has been asked alone.                             *)

\* What the passes have asked for is as it was.
AskedAlike == \A e : Askers(e)' = Askers(e) /\ Writers(e)' = Writers(e)

\* No pass that is done ceases to be.
DoneGrows == \A p \in Pass : Done(p) => Done(p)'

LEMMA SameBehind ==
    ASSUME AskedAlike, NEW e, NEW p, NEW S
    PROVE  Behind(p, S, e)' <=> Behind(p, S, e)
BY DEF AskedAlike, Behind, Separated

LEMMA PassFrame ==
    ASSUME DepsInv, DoneInv, AskedAlike, DoneGrows,
           \A p \in Pass : Begun(p)' <=> Begun(p),
           \A p \in Pass : pass'[p].deps = pass[p].deps
    PROVE  DepsInv' /\ DoneInv'
<1>1. DoneInv'
    BY DEF DoneInv, AskedAlike, DoneGrows, Separated
<1>2. ASSUME NEW e \in Entry, NEW p \in Pass, NEW q \in Pass,
             ~ Begun(q)', Separated(p, q, e)'
      PROVE  (Done(p) \/ Behind(p, pass[q].deps, e))'
  <2>1. ~ Begun(q) /\ Separated(p, q, e)
    BY <1>2 DEF AskedAlike, Separated
  <2>2. Done(p) \/ Behind(p, pass[q].deps, e)
    BY <2>1 DEF DepsInv
  <2>3. PICK S : S = pass[q].deps
    OBVIOUS
  <2>4. Behind(p, S, e)' <=> Behind(p, S, e)
    BY SameBehind
  <2> QED BY <2>2, <2>3, <2>4 DEF DoneGrows, Behind
<1> QED BY <1>1, <1>2 DEF DepsInv

LEMMA EntryFrame ==
    ASSUME EntryInv, AskedAlike, DoneGrows, entry' = entry,
           \A e \in Entry, p \in Pass : MainBehind(p, e) => Done(p)' \/ MainBehind(p, e)'
    PROVE  EntryInv'
<1> SUFFICES ASSUME NEW e \in Entry
             PROVE  (/\ \A p \in Writers(e) : \/ Done(p) \/ Behind(p, Owners(e), e)
                                              \/ MainBehind(p, e)
                     /\ \A p \in Askers(e) : \/ Done(p) \/ Behind(p, Owners(e), e)
                                             \/ MainBehind(p, e) \/ p \in entry[e].shared
                     /\ Owners(e) \subseteq Writers(e)
                     /\ entry[e].shared \subseteq Askers(e)
                     /\ \A w \in Owners(e), r \in entry[e].shared : w <= r)'
    BY DEF EntryInv
<1>1. PICK S : S = Owners(e) /\ Owners(e)' = S
    BY DEF Owners
<1>2. \A p : Behind(p, S, e)' <=> Behind(p, S, e)
    BY SameBehind
<1>3. \A p : Behind(p, Owners(e), e) => Behind(p, Owners(e), e)'
    BY <1>1, <1>2 DEF Behind
<1>4. Askers(e)' = Askers(e) /\ Writers(e)' = Writers(e)
    BY DEF AskedAlike
<1>5. Askers(e) \subseteq Pass /\ Writers(e) \subseteq Pass
    BY WritersAsk
<1> QED BY <1>1, <1>3, <1>4, <1>5 DEF EntryInv, DoneGrows

LEMMA UsesFrame ==
    ASSUME UsesInv, AskedAlike, DoneGrows, main'.op = "sync" => main' = main
    PROVE  UsesInv'
<1> SUFFICES ASSUME NothingMoves, main'.op = "sync", NEW e \in main.uses,
                    NEW p \in IF main.writes THEN Askers(e) ELSE Writers(e)
             PROVE  Done(p)' \/ Behind(p, main.for, e)'
    BY DEF UsesInv, AskedAlike, NothingMoves
<1>1. main' = main /\ p \in Pass
    BY WritersAsk
<1>2. Done(p) \/ Behind(p, main.for, e)
    BY <1>1 DEF UsesInv
<1>3. PICK S : S = main.for /\ main'.for = S
    BY <1>1
<1>4. Behind(p, S, e)' <=> Behind(p, S, e)
    BY SameBehind
<1> QED BY <1>1, <1>2, <1>3, <1>4 DEF DoneGrows, Behind

\* Where entries and the program's wait are as they were.
LEMMA OrderFrame ==
    ASSUME Ordered, AskedAlike, DoneGrows, entry' = entry,
           main.op = "sync" \/ main'.op = "sync" => main' = main,
           \A p \in Pass : Begun(p)' <=> Begun(p),
           \A p \in Pass : pass'[p].deps = pass[p].deps
    PROVE  Ordered'
<1>1. DepsInv' /\ DoneInv'
    BY PassFrame DEF Ordered
<1>2. UsesInv'
    BY UsesFrame DEF Ordered
<1>3. ASSUME NEW e \in Entry, NEW p \in Pass, MainBehind(p, e)
      PROVE  MainBehind(p, e)'
  <2>1. main.op = "sync" /\ main' = main /\ Behind(p, main.for, e)
    BY <1>3 DEF MainBehind
  <2>2. PICK S : S = main.for /\ main'.for = S
    BY <2>1
  <2>3. Behind(p, S, e)' <=> Behind(p, S, e)
    BY SameBehind
  <2> QED BY <2>1, <2>2, <2>3 DEF MainBehind, Behind
<1>4. EntryInv'
    BY <1>3, EntryFrame DEF Ordered
<1> QED BY <1>1, <1>2, <1>4 DEF Ordered

\* A pass is only given another phase, or let go.
Stays(p) == /\ pass'[p].kind = pass[p].kind /\ pass'[p].addr = pass[p].addr
            /\ pass'[p].waits = pass[p].waits /\ pass'[p].todo = pass[p].todo

\* Where the program goes on as before, or was not creating a pass.
LEMMA AskedFrame ==
    ASSUME TypeOK, \A p \in Pass : Stays(p),
           \A p \in Pass : pass'[p].phase = "none" <=> pass[p].phase = "none",
           main.op = "create" => main' = main, main'.op = "create" => main' = main
    PROVE  AskedAlike /\ (RequestInv => RequestInv')
<1>1. \A p \in Pass : Left(p)' = Left(p) /\ Asked(p)' = Asked(p)
    BY DEF Left, Asked, Stays
<1>2. AskedAlike
    BY <1>1, SameAsked DEF AskedAlike, Stays
<1>3. RequestInv => RequestInv'
  <2> SUFFICES ASSUME RequestInv, main'.op = "create" PROVE RequestInv'
    BY DEF RequestInv
  <2>1. main' = main /\ main.p \in Pass
    BY MainIs
  <2> QED BY <1>1, <2>1 DEF RequestInv
<1> QED BY <1>2, <1>3

\* One pass is given another record.
LEMMA PassSet ==
    ASSUME TypeOK, NEW p \in Pass, NEW x \in PassType, pass' = [pass EXCEPT ![p] = x]
    PROVE  /\ pass' \in [Pass -> PassType]
           /\ pass'[p] = x /\ \A q \in Pass : q # p => pass'[q] = pass[q]
<1>1. pass \in [Pass -> PassType]
    BY DEF TypeOK, PassType
<1> HIDE DEF PassType
<1> QED BY <1>1

\* One pass goes to another phase.
LEMMA PhaseSet ==
    ASSUME TypeOK, NEW p \in Pass, NEW ph \in Phase, pass' = [pass EXCEPT ![p].phase = ph]
    PROVE  /\ pass' \in [Pass -> PassType]
           /\ \A q \in Pass : /\ Stays(q) /\ pass'[q].deps = pass[q].deps
                              /\ pass'[q].held = pass[q].held
                              /\ pass'[q].phase = IF q = p THEN ph ELSE pass[q].phase
<1>1. pass[p] \in PassType
    BY DEF TypeOK, PassType
<1>2. PICK x : x = [pass[p] EXCEPT !.phase = ph]
    OBVIOUS
<1>3. /\ x \in PassType /\ x.phase = ph /\ x.kind = pass[p].kind /\ x.addr = pass[p].addr
      /\ x.waits = pass[p].waits /\ x.todo = pass[p].todo
      /\ x.deps = pass[p].deps /\ x.held = pass[p].held
    BY <1>1, <1>2 DEF PassType
<1>4. pass' = [pass EXCEPT ![p] = x]
    BY <1>2
<1>5. /\ pass' \in [Pass -> PassType]
      /\ pass'[p] = x /\ \A q \in Pass : q # p => pass'[q] = pass[q]
    BY <1>3, <1>4, PassSet
<1> QED BY <1>3, <1>5 DEF Stays

\* One pass has other dependencies.
LEMMA DepsSet ==
    ASSUME TypeOK, NEW p \in Pass, NEW D, pass' = [pass EXCEPT ![p].deps = D]
    PROVE  /\ D \subseteq Pass => pass' \in [Pass -> PassType]
           /\ \A q \in Pass : /\ Stays(q) /\ pass'[q].held = pass[q].held
                              /\ pass'[q].phase = pass[q].phase
                              /\ pass'[q].deps = IF q = p THEN D ELSE pass[q].deps
<1>1. pass \in [Pass -> PassType] /\ pass[p] \in PassType
    BY DEF TypeOK, PassType
<1>2. PICK x : x = [pass[p] EXCEPT !.deps = D]
    OBVIOUS
<1>3. /\ x.phase = pass[p].phase /\ x.kind = pass[p].kind /\ x.addr = pass[p].addr
      /\ x.waits = pass[p].waits /\ x.todo = pass[p].todo
      /\ x.deps = D /\ x.held = pass[p].held
      /\ D \subseteq Pass => x \in PassType
    BY <1>1, <1>2 DEF PassType
<1>4. pass'[p] = x /\ \A q \in Pass : q # p => pass'[q] = pass[q]
  <2> HIDE DEF PassType
  <2> QED BY <1>1, <1>2
<1>5. x \in PassType => pass' \in [Pass -> PassType]
  <2> HIDE DEF PassType
  <2>1. pass' = [pass EXCEPT ![p] = x]
    BY <1>2
  <2> QED BY <1>1, <2>1
<1> QED BY <1>3, <1>4, <1>5 DEF Stays

\* No pass comes alive or begins to be created, and no event changes.
LEMMA EventFrame ==
    ASSUME TypeOK, EventInv, event' = event, \A p \in Pass : Stays(p), DoneGrows,
           \A p \in Pass : Alive(p)' => Alive(p),
           \A p \in Pass : pass'[p].phase = "creating" <=> pass[p].phase = "creating"
    PROVE  EventInv'
<1>1. ASSUME NEW p \in Pass, pass'[p].phase # "creating", Alive(p)'
      PROVE  event'[pass'[p].addr].of = p
    BY <1>1 DEF EventInv, Stays
<1>2. ASSUME NEW p \in Pass, pass'[p].phase = "creating"
      PROVE  event'[pass'[p].addr].of = NoPass
    BY <1>2 DEF EventInv, Stays
<1>3. ASSUME NEW a \in Addr, event'[a].set
      PROVE  event'[a].of # NoPass /\ Done(event[a].of)'
  <2>1. PICK o : o = event[a].of
    OBVIOUS
  <2>2. o # NoPass /\ Done(o) /\ o \in Pass
    BY <1>3, <2>1 DEF EventInv, TypeOK
  <2>3. Done(o)'
    BY <2>2 DEF DoneGrows
  <2> QED BY <2>1, <2>2, <2>3 DEF Done
<1> QED BY <1>1, <1>2, <1>3 DEF EventInv

-----------------------------------------------------------------------------
(* The steps of passes, and those that schedule them or let them go.       *)

LEMMA ScheduleKeeps ==
    ASSUME Careful, IInv, NEW p \in Pass, Schedule(p)
    PROVE  IInv'
<1>1. TypeOK /\ LifeInv /\ RequestInv /\ EventInv /\ MainInv /\ Ordered
    BY DEF IInv, Lives
<1>2. /\ main.op = "idle" /\ main' = main /\ entry' = entry /\ event' = event
      /\ pass[p].phase = "created" /\ pass[p].held
    BY DEF Schedule, Idle
<1>3. /\ pass' \in [Pass -> PassType]
      /\ \A q \in Pass : /\ Stays(q) /\ pass'[q].deps = pass[q].deps
                         /\ pass'[q].held = pass[q].held
                         /\ pass'[q].phase = IF q = p THEN "scheduled" ELSE pass[q].phase
  <2>1. pass[p] \in PassType /\ pass[p].todo = <<>> /\ Queried(pass[p].kind) = <<>>
    BY <1>1, <1>2 DEF TypeOK, PassType, LifeInv, Queried, Careful, AsksForAll
  <2>2. PICK x : x = [pass[p] EXCEPT !.phase = "scheduled", !.todo = <<>>]
    OBVIOUS
  <2>3. /\ x \in PassType /\ x.phase = "scheduled" /\ x.kind = pass[p].kind
        /\ x.addr = pass[p].addr /\ x.waits = pass[p].waits /\ x.deps = pass[p].deps
        /\ x.held = pass[p].held /\ x.todo = pass[p].todo
    BY <2>1, <2>2 DEF PassType, Phase
  <2>4. pass' = [pass EXCEPT ![p] = x]
    BY <2>1, <2>2 DEF Schedule
  <2>5. /\ pass' \in [Pass -> PassType]
        /\ pass'[p] = x /\ \A q \in Pass : q # p => pass'[q] = pass[q]
    BY <1>1, <2>3, <2>4, PassSet
  <2> QED BY <2>3, <2>5 DEF Stays
<1>4. TypeOK'
    BY <1>1, <1>2, <1>3 DEF TypeOK, PassType
<1>5. LifeInv'
    BY <1>1, <1>2, <1>3 DEF LifeInv, Stays
<1>6. DoneGrows /\ \A q \in Pass : (Begun(q)' <=> Begun(q)) /\ (Alive(q)' <=> Alive(q))
    BY <1>2, <1>3 DEF DoneGrows, Done, Begun, Alive
<1>7. EventInv'
    BY <1>1, <1>2, <1>3, <1>6, EventFrame
<1>8. MainInv'
    BY <1>1, <1>2, <1>3 DEF MainInv
<1>9. AskedAlike /\ RequestInv'
    BY <1>1, <1>2, <1>3, AskedFrame
<1>10. Ordered'
    BY <1>1, <1>2, <1>3, <1>6, <1>9, OrderFrame
<1> QED BY <1>4, <1>5, <1>7, <1>8, <1>9, <1>10 DEF IInv, Lives

LEMMA ForegoKeeps ==
    ASSUME Careful, IInv, NEW p \in Pass, Forego(p)
    PROVE  IInv'
<1>1. TypeOK /\ LifeInv /\ RequestInv /\ EventInv /\ MainInv /\ Ordered
    BY DEF IInv, Lives
<1>2. /\ main.op = "idle" /\ main' = main /\ entry' = entry /\ event' = event
      /\ pass[p].phase \notin {"created", "creating"}
    BY <1>1 DEF Forego, Idle, Careful, LifeInv
<1>3. /\ pass' \in [Pass -> PassType]
      /\ \A q \in Pass : /\ Stays(q) /\ pass'[q].deps = pass[q].deps
                         /\ q # p => pass'[q].held = pass[q].held
                         /\ pass'[q].phase = pass[q].phase
      /\ ~ pass'[p].held
  <2>1. pass[p] \in PassType
    BY <1>1 DEF TypeOK, PassType
  <2>2. PICK x : x = [pass[p] EXCEPT !.held = FALSE]
    OBVIOUS
  <2>3. /\ x \in PassType /\ x.phase = pass[p].phase /\ x.kind = pass[p].kind
        /\ x.addr = pass[p].addr /\ x.waits = pass[p].waits /\ x.deps = pass[p].deps
        /\ ~ x.held /\ x.todo = pass[p].todo
    BY <2>1, <2>2 DEF PassType
  <2>4. pass' = [pass EXCEPT ![p] = x]
    BY <2>2 DEF Forego
  <2>5. /\ pass' \in [Pass -> PassType]
        /\ pass'[p] = x /\ \A q \in Pass : q # p => pass'[q] = pass[q]
    BY <1>1, <2>3, <2>4, PassSet
  <2> QED BY <1>1, <2>3, <2>5 DEF Stays
<1>4. TypeOK'
    BY <1>1, <1>2, <1>3 DEF TypeOK, PassType
<1>5. LifeInv'
    BY <1>1, <1>2, <1>3 DEF LifeInv, Stays
<1>6. DoneGrows /\ \A q \in Pass : (Begun(q)' <=> Begun(q)) /\ (Alive(q)' => Alive(q))
    BY <1>1, <1>2, <1>3 DEF LifeInv, DoneGrows, Done, Begun, Alive
<1>7. EventInv'
    BY <1>1, <1>2, <1>3, <1>6, EventFrame
<1>8. MainInv'
    BY <1>1, <1>2, <1>3 DEF MainInv
<1>9. AskedAlike /\ RequestInv'
    BY <1>1, <1>2, <1>3, AskedFrame
<1>10. Ordered'
    BY <1>1, <1>2, <1>3, <1>6, <1>9, OrderFrame
<1> QED BY <1>4, <1>5, <1>7, <1>8, <1>9, <1>10 DEF IInv, Lives

\* No pass here waits for what has changed.
LEMMA CreateTasksKeeps ==
    ASSUME IInv, NEW p \in Pass, CreateTasks(p)
    PROVE  IInv'
<1>1. TypeOK /\ LifeInv /\ RequestInv /\ EventInv /\ MainInv /\ Ordered
    BY DEF IInv, Lives
<1>2. pass[p].phase = "scheduled" /\ pass[p].waits = {} /\ pass[p].todo = <<>>
    BY <1>1 DEF CreateTasks, LifeInv
<1>3. main' = main /\ event' = event
    BY DEF CreateTasks
<1>4. entry' = entry
  <2>1. entry' = [e \in Entry |-> entry[e]]
    BY <1>2 DEF CreateTasks
  <2> QED BY <1>1, <2>1 DEF TypeOK
<1>5. /\ pass' \in [Pass -> PassType]
      /\ \A q \in Pass : /\ Stays(q) /\ pass'[q].deps = pass[q].deps
                         /\ pass'[q].held = pass[q].held
                         /\ pass'[q].phase = IF q = p THEN "ready" ELSE pass[q].phase
  <2>1. pass[p] \in PassType
    BY <1>1 DEF TypeOK, PassType
  <2>2. PICK x : x = [pass[p] EXCEPT !.phase = "ready", !.todo = <<>>, !.waits = {}]
    OBVIOUS
  <2>3. /\ x \in PassType /\ x.phase = "ready" /\ x.kind = pass[p].kind
        /\ x.addr = pass[p].addr /\ x.waits = {} /\ x.deps = pass[p].deps
        /\ x.held = pass[p].held /\ x.todo = pass[p].todo
    BY <1>2, <2>1, <2>2 DEF PassType, Phase
  <2>4. pass' = [pass EXCEPT ![p] = x]
    BY <1>2, <2>2 DEF CreateTasks
  <2>5. /\ pass' \in [Pass -> PassType]
        /\ pass'[p] = x /\ \A q \in Pass : q # p => pass'[q] = pass[q]
    BY <1>1, <2>3, <2>4, PassSet
  <2> QED BY <1>2, <2>3, <2>5 DEF Stays
<1>6. TypeOK'
    BY <1>1, <1>3, <1>4, <1>5 DEF TypeOK, PassType
<1>7. LifeInv'
    BY <1>1, <1>2, <1>3, <1>5 DEF LifeInv, Stays
<1>8. DoneGrows /\ \A q \in Pass : (Begun(q)' <=> Begun(q)) /\ (Alive(q)' <=> Alive(q))
    BY <1>2, <1>5 DEF DoneGrows, Done, Begun, Alive
<1>9. EventInv'
    BY <1>1, <1>2, <1>3, <1>5, <1>8, EventFrame
<1>10. MainInv'
    BY <1>1, <1>3, <1>5, MainIs DEF MainInv
<1>11. AskedAlike /\ RequestInv'
    BY <1>1, <1>2, <1>3, <1>5, AskedFrame
<1>12. Ordered'
    BY <1>1, <1>3, <1>4, <1>5, <1>8, <1>11, OrderFrame
<1> QED BY <1>6, <1>7, <1>9, <1>10, <1>11, <1>12 DEF IInv, Lives

\* Passes whose events are signalled are done.
LEMMA SignalledDone ==
    ASSUME Lives, NEW S, S \subseteq Pass, Signalled(S),
           \A d \in S : pass[d].phase \notin {"none", "creating"}
    PROVE  \A d \in S : Done(d)
<1> SUFFICES ASSUME NEW d \in S PROVE Done(d)
    OBVIOUS
<1>1. d \in Pass /\ TypeOK /\ LifeInv /\ EventInv /\ pass[d].phase \notin {"none", "creating"}
    BY DEF Lives
<1>2. CASE ~ Alive(d)
    BY <1>1, <1>2, LivesIs
<1>3. CASE Alive(d)
  <2>1. d # NoPass /\ pass[d].addr \in Addr
    BY <1>1, PipelineAssumption DEF LifeInv
  <2>2. event[pass[d].addr].of = d
    BY <1>1, <1>3 DEF EventInv
  <2>3. event[pass[d].addr].set
    BY <1>3, <2>1 DEF Signalled, LivePasses
  <2> QED BY <1>1, <2>1, <2>2, <2>3 DEF EventInv
<1> QED BY <1>2, <1>3

LEMMA RunKeeps ==
    ASSUME IInv, NEW p \in Pass, Run(p)
    PROVE  IInv'
<1>1. TypeOK /\ LifeInv /\ RequestInv /\ EventInv /\ MainInv /\ Ordered
    BY DEF IInv, Lives
<1>2. /\ pass[p].phase = "ready" /\ main' = main /\ entry' = entry /\ event' = event
      /\ pass[p].waits = {}
    BY <1>1 DEF Run, LifeInv
<1>3. /\ pass' \in [Pass -> PassType]
      /\ \A q \in Pass : /\ Stays(q) /\ pass'[q].held = pass[q].held
                         /\ pass'[q].deps = IF q = p THEN {} ELSE pass[q].deps
                         /\ pass'[q].phase = IF q = p THEN "running" ELSE pass[q].phase
  <2>1. pass[p] \in PassType
    BY <1>1 DEF TypeOK, PassType
  <2>2. PICK x : x = [pass[p] EXCEPT !.phase = "running", !.deps = {}]
    OBVIOUS
  <2>3. /\ x \in PassType /\ x.phase = "running" /\ x.kind = pass[p].kind
        /\ x.addr = pass[p].addr /\ x.waits = pass[p].waits /\ x.todo = pass[p].todo
        /\ x.deps = {} /\ x.held = pass[p].held
    BY <2>1, <2>2 DEF PassType, Phase
  <2>4. pass' = [pass EXCEPT ![p] = x]
    BY <2>2 DEF Run
  <2>5. /\ pass' \in [Pass -> PassType]
        /\ pass'[p] = x /\ \A q \in Pass : q # p => pass'[q] = pass[q]
    BY <1>1, <2>3, <2>4, PassSet
  <2> QED BY <1>2, <2>3, <2>5 DEF Stays
<1>4. TypeOK'
    BY <1>1, <1>2, <1>3 DEF TypeOK, PassType
<1>5. LifeInv'
    BY <1>1, <1>2, <1>3 DEF LifeInv, Stays
<1>6. DoneGrows /\ \A q \in Pass : (Alive(q)' <=> Alive(q))
    BY <1>2, <1>3 DEF DoneGrows, Done, Alive
<1>7. EventInv'
    BY <1>1, <1>2, <1>3, <1>6, EventFrame
<1>8. MainInv'
    BY <1>1, <1>2, <1>3, MainIs DEF MainInv
<1>9. AskedAlike /\ RequestInv'
    BY <1>1, <1>2, <1>3, AskedFrame
<1>10. \A d \in pass[p].deps : Done(d)
  <2>1. pass[p].deps \subseteq Pass /\ Signalled(pass[p].deps)
    <3>1. Signalled(pass[p].deps)
      BY DEF Run, MayRun
    <3> QED BY <1>1, <3>1, PassIs
  <2>2. \A d \in pass[p].deps : pass[d].phase \notin {"none", "creating"}
    <3> SUFFICES ASSUME NEW d \in pass[p].deps
                 PROVE  pass[d].phase \notin {"none", "creating"}
      OBVIOUS
    <3>1. d \in Pass /\ d <= p /\ d \in Nat /\ p \in Nat
      BY <1>1, <2>1, PassIs DEF LifeInv
    <3>2. d = p \/ d < p
      BY <3>1
    <3> QED BY <1>1, <1>2, <3>1, <3>2 DEF LifeInv
  <2> QED BY <2>1, <2>2, SignalledDone DEF IInv
<1>11. DoneInv'
  <2> SUFFICES ASSUME NEW e \in Entry, NEW a \in Pass, NEW q \in Pass,
                      Begun(q)', Separated(a, q, e)'
               PROVE  Done(a)'
    BY DEF DoneInv
  <2>1. Separated(a, q, e)
    BY <1>9 DEF AskedAlike, Separated
  <2>2. CASE q # p
    <3>1. Begun(q)
      BY <1>3, <2>2 DEF Begun
    <3> QED BY <1>1, <1>6, <2>1, <3>1 DEF Ordered, DoneInv, DoneGrows
  <2>3. CASE q = p
    <3>1. Done(a) \/ Behind(a, pass[p].deps, e)
      BY <1>1, <1>2, <2>1, <2>3 DEF Ordered, DepsInv, Begun
    <3>2. Done(a)
      BY <1>1, <1>10, <3>1, PassIs, BehindDone DEF Ordered
    <3> QED BY <1>6, <3>2 DEF DoneGrows
  <2> QED BY <2>2, <2>3
<1>12. DepsInv'
  <2> SUFFICES ASSUME NEW e \in Entry, NEW a \in Pass, NEW q \in Pass,
                      ~ Begun(q)', Separated(a, q, e)'
               PROVE  (Done(a) \/ Behind(a, pass[q].deps, e))'
    BY DEF DepsInv
  <2>1. Separated(a, q, e) /\ q # p /\ ~ Begun(q) /\ pass'[q].deps = pass[q].deps
    BY <1>3, <1>9 DEF AskedAlike, Separated, Begun
  <2>2. Done(a) \/ Behind(a, pass[q].deps, e)
    BY <1>1, <2>1 DEF Ordered, DepsInv
  <2>3. PICK S : S = pass[q].deps /\ pass'[q].deps = S
    BY <2>1
  <2>4. Behind(a, S, e)' <=> Behind(a, S, e)
    BY <1>9, SameBehind
  <2> QED BY <1>6, <2>2, <2>3, <2>4 DEF DoneGrows, Behind
<1>13. UsesInv'
    BY <1>1, <1>2, <1>6, <1>9, UsesFrame DEF Ordered
<1>14. EntryInv'
  <2>1. ASSUME NEW e \in Entry, NEW a \in Pass, MainBehind(a, e) PROVE MainBehind(a, e)'
    <3>1. PICK S : S = main.for
      OBVIOUS
    <3>2. Behind(a, S, e)' <=> Behind(a, S, e)
      BY <1>9, SameBehind
    <3> QED BY <1>2, <2>1, <3>1, <3>2 DEF MainBehind, Behind
  <2> QED BY <1>1, <1>2, <1>6, <1>9, <2>1, EntryFrame DEF Ordered
<1> QED BY <1>4, <1>5, <1>7, <1>8, <1>9, <1>11, <1>12, <1>13, <1>14 DEF IInv, Lives, Ordered

LEMMA SignalKeeps ==
    ASSUME IInv, NEW p \in Pass, Signal(p)
    PROVE  IInv'
<1>1. TypeOK /\ LifeInv /\ RequestInv /\ EventInv /\ MainInv /\ Ordered
    BY DEF IInv, Lives
<1> DEFINE a == pass[p].addr
<1>2. /\ pass[p].phase = "running" /\ main' = main /\ entry' = entry
      /\ a \in Addr /\ event[a].of = p
    BY <1>1 DEF Signal, LifeInv, EventInv, Alive
<1>3. /\ pass' \in [Pass -> PassType]
      /\ \A q \in Pass : /\ Stays(q) /\ pass'[q].deps = pass[q].deps
                         /\ pass'[q].held = pass[q].held
                         /\ pass'[q].phase = IF q = p THEN "signalled" ELSE pass[q].phase
  <2>1. pass' = [pass EXCEPT ![p].phase = "signalled"] /\ "signalled" \in Phase
    BY <1>1 DEF Signal, Phase
  <2> QED BY <1>1, <1>2, <2>1, PhaseSet
<1>4. /\ event' \in [Addr -> [of : Pass \cup {NoPass}, set : BOOLEAN]]
      /\ \A b \in Addr : /\ event'[b].of = event[b].of
                         /\ b # a => event'[b].set = event[b].set
  <2>1. event' = [event EXCEPT ![a].set = TRUE]
    BY DEF Signal, SetEvent
  <2>2. event \in [Addr -> [of : Pass \cup {NoPass}, set : BOOLEAN]]
    BY <1>1 DEF TypeOK
  <2>3. PICK y : y = [event[a] EXCEPT !.set = TRUE]
    OBVIOUS
  <2>4. y \in [of : Pass \cup {NoPass}, set : BOOLEAN] /\ y.of = event[a].of
    BY <1>2, <2>2, <2>3
  <2>5. /\ event' = [event EXCEPT ![a] = y]
        /\ event'[a] = y /\ \A b \in Addr : b # a => event'[b] = event[b]
    BY <1>2, <2>1, <2>2, <2>3
  <2> QED BY <1>2, <2>2, <2>4, <2>5
<1>5. TypeOK'
    BY <1>1, <1>2, <1>3, <1>4 DEF TypeOK, PassType
<1>6. LifeInv'
    BY <1>1, <1>2, <1>3 DEF LifeInv, Stays
<1>7. /\ DoneGrows /\ Done(p)'
      /\ \A q \in Pass : (Begun(q)' <=> Begun(q)) /\ (Alive(q)' <=> Alive(q))
    BY <1>2, <1>3 DEF DoneGrows, Done, Begun, Alive
<1>8. EventInv'
  <2>1. ASSUME NEW q \in Pass, Alive(q)', pass'[q].phase # "creating"
        PROVE  event'[pass'[q].addr].of = q
    <3>1. Alive(q) /\ pass[q].phase # "creating" /\ pass[q].phase # "none"
      BY <1>1, <1>2, <1>3, <1>7, <2>1 DEF LifeInv, Alive
    <3> QED BY <1>1, <1>3, <1>4, <3>1 DEF EventInv, LifeInv, Stays
  <2>2. ASSUME NEW q \in Pass, pass'[q].phase = "creating"
        PROVE  event'[pass'[q].addr].of = NoPass
    <3>1. pass[q].phase = "creating"
      BY <1>3, <2>2
    <3> QED BY <1>1, <1>3, <1>4, <3>1 DEF EventInv, LifeInv, Stays
  <2>3. ASSUME NEW b \in Addr, event'[b].set
        PROVE  event'[b].of # NoPass /\ Done(event[b].of)'
    <3>1. CASE b = a
      BY <1>2, <1>4, <1>7, <3>1, PipelineAssumption
    <3>2. CASE b # a
      <4>1. event[b].of # NoPass /\ Done(event[b].of) /\ event[b].of \in Pass
        BY <1>1, <1>4, <2>3, <3>2 DEF EventInv, TypeOK
      <4>2. PICK o : o = event[b].of
        OBVIOUS
      <4>3. Done(o)'
        BY <1>7, <4>1, <4>2 DEF DoneGrows
      <4> QED BY <1>4, <4>1, <4>2, <4>3 DEF Done
    <3> QED BY <3>1, <3>2
  <2> QED BY <2>1, <2>2, <2>3 DEF EventInv
<1>9. MainInv'
    BY <1>1, <1>2, <1>3, MainIs DEF MainInv
<1>10. AskedAlike /\ RequestInv'
    BY <1>1, <1>2, <1>3, AskedFrame
<1>11. Ordered'
    BY <1>1, <1>2, <1>3, <1>7, <1>10, OrderFrame
<1> QED BY <1>5, <1>6, <1>8, <1>9, <1>10, <1>11 DEF IInv, Lives

LEMMA ReleaseKeeps ==
    ASSUME IInv, NEW p \in Pass, Release(p)
    PROVE  IInv'
<1>1. TypeOK /\ LifeInv /\ RequestInv /\ EventInv /\ MainInv /\ Ordered
    BY DEF IInv, Lives
<1>2. /\ pass[p].phase = "signalled" /\ main' = main /\ entry' = entry /\ event' = event
    BY DEF Release
<1>3. /\ pass' \in [Pass -> PassType]
      /\ \A q \in Pass : /\ Stays(q) /\ pass'[q].deps = pass[q].deps
                         /\ pass'[q].held = pass[q].held
                         /\ pass'[q].phase = IF q = p THEN "over" ELSE pass[q].phase
  <2>1. pass' = [pass EXCEPT ![p].phase = "over"] /\ "over" \in Phase
    BY <1>1 DEF Release, Phase
  <2> QED BY <1>1, <1>2, <2>1, PhaseSet
<1>4. TypeOK'
    BY <1>1, <1>2, <1>3 DEF TypeOK, PassType
<1>5. LifeInv'
    BY <1>1, <1>2, <1>3 DEF LifeInv, Stays
<1>6. DoneGrows /\ \A q \in Pass : (Begun(q)' <=> Begun(q)) /\ (Alive(q)' => Alive(q))
    BY <1>2, <1>3 DEF DoneGrows, Done, Begun, Alive
<1>7. EventInv'
    BY <1>1, <1>2, <1>3, <1>6, EventFrame
<1>8. MainInv'
    BY <1>1, <1>2, <1>3, MainIs DEF MainInv
<1>9. AskedAlike /\ RequestInv'
    BY <1>1, <1>2, <1>3, AskedFrame
<1>10. Ordered'
    BY <1>1, <1>2, <1>3, <1>6, <1>9, OrderFrame
<1> QED BY <1>4, <1>5, <1>7, <1>8, <1>9, <1>10 DEF IInv, Lives

-----------------------------------------------------------------------------
(* The program waits for all passes, or forgets those that are over.       *)

\* Passes as they are, and the program neither creates one nor waits at entries.
LEMMA IdleFrame ==
    ASSUME IInv, pass' = pass, entry' = entry,
           main.op \in {"idle", "wait"}, main'.op \in {"idle", "wait"}, TypeOK', EventInv'
    PROVE  IInv'
<1>1. TypeOK /\ LifeInv /\ RequestInv /\ EventInv /\ MainInv /\ Ordered
    BY DEF IInv, Lives
<1>2. \A q \in Pass : Left(q) = 0 /\ Left(q)' = 0
    BY DEF Left
<1>3. AskedAlike
    BY <1>2, SameAsked DEF AskedAlike
<1>4. DoneGrows /\ \A q \in Pass : (Begun(q)' <=> Begun(q))
    BY DEF DoneGrows, Done, Begun
<1>5. LifeInv'
    BY <1>1 DEF LifeInv
<1>6. MainInv' /\ RequestInv'
    BY DEF MainInv, RequestInv
<1>7. Ordered'
    BY <1>1, <1>3, <1>4, OrderFrame
<1> QED BY <1>5, <1>6, <1>7 DEF IInv, Lives

LEMMA WaitKeeps ==
    ASSUME IInv, Wait
    PROVE  IInv'
<1>1. TypeOK /\ EventInv
    BY DEF IInv, Lives
<1>2. /\ main.op = "idle" /\ main' = [op |-> "wait"]
      /\ pass' = pass /\ entry' = entry /\ event' = event
    BY DEF Wait, Idle
<1>3. TypeOK' /\ EventInv'
    BY <1>1, <1>2 DEF TypeOK, EventInv, Alive, Done
<1> QED BY <1>2, <1>3, IdleFrame

\* What wait has waited for: no pass is alive.
LEMMA NoneAlive ==
    ASSUME Careful, IInv, WaitReturn, NEW p \in Pass
    PROVE  ~ Alive(p)
<1>1. LifeInv /\ EventInv /\ main.op = "wait"
    BY DEF IInv, Lives, WaitReturn
<1> SUFFICES ASSUME Alive(p) PROVE FALSE
    OBVIOUS
<1>2. pass[p].phase \notin {"none", "creating"} /\ pass[p].addr \in Addr
    BY <1>1 DEF LifeInv, Alive
<1>3. event[pass[p].addr].of = p
    BY <1>1, <1>2 DEF EventInv
<1>4. event[pass[p].addr].set
    BY <1>2, <1>3, PipelineAssumption DEF WaitReturn, EventsSet
<1>5. Done(p)
    BY <1>1, <1>2, <1>3, <1>4 DEF EventInv
<1> QED BY <1>5 DEF WaitReturn, Careful

LEMMA WaitReturnKeeps ==
    ASSUME Careful, IInv, WaitReturn
    PROVE  IInv'
<1>1. TypeOK /\ LifeInv
    BY DEF IInv, Lives
<1>2. /\ main.op = "wait" /\ main' = Idle /\ main'.op = "idle"
      /\ pass' = pass /\ entry' = entry /\ event' = [a \in Addr |-> NoEvent]
    BY DEF WaitReturn, Idle
<1>3. TypeOK'
  <2>1. main' \in [op : {"idle", "wait"}]
    BY <1>2 DEF Idle
  <2>2. event' \in [Addr -> [of : Pass \cup {NoPass}, set : BOOLEAN]]
    BY <1>2 DEF NoEvent
  <2> QED BY <1>1, <1>2, <2>1, <2>2 DEF TypeOK
<1>4. \A p \in Pass : ~ Alive(p)' /\ pass'[p].phase # "creating"
    BY <1>1, <1>2, NoneAlive DEF Alive, LifeInv
<1>5. EventInv'
    BY <1>2, <1>4 DEF EventInv, NoEvent
<1> QED BY <1>2, <1>3, <1>5, IdleFrame

LEMMA ForgetKeeps ==
    ASSUME IInv, Forget
    PROVE  IInv'
<1>1. TypeOK /\ LifeInv /\ EventInv
    BY DEF IInv, Lives
<1>2. /\ main.op = "idle" /\ main' = main /\ pass' = pass /\ entry' = entry
      /\ event' = [a \in Addr |-> IF Forgotten(a) THEN NoEvent ELSE event[a]]
    BY DEF Forget, Idle
<1>3. TypeOK'
  <2>1. event' \in [Addr -> [of : Pass \cup {NoPass}, set : BOOLEAN]]
    BY <1>1, <1>2 DEF NoEvent, TypeOK
  <2> QED BY <1>1, <1>2, <2>1 DEF TypeOK
<1>4. EventInv'
  <2>1. ASSUME NEW p \in Pass, Alive(p)', pass'[p].phase # "creating"
        PROVE  event'[pass'[p].addr].of = p
    <3>1. Alive(p) /\ pass[p].phase \notin {"creating", "none"} /\ pass[p].addr \in Addr
      BY <1>1, <1>2, <2>1 DEF LifeInv, Alive
    <3>2. event[pass[p].addr].of = p
      BY <1>1, <3>1 DEF EventInv
    <3> QED BY <1>2, <3>1, <3>2 DEF Forgotten
  <2>2. \A p \in Pass : pass'[p].phase # "creating"
    BY <1>1, <1>2 DEF LifeInv
  <2>3. ASSUME NEW b \in Addr, event'[b].set
        PROVE  event'[b].of # NoPass /\ Done(event[b].of)'
    <3>1. event'[b] = event[b]
      BY <1>2, <2>3 DEF NoEvent
    <3>2. event[b].of # NoPass /\ Done(event[b].of)
      BY <1>1, <2>3, <3>1 DEF EventInv
    <3> QED BY <1>2, <3>1, <3>2 DEF Done
  <2> QED BY <2>1, <2>2, <2>3 DEF EventInv
<1> QED BY <1>2, <1>3, <1>4, IdleFrame

-----------------------------------------------------------------------------
(* The program creates a pass: its beginning and its end.                  *)

LEMMA CreatePassKeeps ==
    ASSUME Careful, IInv, NEW p \in Pass, NEW kind \in Kinds, NEW a \in Addr,
           CreatePass(p, kind, a)
    PROVE  IInv'
<1>1. TypeOK /\ LifeInv /\ RequestInv /\ EventInv /\ MainInv /\ Ordered
    BY DEF IInv, Lives
<1>2. /\ main.op = "idle" /\ entry' = entry /\ event' = event /\ pass[p].phase = "none"
      /\ main' = [op |-> "create", p |-> p, rest |-> Requests(kind), synced |-> {}]
    BY DEF CreatePass, Idle
<1>3. /\ pass' \in [Pass -> PassType]
      /\ \A q \in Pass : q # p => pass'[q] = pass[q]
      /\ pass'[p].phase = "creating" /\ pass'[p].kind = kind /\ pass'[p].held
      /\ pass'[p].addr = a /\ pass'[p].deps = {} /\ pass'[p].waits = {}
      /\ pass'[p].todo = <<>>
  <2>1. PICK x : x = [NewPass EXCEPT !.phase = "creating", !.kind = kind,
                                     !.held = TRUE, !.addr = a]
    OBVIOUS
  <2>2. /\ x \in PassType /\ x.phase = "creating" /\ x.kind = kind /\ x.held
        /\ x.addr = a /\ x.deps = {} /\ x.waits = {} /\ x.todo = <<>>
    <3>1. PICK none : none = <<>>
      OBVIOUS
    <3>2. /\ none \in Seq(Archetype)
          /\ x = [phase |-> "creating", kind |-> kind, held |-> TRUE, addr |-> a, deps |-> {},
                 todo |-> none, waits |-> {}, own |-> FALSE]
      <4>1. none \in Seq(Archetype)
        BY <3>1
      <4>2. NewPass = [phase |-> "none", kind |-> NoKind, held |-> FALSE, addr |-> NoAddr,
                       deps |-> {}, todo |-> none, waits |-> {}, own |-> FALSE]
        BY <3>1 DEF NewPass
      <4> QED BY <2>1, <4>1, <4>2
    <3>3. x \in PassType
      BY <3>2 DEF PassType, Phase
    <3> QED BY <3>1, <3>2, <3>3
  <2>3. pass' = [pass EXCEPT ![p] = x]
    BY <2>1 DEF CreatePass
  <2>4. /\ pass' \in [Pass -> PassType]
        /\ pass'[p] = x /\ \A q \in Pass : q # p => pass'[q] = pass[q]
    BY <1>1, <2>2, <2>3, PassSet
  <2> QED BY <2>2, <2>4
<1>4. Requests(kind) \in Seq(Request)
    BY DEF Careful, AsksForAll
<1>5. TypeOK'
  <2>1. main' \in [op : {"create"}, p : Pass, rest : Seq(Request), synced : SUBSET Entry]
    BY <1>2, <1>4
  <2>2. pass' \in [Pass -> [phase : Phase, kind : Kinds \cup {NoKind}, held : BOOLEAN,
                            addr : Addr \cup {NoAddr},
                            deps : SUBSET Pass, todo : Seq(Archetype),
                            waits : SUBSET Pass, own : BOOLEAN]]
    BY <1>3 DEF PassType
  <2>3. /\ entry' \in [Entry -> [owned : Pass \cup {NoPass}, shared : SUBSET Pass]]
        /\ event' \in [Addr -> [of : Pass \cup {NoPass}, set : BOOLEAN]]
    BY <1>1, <1>2 DEF TypeOK
  <2> QED BY <2>1, <2>2, <2>3 DEF TypeOK
<1>6. \A q \in Pass : q < p => pass[q].phase \notin {"none", "creating"}
    BY <1>1, <1>2, PipelineAssumption DEF CreatePass, LifeInv, Pass
<1>7. \A q \in Pass : p < q => pass[q].phase = "none"
    BY <1>1, <1>2 DEF LifeInv
<1>8. \A q \in Pass : q \in Nat
    BY PipelineAssumption DEF Pass
<1>9. LifeInv'
  <2>1. \A q, r \in Pass : q < r /\ pass'[r].phase # "none" =>
            pass'[q].phase \notin {"none", "creating"}
    <3> SUFFICES ASSUME NEW q \in Pass, NEW r \in Pass, q < r, pass'[r].phase # "none"
                 PROVE  pass'[q].phase \notin {"none", "creating"}
      OBVIOUS
    <3>1. CASE r = p
      BY <1>3, <1>6, <1>8, <3>1
    <3>2. CASE r # p
      <4>1. pass[r].phase # "none" /\ q # p
        BY <1>3, <1>7, <3>2
      <4> QED BY <1>1, <1>3, <4>1 DEF LifeInv
    <3> QED BY <3>1, <3>2
  <2>2. \A q \in Pass : pass'[q].phase = "creating" <=> main'.op = "create" /\ main'.p = q
    BY <1>1, <1>2, <1>3 DEF LifeInv
  <2> QED BY <1>1, <1>3, <2>1, <2>2 DEF LifeInv
<1>10. /\ DoneGrows
       /\ \A q \in Pass : (Begun(q)' <=> Begun(q)) /\ pass'[q].deps = pass[q].deps
    BY <1>1, <1>2, <1>3 DEF DoneGrows, Done, Begun, LifeInv
<1>11. EventInv'
  <2>1. event[a].of = NoPass
    BY DEF CreatePass, FreeAddr, Careful
  <2>2. \A q \in Pass : q # p => (Alive(q)' <=> Alive(q))
    BY <1>3 DEF Alive
  <2>3. \A b \in Addr : event'[b].set => event'[b].of # NoPass /\ Done(event[b].of)'
    <3> SUFFICES ASSUME NEW b \in Addr, event[b].set
                 PROVE  event'[b].of # NoPass /\ Done(event[b].of)'
      BY <1>2
    <3>1. PICK o : o = event[b].of
      OBVIOUS
    <3>2. o \in Pass /\ o # NoPass /\ Done(o)
      BY <1>1, <3>1 DEF EventInv, TypeOK
    <3>3. Done(o)'
      BY <1>10, <3>2 DEF DoneGrows
    <3> QED BY <1>2, <3>1, <3>2, <3>3 DEF Done
  <2> QED BY <1>1, <1>2, <1>3, <2>1, <2>2, <2>3 DEF EventInv
<1>12. Asked(p)' = Requests(kind) /\ Len(Requests(kind)) \in Nat
    BY <1>3, <1>4 DEF Asked
<1>13. RequestInv'
  <2>1. /\ Asked(main.p)' = Requests(kind) /\ main'.rest = Requests(kind)
        /\ main'.synced = {} /\ Len(Requests(kind)) \in Nat
    BY <1>2, <1>12 DEF Asked
  <2>2. Len(Requests(kind)) - Len(Requests(kind)) = 0
    BY <2>1
  <2> QED BY <2>1, <2>2 DEF RequestInv, Asked
<1>14. AskedAlike
  <2> SUFFICES ASSUME NEW e PROVE Askers(e)' = Askers(e) /\ Writers(e)' = Writers(e)
    BY DEF AskedAlike
  <2>1. \A q \in Pass : q # p => /\ Left(q) = 0 /\ Left(q)' = 0 /\ Asked(q)' = Asked(q)
                                 /\ pass'[q].phase = pass[q].phase
    BY <1>2, <1>3 DEF Left, Asked
  <2>2. p \notin Askers(e) /\ p \notin Writers(e)
    BY <1>2 DEF Askers, Writers
  <2>3. Left(p)' = Len(Requests(kind))
    BY <1>2 DEF Left
  <2>4. Len(Asked(p)') - Left(p)' = 0
    BY <1>12, <2>3
  <2>5. p \notin Askers(e)' /\ p \notin Writers(e)'
    BY <2>4 DEF Askers, Writers
  <2>6. \A q \in Pass : q \in Askers(e)' <=> q \in Askers(e)
    BY <2>1, <2>2, <2>5 DEF Askers
  <2>7. \A q \in Pass : q \in Writers(e)' <=> q \in Writers(e)
    BY <2>1, <2>2, <2>5 DEF Writers
  <2> QED BY <2>6, <2>7 DEF Askers, Writers
<1>15. Ordered'
    BY <1>1, <1>2, <1>10, <1>14, OrderFrame
<1>16. MainInv'
    BY <1>2 DEF MainInv
<1> QED BY <1>5, <1>9, <1>11, <1>13, <1>15, <1>16 DEF IInv, Lives

LEMMA CreateEndKeeps ==
    ASSUME IInv, CreateEnd
    PROVE  IInv'
<1>1. TypeOK /\ LifeInv /\ RequestInv /\ EventInv /\ MainInv /\ Ordered
    BY DEF IInv, Lives
<1> DEFINE p == main.p
           a == pass[p].addr
<1>2. /\ main.op = "create" /\ main.rest = <<>> /\ p \in Pass
      /\ main' = Idle /\ main'.op = "idle" /\ entry' = entry
      /\ pass[p].phase = "creating" /\ a \in Addr /\ event[a].of = NoPass
    BY <1>1, MainIs DEF CreateEnd, Idle, LifeInv, EventInv
<1>3. /\ pass' \in [Pass -> PassType]
      /\ \A q \in Pass : /\ Stays(q) /\ pass'[q].deps = pass[q].deps
                         /\ pass'[q].held = pass[q].held
                         /\ pass'[q].phase = IF q = p THEN "created" ELSE pass[q].phase
  <2>1. pass[p] \in PassType
    BY <1>1, <1>2 DEF TypeOK, PassType
  <2>2. PICK x : x = [pass[p] EXCEPT !.phase = "created", !.own = event[a].of = NoPass]
    OBVIOUS
  <2>3. /\ x \in PassType /\ x.phase = "created" /\ x.kind = pass[p].kind
        /\ x.addr = pass[p].addr /\ x.waits = pass[p].waits /\ x.deps = pass[p].deps
        /\ x.held = pass[p].held /\ x.todo = pass[p].todo
    BY <2>1, <2>2 DEF PassType, Phase
  <2>4. pass' = [pass EXCEPT ![p] = x]
    BY <2>2 DEF CreateEnd
  <2>5. /\ pass' \in [Pass -> PassType]
        /\ pass'[p] = x /\ \A q \in Pass : q # p => pass'[q] = pass[q]
    BY <1>1, <1>2, <2>3, <2>4, PassSet
  <2> QED BY <2>3, <2>5 DEF Stays
<1>4. event' = [event EXCEPT ![a] = [of |-> p, set |-> FALSE]]
    BY <1>2 DEF CreateEnd
<1>5. TypeOK'
  <2>1. main' \in [op : {"idle", "wait"}]
    BY <1>2 DEF Idle
  <2>2. event' \in [Addr -> [of : Pass \cup {NoPass}, set : BOOLEAN]]
    BY <1>1, <1>2, <1>4 DEF TypeOK
  <2> QED BY <1>1, <1>2, <1>3, <2>1, <2>2 DEF TypeOK, PassType
<1>6. \A q \in Pass : q # p => pass[q].phase # "creating"
    BY <1>1, <1>2 DEF LifeInv
<1>7. LifeInv'
    BY <1>1, <1>2, <1>3, <1>6 DEF LifeInv, Stays
<1>8. DoneGrows /\ \A q \in Pass : (Begun(q)' <=> Begun(q)) /\ (Alive(q)' <=> Alive(q))
    BY <1>2, <1>3 DEF DoneGrows, Done, Begun, Alive
<1>9. EventInv'
  <2>1. event'[a].of = p /\ ~ event'[a].set /\ \A b \in Addr : b # a => event'[b] = event[b]
    BY <1>1, <1>2, <1>4 DEF TypeOK
  <2>2. ASSUME NEW q \in Pass, Alive(q)', pass'[q].phase # "creating"
        PROVE  event'[pass'[q].addr].of = q
    <3>1. CASE q = p
      BY <1>3, <2>1, <3>1 DEF Stays
    <3>2. CASE q # p
      <4>1. event[pass[q].addr].of = q /\ pass[q].addr \in Addr
        BY <1>1, <1>6, <1>8, <2>2, <3>2 DEF EventInv, LifeInv, Alive
      <4>2. pass[q].addr # a
        BY <1>2, <4>1, PipelineAssumption
      <4> QED BY <1>3, <2>1, <4>1, <4>2 DEF Stays
    <3> QED BY <3>1, <3>2
  <2>3. \A q \in Pass : pass'[q].phase # "creating"
    BY <1>3, <1>6
  <2>4. ASSUME NEW b \in Addr, event'[b].set
        PROVE  event'[b].of # NoPass /\ Done(event[b].of)'
    <3>1. b # a /\ event'[b] = event[b]
      BY <2>1, <2>4
    <3>2. PICK o : o = event[b].of
      OBVIOUS
    <3>3. o \in Pass /\ o # NoPass /\ Done(o)
      BY <1>1, <2>4, <3>1, <3>2 DEF EventInv, TypeOK
    <3>4. Done(o)'
      BY <1>8, <3>3 DEF DoneGrows
    <3> QED BY <3>1, <3>2, <3>3, <3>4 DEF Done
  <2> QED BY <2>2, <2>3, <2>4 DEF EventInv
<1>10. AskedAlike
  <2>1. \A q \in Pass : Left(q) = 0 /\ Left(q)' = 0
    BY <1>2 DEF Left
  <2> QED BY <1>2, <1>3, <2>1, SameAsked DEF AskedAlike, Stays
<1>11. Ordered'
    BY <1>1, <1>2, <1>3, <1>8, <1>10, OrderFrame
<1>12. MainInv' /\ RequestInv'
    BY <1>2 DEF MainInv, RequestInv
<1> QED BY <1>5, <1>7, <1>9, <1>11, <1>12 DEF IInv, Lives

-----------------------------------------------------------------------------
(* The program waits at entries.                                           *)

LEMMA SyncFrame ==
    ASSUME IInv, pass' = pass, event' = event, main.op = "idle", main'.op = "sync", TypeOK'
    PROVE  /\ LifeInv' /\ RequestInv' /\ EventInv' /\ AskedAlike
           /\ DepsInv' /\ DoneInv' /\ \A p \in Pass : Done(p)' <=> Done(p)
<1>1. TypeOK /\ LifeInv /\ RequestInv /\ EventInv /\ Ordered
    BY DEF IInv, Lives
<1>2. \A q \in Pass : Left(q) = 0 /\ Left(q)' = 0
    BY DEF Left
<1>3. AskedAlike
    BY <1>2, SameAsked DEF AskedAlike
<1>4. /\ DoneGrows /\ \A q \in Pass : (Begun(q)' <=> Begun(q)) /\ (Done(q)' <=> Done(q))
    BY DEF DoneGrows, Done, Begun
<1>5. LifeInv' /\ RequestInv'
    BY <1>1 DEF LifeInv, RequestInv
<1>6. EventInv'
    BY <1>1 DEF EventInv, Alive, Done
<1>7. DepsInv' /\ DoneInv'
    BY <1>1, <1>3, <1>4, PassFrame DEF Ordered
<1> QED BY <1>3, <1>4, <1>5, <1>6, <1>7

\* What the program waits for at an entry has been asked for by its passes.
LEMMA SyncDepsAsk ==
    ASSUME TypeOK, EntryInv, NEW e \in Entry
    PROVE  SyncDeps(entry[e]) \subseteq Askers(e)
<1>1. Owners(e) \subseteq Askers(e) /\ entry[e].shared \subseteq Askers(e)
    BY WritersAsk DEF EntryInv
<1> QED BY <1>1 DEF SyncDeps, LivePasses, Owners

LEMMA SyncKeeps ==
    ASSUME IInv, NEW entries, NEW uses, entries \subseteq Entry, uses \subseteq Entry,
           NothingMoves => uses \subseteq entries, Sync(entries, uses)
    PROVE  IInv'
<1>1. TypeOK /\ EntryInv /\ Lives /\ Ordered
    BY DEF IInv, Lives, Ordered
<1>2. PICK S : S = UNION {SyncDeps(entry[e]) : e \in entries}
    OBVIOUS
<1>3. /\ main.op = "idle" /\ pass' = pass /\ event' = event
      /\ entry' = [e \in Entry |-> IF e \in entries THEN NewEntry ELSE entry[e]]
      /\ main' = [op |-> "sync", for |-> S, uses |-> uses, writes |-> TRUE]
    BY <1>2 DEF Sync, Idle
<1>4. \A e \in entries : SyncDeps(entry[e]) \subseteq S
    BY <1>2
<1>5. \A d \in S : d \in Pass /\ pass[d].phase # "none"
  <2> SUFFICES ASSUME NEW d \in S PROVE d \in Pass /\ pass[d].phase # "none"
    OBVIOUS
  <2>1. PICK e \in entries : d \in SyncDeps(entry[e])
    BY <1>2
  <2>2. d \in Askers(e)
    BY <1>1, <2>1, SyncDepsAsk
  <2> QED BY <2>2, WritersAsk
<1>6. TypeOK'
  <2>1. main' \in [op : {"sync"}, for : SUBSET Pass, uses : SUBSET Entry, writes : BOOLEAN]
    BY <1>3, <1>5
  <2>2. entry' \in [Entry -> [owned : Pass \cup {NoPass}, shared : SUBSET Pass]]
    BY <1>1, <1>3 DEF TypeOK, NewEntry
  <2> QED BY <1>1, <1>3, <2>1, <2>2 DEF TypeOK
<1>7. main'.op = "sync" /\ main'.for = S /\ main'.uses = uses /\ main'.writes
    BY <1>3
<1>8. /\ LifeInv' /\ RequestInv' /\ EventInv' /\ AskedAlike /\ DepsInv' /\ DoneInv'
      /\ \A p \in Pass : Done(p)' <=> Done(p)
    BY <1>3, <1>6, <1>7, SyncFrame
<1>9. MainInv'
    BY <1>3, <1>5, <1>7 DEF MainInv
\* At these entries, whoever has asked is waited for.
<1>10. ASSUME NEW e \in entries, NEW p \in Askers(e)
       PROVE  Done(p)' \/ Behind(p, S, e)'
  <2>1. e \in Entry /\ p \in Pass
    BY WritersAsk
  <2>2. main.op # "sync"
    BY <1>3
  <2>3. Done(p) \/ Behind(p, SyncDeps(entry[e]), e)
    BY <1>1, <2>1, <2>2, SyncBehind
  <2>4. Done(p) \/ Behind(p, S, e)
    BY <1>4, <2>3, BehindMore
  <2>5. Behind(p, S, e)' <=> Behind(p, S, e)
    BY <1>8, SameBehind
  <2> QED BY <1>8, <2>1, <2>4, <2>5
<1>11. UsesInv'
  <2> SUFFICES ASSUME NothingMoves, NEW e \in uses, NEW p \in Askers(e)
               PROVE  Done(p)' \/ Behind(p, S, e)'
    BY <1>7, <1>8 DEF UsesInv, AskedAlike, Behind
  <2> QED BY <1>10
<1>12. EntryInv'
  <2> SUFFICES ASSUME NEW e \in Entry
               PROVE  (/\ \A p \in Writers(e) : \/ Done(p) \/ Behind(p, Owners(e), e)
                                                \/ MainBehind(p, e)
                       /\ \A p \in Askers(e) : \/ Done(p) \/ Behind(p, Owners(e), e)
                                               \/ MainBehind(p, e) \/ p \in entry[e].shared
                       /\ Owners(e) \subseteq Writers(e)
                       /\ entry[e].shared \subseteq Askers(e)
                       /\ \A w \in Owners(e), r \in entry[e].shared : w <= r)'
    BY DEF EntryInv
  <2>1. Askers(e)' = Askers(e) /\ Writers(e)' = Writers(e) /\ Writers(e) \subseteq Askers(e)
        /\ Askers(e) \subseteq Pass
    BY <1>8, WritersAsk DEF AskedAlike
  <2>2. CASE e \in entries
    <3>1. entry'[e].shared = {} /\ Owners(e)' = {}
      BY <1>3, <2>2 DEF NewEntry, Owners
    <3>2. \A p \in Askers(e) : Done(p)' \/ MainBehind(p, e)'
      BY <1>7, <1>10, <2>2 DEF MainBehind, Behind
    <3> QED BY <2>1, <3>1, <3>2
  <2>3. CASE e \notin entries
    <3>1. entry'[e] = entry[e] /\ \A p : ~ MainBehind(p, e)
      BY <1>3, <2>3 DEF MainBehind
    <3>2. PICK O : O = Owners(e) /\ Owners(e)' = O
      BY <3>1 DEF Owners
    <3>3. \A p : Behind(p, O, e)' <=> Behind(p, O, e)
      BY <1>8, SameBehind
    <3>4. \A p : Behind(p, Owners(e), e) => Behind(p, Owners(e), e)'
      BY <3>2, <3>3 DEF Behind
    <3> QED BY <1>1, <1>8, <2>1, <3>1, <3>2, <3>4 DEF EntryInv
  <2> QED BY <2>2, <2>3
<1> QED BY <1>6, <1>8, <1>9, <1>11, <1>12 DEF IInv, Lives, Ordered

LEMMA SlotsAreEntries ==
    \A at : SlotsOf(at) \subseteq Entry
BY DEF SlotsOf, Entry

LEMMA DestroyKeeps ==
    ASSUME IInv, NEW at \in Archetype, Destroy(at)
    PROVE  IInv'
<1>1. ASSUME NothingMoves PROVE SlotsOf(Cleaning[at]) \subseteq SlotsOf(at)
  <2>1. CASE Cleaning[at] = at
    BY <2>1
  <2>2. CASE Cleaning[at] = NoArchetype
    <3>1. \A s \in Slot : s[1] \in Archetype
      BY DEF Slot, Component
    <3> QED BY <2>2, <3>1, PipelineAssumption DEF SlotsOf
  <2> QED BY <1>1, <2>1, <2>2 DEF NothingMoves
<1>2. /\ SlotsOf(at) \subseteq Entry
      /\ SlotsOf(at) \cup SlotsOf(Cleaning[at]) \subseteq Entry
      /\ NothingMoves => SlotsOf(at) \cup SlotsOf(Cleaning[at]) \subseteq SlotsOf(at)
      /\ Sync(SlotsOf(at), SlotsOf(at) \cup SlotsOf(Cleaning[at]))
    BY <1>1, SlotsAreEntries DEF Destroy
<1> QED BY <1>2, SyncKeeps

\* What the program has waited for is done.
LEMMA ForDone ==
    ASSUME IInv, SyncReturn
    PROVE  main.op = "sync" /\ main.for \subseteq Pass /\ \A d \in main.for : Done(d)
<1>1. TypeOK /\ LifeInv /\ MainInv /\ Lives
    BY DEF IInv, Lives
<1>2. main.op = "sync" /\ main.for \subseteq Pass
    BY <1>1, MainIs DEF SyncReturn
<1>3. \A d \in main.for : pass[d].phase \notin {"none", "creating"}
    BY <1>1, <1>2 DEF MainInv, LifeInv
<1>4. PICK S : S = main.for
    OBVIOUS
<1>5. /\ S \subseteq Pass /\ Signalled(S)
      /\ \A d \in S : pass[d].phase \notin {"none", "creating"}
    BY <1>2, <1>3, <1>4 DEF SyncReturn
<1> QED BY <1>1, <1>2, <1>4, <1>5, SignalledDone

LEMMA SyncReturnKeeps ==
    ASSUME IInv, SyncReturn
    PROVE  IInv'
<1>1. TypeOK /\ LifeInv /\ RequestInv /\ EventInv /\ MainInv /\ Ordered /\ Lives /\ DoneInv
    BY DEF IInv, Lives, Ordered
<1>2. /\ main.op = "sync" /\ main' = Idle /\ main'.op = "idle"
      /\ pass' = pass /\ entry' = entry /\ event' = event
    BY DEF SyncReturn, Idle
<1>3. main.for \subseteq Pass /\ \A d \in main.for : Done(d)
    BY ForDone
<1>4. \A q \in Pass : Left(q) = 0 /\ Left(q)' = 0
    BY <1>2 DEF Left
<1>5. AskedAlike
    BY <1>2, <1>4, SameAsked DEF AskedAlike
<1>6. DoneGrows /\ \A q \in Pass : Begun(q)' <=> Begun(q)
    BY <1>2 DEF DoneGrows, Done, Begun
<1>7. LifeInv' /\ MainInv' /\ RequestInv'
    BY <1>1, <1>2 DEF LifeInv, MainInv, RequestInv
<1>8. EventInv'
    BY <1>1, <1>2 DEF EventInv, Alive, Done
<1>9. TypeOK'
  <2>1. main' \in [op : {"idle", "wait"}]
    BY <1>2 DEF Idle
  <2> QED BY <1>1, <1>2, <2>1 DEF TypeOK
<1>10. \A e \in Entry, p \in Pass : MainBehind(p, e) => Done(p)'
  <2> SUFFICES ASSUME NEW e \in Entry, NEW p \in Pass, MainBehind(p, e) PROVE Done(p)
    BY <1>6 DEF DoneGrows
  <2>1. Behind(p, main.for, e)
    BY DEF MainBehind
  <2> QED BY <1>1, <1>2, <1>3, <2>1, BehindDone
<1>11. EntryInv'
    BY <1>1, <1>2, <1>5, <1>6, <1>10, EntryFrame DEF Ordered
<1>12. DepsInv' /\ DoneInv'
    BY <1>1, <1>2, <1>5, <1>6, PassFrame DEF Ordered
<1>13. UsesInv'
    BY <1>2 DEF UsesInv
<1> QED BY <1>7, <1>8, <1>9, <1>11, <1>12, <1>13 DEF IInv, Lives, Ordered

LEMMA SyncAllRoKeeps ==
    ASSUME IInv, SyncAllRo
    PROVE  IInv'
<1>1. TypeOK /\ LifeInv /\ EntryInv /\ DoneInv
    BY DEF IInv, Lives, Ordered
<1>2. PICK S : S = LivePasses({entry[e].owned : e \in Component})
    OBVIOUS
<1>3. /\ main.op = "idle" /\ pass' = pass /\ event' = event
      /\ entry' = [e \in Entry |-> IF e \in Component
                                   THEN [entry[e] EXCEPT !.owned = NoPass] ELSE entry[e]]
      /\ main' = [op |-> "sync", for |-> S, uses |-> Component, writes |-> FALSE]
    BY <1>2 DEF SyncAllRo, Idle
<1>4. Component \subseteq Entry
    BY DEF Entry, Slot
<1>5. S \subseteq Pass /\ \A d \in S : pass[d].phase # "none"
  <2>1. \A e \in Component : entry[e].owned \in Pass \cup {NoPass}
    BY <1>1, <1>4, EntryIs
  <2>2. S \subseteq Pass /\ \A d \in S : Alive(d)
    BY <1>2, <2>1 DEF LivePasses
  <2> QED BY <1>1, <2>2 DEF LifeInv, Alive
<1>6. TypeOK'
  <2>1. main' \in [op : {"sync"}, for : SUBSET Pass, uses : SUBSET Entry, writes : BOOLEAN]
    BY <1>3, <1>4, <1>5
  <2>2. entry' \in [Entry -> [owned : Pass \cup {NoPass}, shared : SUBSET Pass]]
    BY <1>1, <1>3 DEF TypeOK
  <2> QED BY <1>1, <1>3, <2>1, <2>2 DEF TypeOK
<1>7. main'.op = "sync" /\ main'.for = S /\ main'.uses = Component /\ ~ main'.writes
    BY <1>3
<1>8. /\ LifeInv' /\ RequestInv' /\ EventInv' /\ AskedAlike /\ DepsInv' /\ DoneInv'
      /\ \A p \in Pass : Done(p)' <=> Done(p)
    BY <1>3, <1>6, <1>7, SyncFrame
<1>9. MainInv'
    BY <1>3, <1>5, <1>7 DEF MainInv
\* Whoever is behind the last writer is done or waited for.
<1>10. ASSUME NEW e \in Component, NEW p \in Pass, Behind(p, Owners(e), e)
       PROVE  Done(p)' \/ Behind(p, S, e)'
  <2>1. PICK o \in Owners(e) : Behind(p, {o}, e)
    BY <1>10, BehindOne
  <2>2. e \in Entry /\ o = entry[e].owned /\ o # NoPass /\ o \in Pass /\ pass[o].phase # "none"
    BY <1>1, <1>4, <2>1, WritersAsk DEF EntryInv, Owners
  <2>3. CASE Alive(o)
    <3>1. o \in S
      BY <1>2, <2>2, <2>3 DEF LivePasses
    <3>2. Behind(p, S, e)
      BY <2>1, <3>1, BehindMore
    <3>3. Behind(p, S, e)' <=> Behind(p, S, e)
      BY <1>8, SameBehind
    <3> QED BY <3>2, <3>3
  <2>4. CASE ~ Alive(o)
    <3>1. \A d \in {o} : Done(d)
      BY <1>1, <2>2, <2>4, LivesIs
    <3>2. Done(p)
      BY <1>1, <2>1, <2>2, <3>1, BehindDone
    <3> QED BY <1>8, <3>2
  <2> QED BY <2>3, <2>4
<1>11. \A e \in Entry : /\ Askers(e)' = Askers(e) /\ Writers(e)' = Writers(e)
                        /\ Writers(e) \subseteq Askers(e) /\ Askers(e) \subseteq Pass
                        /\ \A p : ~ MainBehind(p, e)
    BY <1>3, <1>8, WritersAsk DEF AskedAlike, MainBehind
<1>12. UsesInv'
  <2> SUFFICES ASSUME NEW e \in Component, NEW p \in Writers(e)
               PROVE  Done(p)' \/ Behind(p, S, e)'
    BY <1>4, <1>7, <1>11 DEF UsesInv, Behind
  <2>1. Done(p) \/ Behind(p, Owners(e), e)
    BY <1>1, <1>4, <1>11 DEF EntryInv
  <2> QED BY <1>4, <1>8, <1>10, <1>11, <2>1
<1>13. EntryInv'
  <2> SUFFICES ASSUME NEW e \in Entry
               PROVE  (/\ \A p \in Writers(e) : \/ Done(p) \/ Behind(p, Owners(e), e)
                                                \/ MainBehind(p, e)
                       /\ \A p \in Askers(e) : \/ Done(p) \/ Behind(p, Owners(e), e)
                                               \/ MainBehind(p, e) \/ p \in entry[e].shared
                       /\ Owners(e) \subseteq Writers(e)
                       /\ entry[e].shared \subseteq Askers(e)
                       /\ \A w \in Owners(e), r \in entry[e].shared : w <= r)'
    BY DEF EntryInv
  <2>1. CASE e \in Component
    <3>1. entry'[e].shared = entry[e].shared /\ Owners(e)' = {}
      BY <1>1, <1>3, <2>1 DEF Owners, TypeOK
    <3>2. \A p \in Pass : Behind(p, Owners(e), e) => Done(p)' \/ MainBehind(p, e)'
      BY <1>7, <1>10, <2>1 DEF MainBehind, Behind
    <3> QED BY <1>1, <1>8, <1>11, <3>1, <3>2 DEF EntryInv
  <2>2. CASE e \notin Component
    <3>1. entry'[e] = entry[e]
      BY <1>3, <2>2
    <3>2. PICK O : O = Owners(e) /\ Owners(e)' = O
      BY <3>1 DEF Owners
    <3>3. \A p : Behind(p, O, e)' <=> Behind(p, O, e)
      BY <1>8, SameBehind
    <3>4. \A p : Behind(p, Owners(e), e) => Behind(p, Owners(e), e)'
      BY <3>2, <3>3 DEF Behind
    <3> QED BY <1>1, <1>8, <1>11, <3>1, <3>2, <3>4 DEF EntryInv
  <2> QED BY <2>1, <2>2
<1> QED BY <1>6, <1>8, <1>9, <1>12, <1>13 DEF IInv, Lives, Ordered

-----------------------------------------------------------------------------
(* A pass being created makes its next request.                            *)

\* What the request adds to what has been asked.
LEMMA RegisterAsks ==
    ASSUME Careful, Lives, Register, NEW p, p = main.p, NEW r, r = Head(main.rest),
           NEW skipped \in BOOLEAN, skipped <=> r.once /\ r.entry \in main.synced
    PROVE  /\ r \in Request /\ RequestInv'
           /\ main' \in [op : {"create"}, p : Pass, rest : Seq(Request),
                         synced : SUBSET Entry]
           /\ main'.p = p
           /\ \A e : e # r.entry => Askers(e)' = Askers(e) /\ Writers(e)' = Writers(e)
           /\ Askers(r.entry)' = Askers(r.entry) \cup {p}
           /\ Writers(r.entry)' = Writers(r.entry)
                                  \cup (IF r.readonly \/ skipped THEN {} ELSE {p})
           /\ skipped => p \in Askers(r.entry)
<1>1. TypeOK /\ LifeInv /\ RequestInv
    BY DEF Lives
<1>2. /\ main.op = "create" /\ main.rest # <<>> /\ p \in Pass /\ main.rest \in Seq(Request)
      /\ main.synced \subseteq Entry /\ pass[p].phase = "creating"
    BY <1>1, MainIs DEF Register, LifeInv
<1>3. /\ r \in Request /\ r = main.rest[1] /\ Len(main.rest) \in Nat \ {0}
      /\ Tail(main.rest) \in Seq(Request) /\ Len(Tail(main.rest)) = Len(main.rest) - 1
      /\ \A i \in 1 .. Len(main.rest) - 1 : Tail(main.rest)[i] = main.rest[i + 1]
    BY <1>2
<1>4. /\ main'.op = "create" /\ main'.p = p /\ main'.rest = Tail(main.rest)
      /\ main'.synced = IF r.once THEN main.synced \cup {r.entry} ELSE main.synced
      /\ main' \in [op : {"create"}, p : Pass, rest : Seq(Request), synced : SUBSET Entry]
  <2>1. main' = [op |-> "create", p |-> p, rest |-> Tail(main.rest),
                 synced |-> IF r.once THEN main.synced \cup {r.entry} ELSE main.synced]
    BY <1>1, <1>2, MainIs DEF Register
  <2>2. r.entry \in Entry
    BY <1>3 DEF Request
  <2> QED BY <1>2, <1>3, <2>1, <2>2
<1>5. \A q \in Pass : pass'[q].kind = pass[q].kind /\ pass'[q].phase = pass[q].phase
  <2>1. CASE pass' = pass
    BY <2>1
  <2>2. CASE \E D : pass' = [pass EXCEPT ![p].deps = D]
    BY <1>1, <1>2, <2>2, DepsSet DEF Stays
  <2> QED BY <2>1, <2>2 DEF Register
<1>6. PICK rs : rs = Asked(p) /\ rs = Asked(p)' /\ rs \in Seq(Request)
    BY <1>1, <1>2, <1>5 DEF Asked, LifeInv, Careful, AsksForAll
<1>7. PICK k : k = Len(rs) - Len(main.rest)
    OBVIOUS
<1>8. /\ k \in Nat /\ k < Len(rs) /\ Len(rs) \in Nat /\ rs[k + 1] = r
      /\ Len(rs) - Len(Tail(main.rest)) = k + 1
      /\ \A i \in 1 .. Len(main.rest) : main.rest[i] = rs[k + i]
      /\ \A e \in Entry : e \in main.synced <=>
             \E j \in 1 .. k : rs[j].once /\ rs[j].entry = e
  <2>1. /\ Len(main.rest) <= Len(rs)
        /\ \A i \in 1 .. Len(main.rest) : main.rest[i] = rs[k + i]
        /\ \A e \in Entry : e \in main.synced <=>
               \E j \in 1 .. k : rs[j].once /\ rs[j].entry = e
    BY <1>1, <1>2, <1>6, <1>7 DEF RequestInv
  <2>2. Len(rs) \in Nat
    BY <1>6
  <2>3. k \in Nat /\ k < Len(rs) /\ Len(rs) - Len(Tail(main.rest)) = k + 1
    <3>1. PICK l, n, t : l = Len(main.rest) /\ n = Len(rs) /\ t = Len(Tail(main.rest))
      OBVIOUS
    <3>2. l \in Nat /\ l > 0 /\ n \in Nat /\ l <= n /\ t = l - 1 /\ k = n - l
      BY <1>3, <1>7, <2>1, <2>2, <3>1
    <3>3. k \in Nat /\ k < n /\ n - t = k + 1
      BY ONLY <3>2
    <3> QED BY <3>1, <3>3
  <2>4. 1 \in 1 .. Len(main.rest)
    BY <1>3
  <2>5. rs[k + 1] = r
    BY <1>3, <2>1, <2>4
  <2> QED BY <2>1, <2>2, <2>3, <2>5
<1>9. Left(p) = Len(main.rest) /\ Left(p)' = Len(Tail(main.rest))
    BY <1>2, <1>4 DEF Left
<1>10. \A q \in Pass : q # p => Left(q) = 0 /\ Left(q)' = 0 /\ Asked(q)' = Asked(q)
    BY <1>2, <1>4, <1>5 DEF Left, Asked
<1>11. \A e : p \in Askers(e) <=> \E i \in 1 .. k : rs[i].entry = e
    BY <1>2, <1>6, <1>7, <1>9 DEF Askers
<1>12. \A e : p \in Askers(e)' <=> \E i \in 1 .. k + 1 : rs[i].entry = e
    BY <1>2, <1>5, <1>6, <1>8, <1>9 DEF Askers
<1>13. \A e : p \in Writers(e) <=> \E i \in 1 .. k : rs[i].entry = e /\ AsksToWrite(rs, i)
    BY <1>2, <1>6, <1>7, <1>9 DEF Writers
<1>14. \A e : p \in Writers(e)' <=>
                  \E i \in 1 .. k + 1 : rs[i].entry = e /\ AsksToWrite(rs, i)
  <2>1. /\ Len(Asked(p)') - Left(p)' = k + 1 /\ pass'[p].phase # "none"
        /\ \A i : AsksToWrite(Asked(p)', i) <=> AsksToWrite(rs, i)
    BY <1>2, <1>5, <1>6, <1>8, <1>9
  <2> QED BY <1>2, <1>6, <2>1 DEF Writers
<1>15. \A e, q : q # p => /\ q \in Askers(e)' <=> q \in Askers(e)
                          /\ q \in Writers(e)' <=> q \in Writers(e)
    BY <1>5, <1>10 DEF Askers, Writers
<1>16. \A i \in 1 .. k + 1 : i = k + 1 \/ i \in 1 .. k
    BY <1>8
<1>17. k + 1 \in 1 .. k + 1 /\ \A i \in 1 .. k : i \in 1 .. k + 1
    BY <1>8
<1>18. \A e : /\ p \in Askers(e)' <=> p \in Askers(e) \/ e = r.entry
              /\ p \in Writers(e)' <=>
                     p \in Writers(e) \/ (e = r.entry /\ AsksToWrite(rs, k + 1))
  <2>1. rs[k + 1] = r
    BY <1>8
  <2>2. \A e : p \in Askers(e)' <=> p \in Askers(e) \/ e = r.entry
    BY <1>11, <1>12, <1>16, <1>17, <2>1
  <2>3. \A e : p \in Writers(e)' <=>
                   p \in Writers(e) \/ (e = r.entry /\ AsksToWrite(rs, k + 1))
    BY <1>13, <1>14, <1>16, <1>17, <2>1
  <2> QED BY <2>2, <2>3
<1>19. Skipped(rs, k + 1) <=> skipped
  <2>1. r.entry \in Entry /\ k + 1 - 1 = k
    BY <1>3, <1>8 DEF Request
  <2>2. rs[k + 1] = r
    BY <1>8
  <2>3. skipped <=> r.once /\ \E j \in 1 .. k : rs[j].once /\ rs[j].entry = r.entry
    BY <1>8, <2>1
  <2>4. Skipped(rs, k + 1) <=>
            r.once /\ \E j \in 1 .. k : rs[j].once /\ rs[j].entry = r.entry
    <3>1. PICK k1 : k1 = k + 1
      OBVIOUS
    <3>2. k1 - 1 = k /\ rs[k1] = r
      <4>1. k \in Nat
        BY <1>8
      <4>2. rs[k1] = r
        BY <2>2, <3>1
      <4> QED BY <3>1, <4>1, <4>2
    <3>3. Skipped(rs, k1) <=>
              rs[k1].once /\ \E j \in 1 .. k1 - 1 : rs[j].once /\ rs[j].entry = rs[k1].entry
      BY DEF Skipped
    <3>4. Skipped(rs, k1) <=>
              r.once /\ \E j \in 1 .. k : rs[j].once /\ rs[j].entry = r.entry
      BY ONLY <3>2, <3>3
    <3> QED BY <3>1, <3>4
  <2> QED BY <2>3, <2>4
<1>20. skipped => p \in Askers(r.entry)
    BY <1>3, <1>8, <1>11 DEF Request
<1>21. RequestInv'
  <2>1. \A i \in 1 .. Len(main.rest) - 1 : Tail(main.rest)[i] = rs[k + 1 + i]
    <3> SUFFICES ASSUME NEW i \in 1 .. Len(main.rest) - 1
                 PROVE  Tail(main.rest)[i] = rs[k + 1 + i]
      OBVIOUS
    <3>1. i + 1 \in 1 .. Len(main.rest) /\ k + (i + 1) = k + 1 + i
      BY <1>3, <1>8
    <3>2. Tail(main.rest)[i] = main.rest[i + 1]
      BY <1>3
    <3>3. main.rest[i + 1] = rs[k + (i + 1)]
      BY <1>8, <3>1
    <3> QED BY <3>1, <3>2, <3>3
  <2>2. \A e \in Entry : e \in main'.synced <=>
            \E j \in 1 .. k + 1 : rs[j].once /\ rs[j].entry = e
    <3> SUFFICES ASSUME NEW e \in Entry
                 PROVE  e \in main'.synced <=>
                            \E j \in 1 .. k + 1 : rs[j].once /\ rs[j].entry = e
      OBVIOUS
    <3>1. e \in main'.synced <=> e \in main.synced \/ (r.once /\ e = r.entry)
      BY <1>4
    <3>2. e \in main.synced <=> \E j \in 1 .. k : rs[j].once /\ rs[j].entry = e
      BY <1>8
    <3>3. rs[k + 1] = r
      BY <1>8
    <3> QED BY <1>16, <1>17, <3>1, <3>2, <3>3
  <2>3. Asked(main.p)' = rs
    BY <1>4, <1>6 DEF Asked
  <2>4. PICK tl : tl = Tail(main.rest)
    OBVIOUS
  <2>5. Len(tl) = Len(main.rest) - 1 /\ Len(rs) - Len(tl) = k + 1 /\ Len(tl) <= Len(rs)
    <3>1. Len(tl) = Len(main.rest) - 1
      BY <1>3, <2>4
    <3>2. Len(rs) - Len(tl) = k + 1
      BY <1>8, <2>4
    <3>3. tl \in Seq(Request)
      BY <1>3, <2>4
    <3>4. Len(tl) \in Nat /\ Len(rs) \in Nat /\ k \in Nat
      BY <1>6, <1>8, <3>3
    <3>5. Len(tl) <= Len(rs)
      BY <3>2, <3>4
    <3> QED BY <3>1, <3>2, <3>5
  <2>6. main'.rest = tl
    BY <1>4, <2>4
  <2>7. \A i \in 1 .. Len(tl) : tl[i] = rs[Len(rs) - Len(tl) + i]
    BY <2>1, <2>4, <2>5
  <2>8. \A e \in Entry : e \in main'.synced <=>
            \E j \in 1 .. Len(rs) - Len(tl) : rs[j].once /\ rs[j].entry = e
    BY <2>2, <2>5
  <2> QED BY <2>3, <2>5, <2>6, <2>7, <2>8 DEF RequestInv
<1>22. \A e : e # r.entry => Askers(e)' = Askers(e) /\ Writers(e)' = Writers(e)
    BY <1>15, <1>18
<1>23. Askers(r.entry)' = Askers(r.entry) \cup {p}
    BY <1>15, <1>18
<1>24. Writers(r.entry)' = Writers(r.entry) \cup (IF r.readonly \/ skipped THEN {} ELSE {p})
    BY <1>8, <1>15, <1>18, <1>19 DEF AsksToWrite
<1> QED BY <1>3, <1>4, <1>20, <1>21, <1>22, <1>23, <1>24

\* What the request may add to the dependencies: passes that have asked for the
\* entry and are alive.
NewDeps(r) ==
    IF r.readonly THEN ReadDeps(entry[r.entry]) ELSE WriteDeps(entry[r.entry])

\* The pass being created is the last.
LEMMA NewestPass ==
    ASSUME TypeOK, LifeInv, NEW p \in Pass, pass[p].phase = "creating",
           NEW e, NEW q \in Askers(e)
    PROVE  q \in Pass /\ q <= p
<1>1. q \in Pass /\ pass[q].phase # "none"
    BY WritersAsk
<1>2. q \in Nat /\ p \in Nat
    BY <1>1, PassIs
<1>3. ~ (p < q)
    BY <1>1 DEF LifeInv
<1> QED BY <1>1, <1>2, <1>3

LEMMA NewDepsAsk ==
    ASSUME TypeOK, EntryInv, NEW r, r.entry \in Entry
    PROVE  NewDeps(r) \subseteq Askers(r.entry)
<1>1. /\ Owners(r.entry) \subseteq Askers(r.entry)
      /\ entry[r.entry].shared \subseteq Askers(r.entry)
    BY WritersAsk DEF EntryInv
<1> QED BY <1>1 DEF NewDeps, ReadDeps, WriteDeps, LivePasses, Owners

\* Who asked for the entry before p, and is separated from p by a writer, is done
\* or behind a pass that p now depends on.
LEMMA NewDepsBehind ==
    ASSUME Lives, Ordered, main.op = "create", NEW r, r.entry \in Entry,
           NEW a \in Askers(r.entry),
           ~ r.readonly \/ \E w \in Writers(r.entry) : a <= w
    PROVE  Done(a) \/ Behind(a, NewDeps(r), r.entry)
<1>1. TypeOK /\ LifeInv /\ EntryInv /\ DoneInv /\ a \in Pass /\ main.op # "sync"
    BY WritersAsk DEF Lives, Ordered
<1> DEFINE e == r.entry
           x == entry[r.entry]
\* It is enough to be behind a pass that p looks at.
<1>2. ASSUME NEW d \in Askers(e), Behind(a, {d}, e), Alive(d) => d \in NewDeps(r)
      PROVE  Done(a) \/ Behind(a, NewDeps(r), e)
  <2>1. d \in Pass /\ pass[d].phase # "none"
    BY WritersAsk
  <2>2. CASE Alive(d)
    BY <1>2, <2>2, BehindMore
  <2>3. CASE ~ Alive(d)
    <3>1. \A c \in {d} : Done(c)
      BY <1>1, <2>1, <2>3, LivesIs
    <3>2. Done(a)
      BY <1>1, <1>2, <2>1, <3>1, BehindDone
    <3> QED BY <3>2
  <2> QED BY <2>2, <2>3
<1>3. CASE ~ r.readonly
  <2>1. Done(a) \/ Behind(a, SyncDeps(x), e)
    BY <1>1, SyncBehind
  <2>2. ASSUME NEW d \in SyncDeps(x), Behind(a, {d}, e)
        PROVE  Done(a) \/ Behind(a, NewDeps(r), e)
    <3>1. d \in Askers(e)
      BY <1>1, SyncDepsAsk
    <3>2. d \in Pass /\ d # NoPass
      BY <3>1, WritersAsk, PipelineAssumption
    <3>3. Alive(d) => d \in NewDeps(r)
      BY <1>3, <3>2 DEF NewDeps, WriteDeps, SyncDeps, LivePasses
    <3> QED BY <1>2, <2>2, <3>1, <3>3
  <2> QED BY <2>1, <2>2, BehindOne
<1>4. CASE r.readonly
  <2>1. PICK w \in Writers(e) : a <= w
    BY <1>4
  <2>2. /\ w \in Askers(e) /\ w \in Pass /\ w \in Nat /\ a \in Nat
        /\ Done(w) \/ Behind(w, Owners(e), e)
    BY <1>1, WritersAsk, PassIs DEF EntryInv, MainBehind
  <2>3. Done(a) \/ Behind(a, Owners(e), e)
    <3>1. CASE a = w
      BY <2>2, <3>1
    <3>2. CASE a # w /\ Done(w)
      <4>1. Separated(a, w, e)
        BY <2>1, <2>2, <3>2 DEF Separated
      <4>2. Begun(w)
        BY <3>2 DEF Begun, Done
      <4> QED BY <1>1, <2>2, <4>1, <4>2 DEF DoneInv
    <3>3. CASE a # w /\ Behind(w, Owners(e), e)
      <4>1. PICK o \in Owners(e) : w = o \/ Separated(w, o, e)
        BY <3>3 DEF Behind
      <4>2. o \in Writers(e) /\ o \in Askers(e) /\ o \in Nat
        BY <1>1, WritersAsk, PassIs DEF EntryInv
      <4>3. a < o
        BY <2>1, <2>2, <3>3, <4>1, <4>2 DEF Separated
      <4>4. Separated(a, o, e)
        BY <2>2, <4>2, <4>3 DEF Separated
      <4> QED BY <4>4 DEF Behind
    <3> QED BY <2>2, <3>1, <3>2, <3>3
  <2>4. ASSUME NEW o \in Owners(e), Behind(a, {o}, e)
        PROVE  Done(a) \/ Behind(a, NewDeps(r), e)
    <3>1. o \in Askers(e) /\ o \in Pass /\ o # NoPass /\ o = x.owned
      BY <1>1, WritersAsk, PipelineAssumption DEF EntryInv, Owners
    <3>2. Alive(o) => o \in NewDeps(r)
      BY <1>4, <3>1 DEF NewDeps, ReadDeps, LivePasses
    <3> QED BY <1>2, <2>4, <3>1, <3>2
  <2> QED BY <2>3, <2>4, BehindOne
<1> QED BY <1>3, <1>4

\* What is separated from a pass stays so, and only p is separated anew.
LEMMA SeparatedMore ==
    ASSUME TypeOK, NEW p \in Pass, NEW e0,
           \A e : \A q \in Askers(e) : q \in Pass /\ q <= p,
           \A e : e # e0 => Askers(e)' = Askers(e) /\ Writers(e)' = Writers(e),
           Askers(e0)' = Askers(e0) \cup {p}, Writers(e0) \subseteq Writers(e0)',
           Writers(e0)' \subseteq Writers(e0) \cup {p}
    PROVE  /\ \A e, a, q : Separated(a, q, e) => Separated(a, q, e)'
           /\ \A e, a, S : Behind(a, S, e) => Behind(a, S, e)'
           /\ \A e, a, q : Separated(a, q, e)' /\ ~ Separated(a, q, e) =>
                  /\ e = e0 /\ q = p /\ a < p /\ a \in Askers(e0)
                  /\ p \in Writers(e0)' \/ \E w \in Writers(e0) : a <= w
<1>1. \A e : Askers(e) \subseteq Askers(e)' /\ Writers(e) \subseteq Writers(e)'
  <2> SUFFICES ASSUME NEW e
               PROVE  Askers(e) \subseteq Askers(e)' /\ Writers(e) \subseteq Writers(e)'
    OBVIOUS
  <2>1. CASE e = e0
    BY <2>1
  <2>2. CASE e # e0
    BY <2>2
  <2> QED BY <2>1, <2>2
<1>2. \A e, a, q : Separated(a, q, e) => Separated(a, q, e)'
    BY <1>1 DEF Separated
<1>3. \A e, a, S : Behind(a, S, e) => Behind(a, S, e)'
    BY <1>2 DEF Behind
<1>4. ASSUME NEW e, NEW a, NEW q, Separated(a, q, e)', ~ Separated(a, q, e)
      PROVE  /\ e = e0 /\ q = p /\ a < p /\ a \in Askers(e0)
             /\ p \in Writers(e0)' \/ \E w \in Writers(e0) : a <= w
  <2>1. e = e0
    BY <1>4 DEF Separated
  <2>2. /\ a < q /\ a \in Askers(e0) \cup {p} /\ q \in Askers(e0) \cup {p}
        /\ \E w \in Writers(e0)' : a <= w /\ w <= q
    BY <1>4, <2>1 DEF Separated
  <2>3. a \in Nat /\ q \in Nat /\ p \in Nat /\ a <= p /\ q <= p /\ a \in Pass /\ q \in Pass
    BY <2>2, PassIs
  <2>4. a # p /\ a \in Askers(e0)
    BY <2>2, <2>3
  <2>5. q = p
    <3> SUFFICES ASSUME q # p PROVE FALSE
      OBVIOUS
    <3>1. q \in Askers(e0) /\ q < p
      BY <2>2, <2>3
    <3>2. PICK w \in Writers(e0)' : a <= w /\ w <= q
      BY <2>2
    <3>3. w # p
      BY <3>1, <3>2, <2>3
    <3>4. w \in Writers(e0)
      BY <3>2, <3>3
    <3> QED BY <1>4, <2>1, <2>2, <2>4, <3>1, <3>2, <3>4 DEF Separated
  <2>6. p \in Writers(e0)' \/ \E w \in Writers(e0) : a <= w
    BY <2>2
  <2> QED BY <2>1, <2>2, <2>4, <2>5, <2>6
<1> QED BY <1>2, <1>3, <1>4

LEMMA RegisterKeeps ==
    ASSUME Careful, IInv, Register
    PROVE  IInv'
<1>1. TypeOK /\ LifeInv /\ EventInv /\ Lives /\ Ordered
      /\ DepsInv /\ DoneInv /\ EntryInv
    BY DEF IInv, Lives, Ordered
<1>2. PICK p, r : p = main.p /\ r = Head(main.rest)
    OBVIOUS
<1>3. PICK skipped \in BOOLEAN : skipped <=> r.once /\ r.entry \in main.synced
    OBVIOUS
<1>4. /\ r \in Request /\ RequestInv'
      /\ main' \in [op : {"create"}, p : Pass, rest : Seq(Request), synced : SUBSET Entry]
      /\ main'.p = p
      /\ \A e : e # r.entry => Askers(e)' = Askers(e) /\ Writers(e)' = Writers(e)
      /\ Askers(r.entry)' = Askers(r.entry) \cup {p}
      /\ Writers(r.entry)' = Writers(r.entry) \cup (IF r.readonly \/ skipped THEN {} ELSE {p})
      /\ skipped => p \in Askers(r.entry)
  <2> HIDE <1>1
  <2>1. Lives /\ p = main.p /\ r = Head(main.rest)
    BY <1>1, <1>2
  <2> QED BY <1>3, <2>1, RegisterAsks
<1>5. /\ main.op = "create" /\ main'.op = "create" /\ event' = event
      /\ p \in Pass /\ pass[p].phase = "creating" /\ r.entry \in Entry
      /\ \A e, q : ~ MainBehind(q, e)
    BY <1>1, <1>2, <1>4, MainIs DEF Register, LifeInv, MainBehind, Request
<1> DEFINE e0 == r.entry
           x == entry[e0]
<1>6. /\ pass' = IF skipped THEN pass ELSE [pass EXCEPT ![p].deps = @ \cup NewDeps(r)]
      /\ entry' = IF skipped THEN entry
                  ELSE [entry EXCEPT ![e0] = IF r.readonly THEN Reading(@, p)
                                                           ELSE Writing(@, p)]
    BY <1>2, <1>3 DEF Register, NewDeps
<1>7. NewDeps(r) \subseteq Askers(e0) /\ Askers(e0) \subseteq Pass
    BY <1>1, <1>5, NewDepsAsk, WritersAsk
<1>8. \A e : \A q \in Askers(e) : q \in Pass /\ q <= p
    BY <1>1, <1>5, NewestPass
<1>9. /\ pass' \in [Pass -> PassType]
      /\ \A q \in Pass : /\ Stays(q) /\ pass'[q].held = pass[q].held
                         /\ pass'[q].phase = pass[q].phase
                         /\ q # p \/ skipped => pass'[q].deps = pass[q].deps
      /\ ~ skipped => pass'[p].deps = pass[p].deps \cup NewDeps(r)
  <2>1. pass \in [Pass -> PassType]
    BY <1>1 DEF TypeOK, PassType
  <2>2. CASE skipped
    BY <1>6, <2>1, <2>2 DEF Stays
  <2>3. CASE ~ skipped
    <3>1. pass' = [pass EXCEPT ![p].deps = @ \cup NewDeps(r)] /\ NewDeps(r) \subseteq Pass
      BY <1>6, <1>7, <2>3
    <3>2. PICK D : D = pass[p].deps \cup NewDeps(r)
      OBVIOUS
    <3>3. D \subseteq Pass /\ pass' = [pass EXCEPT ![p].deps = D]
      BY <1>1, <1>5, <3>1, <3>2, PassIs
    <3>4. /\ pass' \in [Pass -> PassType]
          /\ \A q \in Pass : /\ Stays(q) /\ pass'[q].held = pass[q].held
                             /\ pass'[q].phase = pass[q].phase
                             /\ pass'[q].deps = IF q = p THEN D ELSE pass[q].deps
      <4> HIDE <1>1
      <4>1. TypeOK /\ p \in Pass
        BY <1>1, <1>5
      <4> QED BY <3>3, <4>1, DepsSet
    <3> QED BY <1>5, <2>3, <3>2, <3>4
  <2> QED BY <2>2, <2>3
<1>10. /\ \A e \in Entry : e # e0 \/ skipped => entry'[e] = entry[e]
       /\ ~ skipped => entry'[e0] = IF r.readonly THEN Reading(x, p) ELSE Writing(x, p)
       /\ entry' \in [Entry -> [owned : Pass \cup {NoPass}, shared : SUBSET Pass]]
  <2>1. x.shared \subseteq Pass /\ x.owned \in Pass \cup {NoPass}
    BY <1>1, <1>5, EntryIs
  <2>2. /\ Reading(x, p) \in [owned : Pass \cup {NoPass}, shared : SUBSET Pass]
        /\ Writing(x, p) \in [owned : Pass \cup {NoPass}, shared : SUBSET Pass]
    <3>1. LivePasses(x.shared) \subseteq Pass
      BY <2>1 DEF LivePasses
    <3>2. x \in [owned : Pass \cup {NoPass}, shared : SUBSET Pass]
      BY <1>1, <1>5 DEF TypeOK
    <3> QED BY <1>5, <3>1, <3>2 DEF Reading, Writing
  <2>3. entry \in [Entry -> [owned : Pass \cup {NoPass}, shared : SUBSET Pass]]
    BY <1>1 DEF TypeOK
  <2> QED BY <1>5, <1>6, <2>2, <2>3
<1>11. TypeOK'
    BY <1>1, <1>4, <1>5, <1>9, <1>10 DEF TypeOK, PassType
<1>12. LifeInv'
  <2>1. \A q \in Pass : pass'[q].phase = "creating" <=> main'.op = "create" /\ main'.p = q
    BY <1>1, <1>2, <1>4, <1>5, <1>9 DEF LifeInv
  <2>2. \A q \in Pass : \A d \in pass'[q].deps : d <= q
    BY <1>1, <1>7, <1>8, <1>9 DEF LifeInv
  <2>3. \A q \in Pass : pass'[q].phase = "none" => ~ pass'[q].held /\ pass'[q].deps = {}
    BY <1>1, <1>5, <1>9 DEF LifeInv
  <2> QED BY <1>1, <1>9, <2>1, <2>2, <2>3 DEF LifeInv, Stays
<1>13. \A q \in Pass : /\ Alive(q)' <=> Alive(q)
                       /\ Done(q)' <=> Done(q)
                       /\ Begun(q)' <=> Begun(q)
    BY <1>9 DEF Alive, Done, Begun
<1>14. EventInv'
    BY <1>1, <1>5, <1>9, <1>13 DEF EventInv, Stays, Done, TypeOK
<1>15. MainInv' /\ UsesInv'
    BY <1>5 DEF MainInv, UsesInv
<1>16. /\ \A e, a, q : Separated(a, q, e) => Separated(a, q, e)'
       /\ \A e, a, S : Behind(a, S, e) => Behind(a, S, e)'
       /\ \A e, a, q : Separated(a, q, e)' /\ ~ Separated(a, q, e) =>
              /\ e = e0 /\ q = p /\ a < p /\ a \in Askers(e0)
              /\ p \in Writers(e0)' \/ \E w \in Writers(e0) : a <= w
  <2>1. /\ TypeOK /\ p \in Pass /\ \A e : \A q \in Askers(e) : q \in Pass /\ q <= p
        /\ \A e : e # e0 => Askers(e)' = Askers(e) /\ Writers(e)' = Writers(e)
        /\ Askers(e0)' = Askers(e0) \cup {p} /\ Writers(e0) \subseteq Writers(e0)'
        /\ Writers(e0)' \subseteq Writers(e0) \cup {p}
    BY <1>1, <1>4, <1>5, <1>8
  <2> QED BY ONLY <2>1, SeparatedMore
<1>17. DoneInv'
  <2> SUFFICES ASSUME NEW e \in Entry, NEW a \in Pass, NEW q \in Pass,
                      Begun(q)', Separated(a, q, e)'
               PROVE  Done(a)'
    BY DEF DoneInv
  <2>1. Begun(q) /\ q # p
    BY <1>5, <1>13 DEF Begun
  <2>2. Separated(a, q, e)
    BY <1>16, <2>1
  <2> QED BY <1>1, <1>13, <2>1, <2>2 DEF DoneInv
<1>18. CASE skipped
  <2>1. \A e : Askers(e)' = Askers(e) /\ Writers(e)' = Writers(e)
    BY <1>4, <1>18
  <2>2. AskedAlike /\ DoneGrows /\ entry' = entry
    BY <1>6, <1>13, <1>18, <2>1 DEF AskedAlike, DoneGrows
  <2>3. EntryInv'
    BY <1>1, <1>5, <2>2, EntryFrame
  <2>4. DepsInv'
    BY <1>1, <1>9, <1>13, <1>18, <2>2, PassFrame
  <2> QED BY <1>4, <1>11, <1>12, <1>14, <1>15, <1>17, <2>3, <2>4 DEF IInv, Lives, Ordered
<1>19. CASE ~ skipped
  <2>1. DepsInv'
    <3> SUFFICES ASSUME NEW e \in Entry, NEW a \in Pass, NEW q \in Pass,
                        ~ Begun(q)', Separated(a, q, e)'
                 PROVE  (Done(a) \/ Behind(a, pass[q].deps, e))'
      BY DEF DepsInv
    <3>1. PICK D : D = pass'[q].deps
      OBVIOUS
    <3>2. SUFFICES Done(a) \/ Behind(a, D, e)
      <4>1. Behind(a, D, e) => Behind(a, D, e)'
        BY <1>16
      <4> QED BY <1>13, <3>1, <3>2, <4>1 DEF Behind
    <3>3. CASE Separated(a, q, e)
      <4>1. Done(a) \/ Behind(a, pass[q].deps, e)
        BY <1>1, <1>13, <3>3 DEF DepsInv
      <4>2. pass[q].deps \subseteq D
        BY <1>9, <1>19, <3>1
      <4> QED BY <4>1, <4>2, BehindMore
    <3>4. CASE ~ Separated(a, q, e)
      <4>1. /\ e = e0 /\ q = p /\ a \in Askers(e0)
            /\ ~ r.readonly \/ \E w \in Writers(e0) : a <= w
        <5>1. /\ e = e0 /\ q = p /\ a < p /\ a \in Askers(e0)
              /\ p \in Writers(e0)' \/ \E w \in Writers(e0) : a <= w
          BY <1>16, <3>4
        <5>2. r.readonly => Writers(e0)' = Writers(e0)
          BY <1>4
        <5>3. a <= p
          BY <1>8, <5>1
        <5> QED BY <5>1, <5>2, <5>3
      <4>2. Done(a) \/ Behind(a, NewDeps(r), e)
        BY <1>1, <1>5, <4>1, NewDepsBehind
      <4>3. NewDeps(r) \subseteq D
        BY <1>9, <1>19, <3>1, <4>1
      <4> QED BY <4>2, <4>3, BehindMore
    <3> QED BY <3>3, <3>4
  <2>2. EntryInv'
    <3> SUFFICES ASSUME NEW e \in Entry
                 PROVE  (/\ \A q \in Writers(e) : \/ Done(q) \/ Behind(q, Owners(e), e)
                                                  \/ MainBehind(q, e)
                         /\ \A q \in Askers(e) : \/ Done(q) \/ Behind(q, Owners(e), e)
                                                 \/ MainBehind(q, e) \/ q \in entry[e].shared
                         /\ Owners(e) \subseteq Writers(e)
                         /\ entry[e].shared \subseteq Askers(e)
                         /\ \A w \in Owners(e), s \in entry[e].shared : w <= s)'
      BY DEF EntryInv
    <3>1. /\ \A q \in Writers(e) : Done(q) \/ Behind(q, Owners(e), e)
          /\ \A q \in Askers(e) : Done(q) \/ Behind(q, Owners(e), e) \/ q \in entry[e].shared
          /\ Owners(e) \subseteq Writers(e) /\ entry[e].shared \subseteq Askers(e)
          /\ \A w \in Owners(e), s \in entry[e].shared : w <= s
          /\ Writers(e) \subseteq Askers(e) /\ Askers(e) \subseteq Pass
      BY <1>1, <1>5, WritersAsk DEF EntryInv
    <3>2. ASSUME Owners(e)' = Owners(e)
          PROVE  \A q : Behind(q, Owners(e), e) => Behind(q, Owners(e), e)'
      <4>1. PICK O : O = Owners(e) /\ Owners(e)' = O
        BY <3>2
      <4>2. \A q : Behind(q, O, e) => Behind(q, O, e)'
        BY <1>16
      <4> QED BY <4>1, <4>2 DEF Behind
    <3>3. CASE e # e0
      <4>1. entry'[e] = entry[e] /\ Owners(e)' = Owners(e)
        BY <1>10, <3>3 DEF Owners
      <4>2. Askers(e)' = Askers(e) /\ Writers(e)' = Writers(e)
        BY <1>4, <3>3
      <4> QED BY <1>13, <3>1, <3>2, <4>1, <4>2
    <3>4. CASE e = e0 /\ r.readonly
      <4>1. /\ Askers(e)' = Askers(e) \cup {p} /\ Writers(e)' = Writers(e)
        BY <1>4, <3>4
      <4>2. entry'[e].owned = x.owned /\ entry'[e].shared = LivePasses(x.shared) \cup {p}
        BY <1>5, <1>10, <1>19, <3>4, EntryIs, <1>1 DEF Reading
      <4>3. Owners(e)' = Owners(e)
        BY <3>4, <4>2 DEF Owners
      <4>4. \A q \in x.shared : q \in LivePasses(x.shared) \/ Done(q)
        <5> SUFFICES ASSUME NEW q \in x.shared, ~ Alive(q) PROVE Done(q)
          BY <1>5, PipelineAssumption, <3>1, <3>4 DEF LivePasses
        <5>1. q \in Pass /\ pass[q].phase # "none"
          BY <3>1, <3>4, WritersAsk
        <5> QED BY <1>1, <5>1, LivesIs
      <4>5. LivePasses(x.shared) \subseteq x.shared
        BY DEF LivePasses
      <4>6. \A w \in Owners(e) : w <= p
        BY <1>8, <3>1
      <4> QED BY <1>13, <3>1, <3>2, <3>4, <4>1, <4>2, <4>3, <4>4, <4>5, <4>6
    <3>5. CASE e = e0 /\ ~ r.readonly
      <4>1. /\ Askers(e)' = Askers(e) \cup {p} /\ Writers(e)' = Writers(e) \cup {p}
        BY <1>4, <1>19, <3>5
      <4>2. entry'[e].owned = p /\ entry'[e].shared = {}
        BY <1>10, <1>19, <3>5 DEF Writing
      <4>3. Owners(e)' = {p}
        BY <1>5, <4>2, PipelineAssumption DEF Owners
      <4>4. ASSUME NEW q \in Askers(e)' PROVE Behind(q, Owners(e), e)'
        <5>1. CASE q = p
          BY <4>3, <5>1 DEF Behind
        <5>2. CASE q # p
          <6>1. q \in Askers(e) /\ q <= p /\ q \in Nat /\ p \in Nat
            BY <1>1, <1>5, <1>8, <4>1, <5>2, PassIs
          <6>2. Separated(q, p, e)'
            BY <4>1, <5>2, <6>1 DEF Separated
          <6> QED BY <4>3, <6>2 DEF Behind
        <5> QED BY <5>1, <5>2
      <4>5. Writers(e)' \subseteq Askers(e)'
        BY <3>1, <4>1
      <4> QED BY <4>1, <4>2, <4>3, <4>4, <4>5
    <3> QED BY <3>3, <3>4, <3>5
  <2> QED BY <1>4, <1>11, <1>12, <1>14, <1>15, <1>17, <2>1, <2>2 DEF IInv, Lives, Ordered
<1> QED BY <1>18, <1>19

-----------------------------------------------------------------------------
(* The invariant holds.                                                    *)

LEMMA InitHolds ==
    ASSUME Init
    PROVE  IInv
<1>1. /\ pass = [p \in Pass |-> NewPass] /\ entry = [e \in Entry |-> NewEntry]
      /\ event = [a \in Addr |-> NoEvent] /\ main = Idle /\ main.op = "idle"
    BY DEF Init, Idle
<1>2. \A p \in Pass : /\ pass[p].phase = "none" /\ pass[p].kind = NoKind /\ ~ pass[p].held
                      /\ pass[p].addr = NoAddr /\ pass[p].deps = {} /\ pass[p].waits = {}
                      /\ pass[p].todo = <<>>
    BY <1>1 DEF NewPass
<1>3. TypeOK
  <2>1. main \in [op : {"idle", "wait"}]
    BY <1>1 DEF Idle
  <2>2. pass \in [Pass -> [phase : Phase, kind : Kinds \cup {NoKind}, held : BOOLEAN,
                           addr : Addr \cup {NoAddr},
                           deps : SUBSET Pass, todo : Seq(Archetype),
                           waits : SUBSET Pass, own : BOOLEAN]]
    BY <1>1 DEF NewPass, Phase
  <2>3. /\ entry \in [Entry -> [owned : Pass \cup {NoPass}, shared : SUBSET Pass]]
        /\ event \in [Addr -> [of : Pass \cup {NoPass}, set : BOOLEAN]]
    BY <1>1 DEF NewEntry, NoEvent
  <2> QED BY <2>1, <2>2, <2>3 DEF TypeOK
<1>4. LifeInv
    BY <1>1, <1>2 DEF LifeInv
<1>5. EventInv
    BY <1>1, <1>2 DEF EventInv, NoEvent, Alive
<1>6. RequestInv /\ MainInv /\ UsesInv
    BY <1>1 DEF RequestInv, MainInv, UsesInv
<1>7. \A e : Askers(e) = {} /\ Writers(e) = {}
    BY <1>2 DEF Askers, Writers
<1>8. DepsInv /\ DoneInv
    BY <1>7 DEF DepsInv, DoneInv, Separated
<1>9. EntryInv
    BY <1>1, <1>7 DEF EntryInv, NewEntry, Owners
<1> QED BY <1>3, <1>4, <1>5, <1>6, <1>8, <1>9 DEF IInv, Lives, Ordered

LEMMA StepKeeps ==
    ASSUME Careful, IInv, [Next]_vars
    PROVE  IInv'
<1>1. ASSUME NEW p \in Pass, NEW kind \in Kinds, NEW a \in Addr, CreatePass(p, kind, a)
      PROVE  IInv'
    BY <1>1, CreatePassKeeps
<1>2. CASE Register
    BY <1>2, RegisterKeeps
<1>3. CASE CreateEnd
    BY <1>3, CreateEndKeeps
<1>4. ASSUME NEW p \in Pass, Schedule(p) PROVE IInv'
    BY <1>4, ScheduleKeeps
<1>5. ASSUME NEW p \in Pass, Forego(p) PROVE IInv'
    BY <1>5, ForegoKeeps
<1>6. ASSUME NEW e \in Component, Access(e) PROVE IInv'
  <2>1. {e} \subseteq Entry /\ Sync({e}, {e})
    BY <1>6 DEF Access, Entry, Slot
  <2> QED BY <2>1, SyncKeeps
<1>7. ASSUME NEW ats \in SUBSET Archetype, Change(ats) PROVE IInv'
  <2>1. PICK slots : slots = UNION {SlotsOf(at) : at \in ats}
    OBVIOUS
  <2>2. slots \subseteq Entry /\ Sync(slots, slots)
    BY <1>7, <2>1, SlotsAreEntries DEF Change
  <2> QED BY <2>2, SyncKeeps
<1>8. ASSUME NEW at \in Archetype, Destroy(at) PROVE IInv'
    BY <1>8, DestroyKeeps
<1>9. CASE SyncAllRo
    BY <1>9, SyncAllRoKeeps
<1>10. CASE SyncReturn
    BY <1>10, SyncReturnKeeps
<1>11. CASE Wait
    BY <1>11, WaitKeeps
<1>12. CASE WaitReturn
    BY <1>12, WaitReturnKeeps
<1>13. CASE Forget
    BY <1>13, ForgetKeeps
<1>14. ASSUME NEW p \in Pass, CreateTasks(p) PROVE IInv'
    BY <1>14, CreateTasksKeeps
<1>15. ASSUME NEW p \in Pass, Run(p) PROVE IInv'
    BY <1>15, RunKeeps
<1>16. ASSUME NEW p \in Pass, Signal(p) PROVE IInv'
    BY <1>16, SignalKeeps
<1>17. ASSUME NEW p \in Pass, Release(p) PROVE IInv'
    BY <1>17, ReleaseKeeps
<1>18. CASE UNCHANGED vars
  <2>1. pass' = pass /\ entry' = entry /\ event' = event /\ main' = main
    BY <1>18 DEF vars
  <2>2. Lives'
    <3>1. TypeOK'
      BY <2>1 DEF IInv, Lives, TypeOK
    <3>2. LifeInv' /\ MainInv'
      BY <2>1 DEF IInv, Lives, LifeInv, MainInv
    <3>3. RequestInv'
      BY <2>1 DEF IInv, Lives, RequestInv, Asked
    <3>4. EventInv'
      BY <2>1 DEF IInv, Lives, EventInv, Alive, Done
    <3> QED BY <3>1, <3>2, <3>3, <3>4 DEF Lives
  <2>3. AskedAlike
    <3>1. \A q \in Pass : Left(q)' = Left(q)
      BY <2>1 DEF Left
    <3> QED BY <2>1, <3>1, SameAsked DEF AskedAlike
  <2>4. DoneGrows /\ \A q \in Pass : Begun(q)' <=> Begun(q)
    BY <2>1 DEF DoneGrows, Done, Begun
  <2>5. Ordered'
    BY <2>1, <2>3, <2>4, OrderFrame DEF IInv
  <2> QED BY <2>2, <2>5 DEF IInv
<1>19. CASE MainStep
    BY <1>1, <1>2, <1>3, <1>4, <1>5, <1>6, <1>7, <1>8, <1>9, <1>10, <1>11, <1>12, <1>13,
       <1>19 DEF MainStep
<1>20. CASE \E p \in Pass : PassStep(p)
  BY <1>14, <1>15, <1>16, <1>17, <1>20 DEF PassStep
<1> QED BY <1>18, <1>19, <1>20 DEF Next

\* What is known of the passes, the entries and the program's thread at every
\* moment, whatever create_pass, schedule, sync_entry and the closures have done.
THEOREM Invariance ==
    ASSUME Careful
    PROVE  Spec => []IInv
<1>1. Init => IInv
    BY InitHolds
<1>2. IInv /\ [Next]_vars => IInv'
    BY StepKeeps
<1> QED BY <1>1, <1>2, PTL DEF Spec

\* dependencyEntries, eventmap, the passes and what the program's thread is doing
\* stay in the sets they are declared with.
THEOREM TypesHold ==
    ASSUME Careful
    PROVE  Spec => []TypeOK
<1>1. IInv => TypeOK
    BY DEF IInv, Lives
<1> QED BY <1>1, Invariance, PTL

\* A pass that has been created has asked for all that it uses.
LEMMA CreatedAsks ==
    ASSUME Careful, TypeOK, LifeInv, NEW p \in Pass,
           pass[p].phase \notin {"none", "creating"}
    PROVE  /\ \A e \in Writes(pass[p].kind) : e \in Entry /\ p \in Writers(e)
           /\ \A e \in Reads(pass[p].kind) : e \in Entry /\ p \in Askers(e)
<1>1. Left(p) = 0 /\ AsksForAll(pass[p].kind) /\ Len(Asked(p)) \in Nat
    BY DEF LifeInv, Left, Careful, AsksForAll, Asked
<1>2. Len(Asked(p)) - Left(p) = Len(Asked(p))
    BY <1>1
<1> QED BY <1>1, <1>2 DEF AsksForAll, Asked, Writers, Askers

\* A pass runs only when every pass created before it that writes what it uses, or
\* uses what it writes, has finished: the dependencies that setup_pass_dependency
\* leaves out have been waited for by those that it names.
THEOREM PassesRunInOrder ==
    ASSUME Careful
    PROVE  Spec => []PassesInOrder
<1>1. ASSUME IInv PROVE PassesInOrder
  <2> SUFFICES ASSUME NEW q \in Pass, pass[q].phase = "running", NEW p \in 1 .. q - 1,
                      Conflict(pass[p].kind, pass[q].kind)
               PROVE  Done(p)
    BY DEF PassesInOrder
  <2>1. TypeOK /\ LifeInv /\ DoneInv
    BY <1>1 DEF IInv, Lives, Ordered
  <2>2. p \in Pass /\ p < q /\ p \in Nat /\ q \in Nat
    BY <2>1, PassIs, PipelineAssumption DEF Pass
  <2>3. pass[p].phase \notin {"none", "creating"} /\ pass[q].phase \notin {"none", "creating"}
    BY <2>1, <2>2 DEF LifeInv
  <2>4. /\ \A e \in Writes(pass[p].kind) : e \in Entry /\ p \in Writers(e)
        /\ \A e \in Reads(pass[p].kind) : e \in Entry /\ p \in Askers(e)
        /\ \A e \in Writes(pass[q].kind) : e \in Entry /\ q \in Writers(e)
        /\ \A e \in Reads(pass[q].kind) : e \in Entry /\ q \in Askers(e)
    BY <2>1, <2>2, <2>3, CreatedAsks
  <2>5. PICK e \in Entry : /\ p \in Askers(e) /\ q \in Askers(e)
                           /\ p \in Writers(e) \/ q \in Writers(e)
    BY <2>4, WritersAsk DEF Conflict
  <2>6. Separated(p, q, e)
    BY <2>2, <2>5 DEF Separated
  <2>7. Begun(q)
    BY DEF Begun
  <2> QED BY <2>1, <2>2, <2>6, <2>7 DEF DoneInv
<1> QED BY <1>1, Invariance, PTL

\* When wait returns, every pass that was created has finished.
THEOREM WaitWaitsForAll ==
    ASSUME Careful
    PROVE  Spec => WaitCompletes
<1>1. IInv /\ [Next]_vars =>
          [WaitReturn => \A p \in Pass : pass[p].phase # "none" => Done(p) \/ Dropped(p)]_vars
  <2> SUFFICES ASSUME IInv, WaitReturn, NEW p \in Pass, pass[p].phase # "none"
               PROVE  Done(p)
    OBVIOUS
  <2>1. ~ Alive(p) /\ TypeOK /\ LifeInv
    BY NoneAlive DEF IInv, Lives
  <2> QED BY <2>1, LivesIs
<1> QED BY <1>1, Invariance, PTL DEF Spec, WaitCompletes

\* When the program has waited in sync_entry, sync_archetype or sync_all_ro, no pass
\* that uses what it is about to touch is still to finish.
THEOREM ProgramWaitsItsTurn ==
    ASSUME Careful, NothingMoves
    PROVE  Spec => MainInOrder
<1>1. IInv /\ [Next]_vars => [SyncReturn => \A p \in Pass : ~ UsedByMain(p)]_vars
  <2> SUFFICES ASSUME IInv, SyncReturn, NEW p \in Pass, UsedByMain(p)
               PROVE  FALSE
    OBVIOUS
  <2>1. TypeOK /\ LifeInv /\ DoneInv /\ UsesInv
    BY DEF IInv, Lives, Ordered
  <2>2. main.op = "sync" /\ main.for \subseteq Pass /\ \A d \in main.for : Done(d)
    BY ForDone
  <2>3. main.uses \subseteq Entry
    BY <2>1, <2>2, MainIs
  <2>4. pass[p].phase \notin {"none", "creating"} /\ ~ Done(p)
    BY <2>1, <2>2 DEF UsedByMain, LifeInv
  <2>5. PICK e \in main.uses :
            e \in IF main.writes THEN Reads(pass[p].kind) \cup Writes(pass[p].kind)
                  ELSE Writes(pass[p].kind)
    BY DEF UsedByMain
  <2>6. p \in IF main.writes THEN Askers(e) ELSE Writers(e)
    BY <2>1, <2>4, <2>5, CreatedAsks, WritersAsk
  <2>7. Behind(p, main.for, e)
    BY <2>1, <2>2, <2>4, <2>6 DEF UsesInv
  <2> QED BY <2>1, <2>2, <2>3, <2>4, <2>7, BehindDone
<1> QED BY <1>1, Invariance, PTL DEF Spec, MainInOrder

-----------------------------------------------------------------------------
(* Events, whatever the program and malloc do: addresses that eventmap still *)
(* has are reused, passes are dropped, and released late.                    *)

Fields == {"phase", "kind", "held", "addr", "deps", "todo", "waits", "own"}

\* Live passes have addresses of their own, and the event that was made for one
\* is in eventmap until it is set.
OwnInv ==
    /\ DOMAIN pass = Pass /\ \A p \in Pass : DOMAIN pass[p] = Fields
    /\ event \in [Addr -> [of : Pass \cup {NoPass}, set : BOOLEAN]]
    /\ \A p \in Pass : pass[p].phase \in {"none", "creating"} => ~ pass[p].own
    /\ \A p \in Pass : pass[p].phase = "none" => ~ pass[p].held
    /\ main.op = "create" => main.p \in Pass /\ pass[main.p].phase = "creating"
                             /\ pass[main.p].held
    /\ \A p \in Pass : Alive(p) => pass[p].addr \in Addr
    /\ \A p, q \in Pass : Alive(p) /\ Alive(q) /\ pass[p].addr = pass[q].addr => p = q
    /\ \A p \in Pass : Alive(p) /\ pass[p].own =>
           \/ event[pass[p].addr].of = p /\ (event[pass[p].addr].set => Done(p))
           \/ event[pass[p].addr] = NoEvent /\ Done(p)

\* What of a pass OwnInv speaks of.
SameLife(p) == /\ pass'[p].phase = pass[p].phase /\ pass'[p].held = pass[p].held
               /\ pass'[p].addr = pass[p].addr /\ pass'[p].own = pass[p].own

LEMMA OwnFrame ==
    ASSUME OwnInv, event' = event,
           DOMAIN pass' = Pass /\ \A p \in Pass : DOMAIN pass'[p] = Fields,
           \A p \in Pass : /\ pass'[p].addr = pass[p].addr /\ pass'[p].own = pass[p].own
                           /\ pass'[p].phase = "none" <=> pass[p].phase = "none"
                           /\ pass'[p].phase = "creating" <=> pass[p].phase = "creating"
                           /\ Alive(p)' => Alive(p)
                           /\ Done(p) => Done(p)'
                           /\ pass'[p].held => pass[p].held,
           main'.op = "create" => /\ main.op = "create" /\ main'.p = main.p
                                  /\ pass'[main.p].held
    PROVE  OwnInv'
<1>1. \A p \in Pass : Alive(p)' => Alive(p)
    OBVIOUS
<1>2. \A p, q \in Pass : Alive(p)' /\ Alive(q)' /\ pass'[p].addr = pass'[q].addr => p = q
    BY <1>1 DEF OwnInv
<1>3. \A p \in Pass : Alive(p)' /\ pass'[p].own =>
           \/ event'[pass'[p].addr].of = p /\ (event'[pass'[p].addr].set => Done(p)')
           \/ event'[pass'[p].addr] = NoEvent /\ Done(p)'
    BY <1>1 DEF OwnInv
<1>4. \A p \in Pass : Alive(p)' => pass'[p].addr \in Addr
    BY <1>1 DEF OwnInv
<1>5. main'.op = "create" => main'.p \in Pass /\ pass'[main'.p].phase = "creating"
                             /\ pass'[main'.p].held
    BY DEF OwnInv
<1>6. /\ event' \in [Addr -> [of : Pass \cup {NoPass}, set : BOOLEAN]]
      /\ \A p \in Pass : pass'[p].phase \in {"none", "creating"} => ~ pass'[p].own
      /\ \A p \in Pass : pass'[p].phase = "none" => ~ pass'[p].held
    BY DEF OwnInv
<1> QED BY <1>2, <1>3, <1>4, <1>5, <1>6 DEF OwnInv

\* A pass is given other fields.
LEMMA FieldsSet ==
    ASSUME OwnInv, NEW p \in Pass, NEW x, DOMAIN x = Fields,
           pass' = [pass EXCEPT ![p] = x]
    PROVE  /\ DOMAIN pass' = Pass /\ \A q \in Pass : DOMAIN pass'[q] = Fields
           /\ pass'[p] = x /\ \A q \in Pass : q # p => pass'[q] = pass[q]
BY DEF OwnInv

LEMMA OwnSame ==
    ASSUME OwnInv, pass' = pass, event' = event,
           main'.op = "create" => main.op = "create" /\ main'.p = main.p
    PROVE  OwnInv'
<1>1. \A p \in Pass : (Alive(p)' <=> Alive(p)) /\ (Done(p)' <=> Done(p))
    BY DEF Alive, Done
<1> QED BY <1>1, OwnFrame DEF OwnInv

\* The steps that change nothing of a pass but phase, what it waits for and who
\* holds it.
LEMMA OwnStep ==
    ASSUME OwnInv, NEW p \in Pass,
           Schedule(p) \/ Forego(p) \/ CreateTasks(p) \/ Run(p) \/ Release(p)
    PROVE  OwnInv'
<1>0. DOMAIN pass = Pass /\ DOMAIN pass[p] = Fields
    BY DEF OwnInv
<1>1. event' = event /\ main' = main
    BY DEF Schedule, Forego, CreateTasks, Run, Release
<1>2. PICK x : /\ pass' = [pass EXCEPT ![p] = x] /\ DOMAIN x = Fields
               /\ x.addr = pass[p].addr /\ x.own = pass[p].own
               /\ \/ /\ pass[p].phase = "created" /\ pass[p].held /\ x.phase = "scheduled"
                     /\ x.held = pass[p].held
                  \/ x.phase = pass[p].phase /\ ~ x.held /\ main.op = "idle"
                  \/ /\ pass[p].phase = "scheduled" /\ x.phase = "scheduled"
                     /\ x.held = pass[p].held
                  \/ /\ pass[p].phase = "scheduled" /\ x.phase = "ready"
                     /\ x.held = pass[p].held
                  \/ /\ pass[p].phase = "ready" /\ x.phase = "running"
                     /\ x.held = pass[p].held
                  \/ /\ pass[p].phase = "signalled" /\ x.phase = "over"
                     /\ x.held = pass[p].held
  <2>1. CASE Schedule(p)
    <3>1. PICK x : x = [pass[p] EXCEPT !.phase = "scheduled",
                                       !.todo = Queried(pass[p].kind)]
      OBVIOUS
    <3>2. pass' = [pass EXCEPT ![p] = x]
      BY <2>1, <3>1 DEF Schedule
    <3> QED BY <1>0, <2>1, <3>1, <3>2 DEF Fields, Schedule
  <2>2. CASE Forego(p)
    <3>1. PICK x : x = [pass[p] EXCEPT !.held = FALSE]
      OBVIOUS
    <3>2. pass' = [pass EXCEPT ![p] = x]
      BY <2>2, <3>1 DEF Forego
    <3> QED BY <1>0, <2>2, <3>1, <3>2 DEF Fields, Forego, Idle
  <2>3. CASE CreateTasks(p)
    <3> DEFINE todo == pass[p].todo
               slots == IF todo = <<>> THEN {} ELSE SlotsOf(Head(todo))
               ws == UNION {SyncDeps(entry[e]) : e \in slots}
    <3>1. /\ pass[p].phase = "scheduled"
          /\ pass' = [pass EXCEPT ![p].phase = IF todo = <<>> THEN "ready" ELSE @,
                          ![p].todo = IF todo = <<>> THEN todo ELSE Tail(todo),
                          ![p].waits = ws]
      BY <2>3 DEF CreateTasks
    <3> HIDE DEF ws
    <3>2. PICK x : x = [pass[p] EXCEPT !.phase = IF todo = <<>> THEN "ready" ELSE @,
                            !.todo = IF todo = <<>> THEN todo ELSE Tail(todo),
                            !.waits = ws]
      OBVIOUS
    <3>3. pass' = [pass EXCEPT ![p] = x]
      BY <3>1, <3>2
    <3>4. DOMAIN x = Fields
      BY <1>0, <3>2
    <3>5. x.addr = pass[p].addr /\ x.own = pass[p].own /\ x.held = pass[p].held
      BY <1>0, <3>2 DEF Fields
    <3>6. x.phase = "scheduled" \/ x.phase = "ready"
      BY <1>0, <3>1, <3>2 DEF Fields
    <3> QED BY <3>1, <3>3, <3>4, <3>5, <3>6
  <2>4. CASE Run(p)
    <3>1. PICK x : x = [pass[p] EXCEPT !.phase = "running", !.deps = {}]
      OBVIOUS
    <3>2. pass' = [pass EXCEPT ![p] = x]
      BY <2>4, <3>1 DEF Run
    <3> QED BY <1>0, <2>4, <3>1, <3>2 DEF Fields, Run
  <2>5. CASE Release(p)
    <3>1. PICK x : x = [pass[p] EXCEPT !.phase = "over"]
      OBVIOUS
    <3>2. pass' = [pass EXCEPT ![p] = x]
      BY <2>5, <3>1 DEF Release
    <3> QED BY <1>0, <2>5, <3>1, <3>2 DEF Fields, Release
  <2> QED BY <2>1, <2>2, <2>3, <2>4, <2>5
<1>3. /\ DOMAIN pass' = Pass /\ \A q \in Pass : DOMAIN pass'[q] = Fields
      /\ pass'[p] = x /\ \A q \in Pass : q # p => pass'[q] = pass[q]
    BY <1>2, FieldsSet
<1>4. \A q \in Pass : /\ pass'[q].addr = pass[q].addr /\ pass'[q].own = pass[q].own
                      /\ pass'[q].phase = "none" <=> pass[q].phase = "none"
                      /\ pass'[q].phase = "creating" <=> pass[q].phase = "creating"
                      /\ Alive(q)' => Alive(q)
                      /\ Done(q) => Done(q)'
                      /\ pass'[q].held => pass[q].held
  <2> SUFFICES ASSUME NEW q \in Pass
               PROVE  /\ pass'[q].addr = pass[q].addr /\ pass'[q].own = pass[q].own
                      /\ pass'[q].phase = "none" <=> pass[q].phase = "none"
                      /\ pass'[q].phase = "creating" <=> pass[q].phase = "creating"
                      /\ Alive(q)' => Alive(q)
                      /\ Done(q) => Done(q)'
                      /\ pass'[q].held => pass[q].held
    OBVIOUS
  <2>1. CASE q # p
    BY <1>3, <2>1 DEF Alive, Done
  <2>2. CASE q = p
    BY <1>2, <1>3, <2>2 DEF Alive, Done
  <2> QED BY <2>1, <2>2
<1>5. main'.op = "create" => /\ main.op = "create" /\ main'.p = main.p
                             /\ pass'[main.p].held
  <2>1. main.op = "create" => main.p \in Pass /\ pass[main.p].phase = "creating"
                              /\ pass[main.p].held
    BY DEF OwnInv
  <2> QED BY <1>1, <1>2, <1>3, <2>1
<1> QED BY <1>1, <1>3, <1>4, <1>5, OwnFrame

\* A pass at an address that no live pass has.
LEMMA OwnCreatePass ==
    ASSUME OwnInv, NEW p \in Pass, NEW kind \in Kinds, NEW a \in Addr,
           CreatePass(p, kind, a)
    PROVE  OwnInv'
<1>1. /\ pass[p].phase = "none" /\ main' = [op |-> "create", p |-> p,
                                            rest |-> Requests(kind), synced |-> {}]
      /\ event' = event /\ \A q \in Pass : Alive(q) => pass[q].addr # a
    BY DEF CreatePass, FreeAddr
<1>2. PICK x : x = [NewPass EXCEPT !.phase = "creating", !.kind = kind,
                                   !.held = TRUE, !.addr = a]
    OBVIOUS
<1>3. /\ DOMAIN x = Fields /\ x.phase = "creating" /\ x.held /\ x.addr = a /\ ~ x.own
    BY <1>2 DEF NewPass, Fields
<1>4. pass' = [pass EXCEPT ![p] = x]
    BY <1>2 DEF CreatePass
<1>5. /\ DOMAIN pass' = Pass /\ \A q \in Pass : DOMAIN pass'[q] = Fields
      /\ pass'[p] = x /\ \A q \in Pass : q # p => pass'[q] = pass[q]
    BY <1>3, <1>4, FieldsSet
<1>6. \A q \in Pass : q # p => (Alive(q)' <=> Alive(q)) /\ (Done(q)' <=> Done(q))
    BY <1>5 DEF Alive, Done
<1>7. /\ \A q \in Pass : pass'[q].phase \in {"none", "creating"} => ~ pass'[q].own
      /\ \A q \in Pass : pass'[q].phase = "none" => ~ pass'[q].held
    BY <1>3, <1>5 DEF OwnInv
<1>8. main'.p \in Pass /\ pass'[main'.p].phase = "creating" /\ pass'[main'.p].held
    BY <1>1, <1>3, <1>5
<1>9. \A q \in Pass : Alive(q)' => pass'[q].addr \in Addr
    BY <1>3, <1>5, <1>6 DEF OwnInv
<1>10. ASSUME NEW q \in Pass, NEW r \in Pass, Alive(q)', Alive(r)',
              pass'[q].addr = pass'[r].addr
       PROVE  q = r
    BY <1>1, <1>3, <1>5, <1>6, <1>10 DEF OwnInv
<1>11. ASSUME NEW q \in Pass, Alive(q)', pass'[q].own
       PROVE  \/ event'[pass'[q].addr].of = q /\ (event'[pass'[q].addr].set => Done(q)')
              \/ event'[pass'[q].addr] = NoEvent /\ Done(q)'
    BY <1>1, <1>3, <1>5, <1>6, <1>11 DEF OwnInv
<1>12. event' \in [Addr -> [of : Pass \cup {NoPass}, set : BOOLEAN]]
    BY <1>1 DEF OwnInv
<1> QED BY <1>5, <1>7, <1>8, <1>9, <1>10, <1>11, <1>12 DEF OwnInv

LEMMA OwnRegister ==
    ASSUME OwnInv, Register
    PROVE  OwnInv'
<1>1. /\ main.op = "create" /\ main.p \in Pass /\ pass[main.p].held /\ event' = event
      /\ DOMAIN pass = Pass /\ DOMAIN pass[main.p] = Fields
    BY DEF Register, OwnInv
<1>2. main'.op = "create" => main'.p = main.p
    BY DEF Register
<1>3. CASE pass' = pass
    BY <1>1, <1>2, <1>3, OwnSame
<1>4. ASSUME NEW D, pass' = [pass EXCEPT ![main.p].deps = D]
      PROVE  OwnInv'
  <2>1. PICK x : x = [pass[main.p] EXCEPT !.deps = D]
    OBVIOUS
  <2>2. /\ DOMAIN x = Fields /\ x.phase = pass[main.p].phase /\ x.held = pass[main.p].held
        /\ x.addr = pass[main.p].addr /\ x.own = pass[main.p].own
    BY <1>1, <2>1 DEF Fields
  <2>3. pass' = [pass EXCEPT ![main.p] = x]
    BY <1>4, <2>1
  <2>4. /\ DOMAIN pass' = Pass /\ \A q \in Pass : DOMAIN pass'[q] = Fields
        /\ pass'[main.p] = x /\ \A q \in Pass : q # main.p => pass'[q] = pass[q]
    BY <1>1, <2>2, <2>3, FieldsSet
  <2>5. \A q \in Pass : SameLife(q)
    BY <2>2, <2>4 DEF SameLife
  <2>6. \A q \in Pass : (Alive(q)' <=> Alive(q)) /\ (Done(q)' <=> Done(q))
    BY <2>5 DEF SameLife, Alive, Done
  <2>7. pass'[main.p].held
    BY <1>1, <2>2, <2>4
  <2> QED BY <1>1, <1>2, <2>4, <2>5, <2>6, <2>7, OwnFrame DEF SameLife
<1> QED BY <1>3, <1>4 DEF Register

\* The event is made for the pass, unless the address has one.
LEMMA OwnCreateEnd ==
    ASSUME OwnInv, CreateEnd
    PROVE  OwnInv'
<1> DEFINE p == main.p
           a == pass[p].addr
<1>1. /\ main.op = "create" /\ p \in Pass /\ pass[p].phase = "creating" /\ pass[p].held
      /\ DOMAIN pass[p] = Fields
      /\ main'.op = "idle" /\ Alive(p) /\ a \in Addr
    BY DEF CreateEnd, OwnInv, Idle, Alive
<1>2. PICK x : x = [pass[p] EXCEPT !.phase = "created", !.own = event[a].of = NoPass]
    OBVIOUS
<1>3. /\ DOMAIN x = Fields /\ x.phase = "created" /\ x.held = pass[p].held /\ x.addr = a
      /\ x.own <=> event[a].of = NoPass
    BY <1>1, <1>2 DEF Fields
<1>4. pass' = [pass EXCEPT ![p] = x]
    BY <1>2 DEF CreateEnd
<1>5. /\ DOMAIN pass' = Pass /\ \A q \in Pass : DOMAIN pass'[q] = Fields
      /\ pass'[p] = x /\ \A q \in Pass : q # p => pass'[q] = pass[q]
    BY <1>1, <1>3, <1>4, FieldsSet
<1>6. \A q \in Pass : (Alive(q)' <=> Alive(q)) /\ (Done(q)' <=> Done(q))
                      /\ pass'[q].addr = pass[q].addr
    BY <1>1, <1>3, <1>5 DEF Alive, Done
<1>7. /\ event' \in [Addr -> [of : Pass \cup {NoPass}, set : BOOLEAN]]
      /\ \A b \in Addr : b # a => event'[b] = event[b]
      /\ event[a].of = NoPass => event'[a].of = p /\ ~ event'[a].set
    BY <1>1 DEF CreateEnd, OwnInv
<1>8. ASSUME NEW q \in Pass, Alive(q)', pass'[q].own
      PROVE  \/ event'[pass'[q].addr].of = q /\ (event'[pass'[q].addr].set => Done(q)')
             \/ event'[pass'[q].addr] = NoEvent /\ Done(q)'
  <2>1. CASE q = p
    BY <1>3, <1>5, <1>6, <1>7, <1>8, <2>1
  <2>2. CASE q # p
    <3>1. Alive(q) /\ pass[q].own /\ pass[q].addr # a /\ pass[q].addr \in Addr
      BY <1>1, <1>5, <1>6, <1>8, <2>2 DEF OwnInv
    <3>2. event'[pass[q].addr] = event[pass[q].addr]
      BY <1>7, <3>1
    <3> QED BY <1>6, <3>1, <3>2 DEF OwnInv
  <2> QED BY <2>1, <2>2
<1>9. /\ \A q \in Pass : pass'[q].phase \in {"none", "creating"} => ~ pass'[q].own
      /\ \A q \in Pass : pass'[q].phase = "none" => ~ pass'[q].held
    BY <1>3, <1>5 DEF OwnInv
<1>10. /\ \A q \in Pass : Alive(q)' => pass'[q].addr \in Addr
       /\ \A q, r \in Pass : Alive(q)' /\ Alive(r)' /\ pass'[q].addr = pass'[r].addr => q = r
    BY <1>6 DEF OwnInv
<1> QED BY <1>1, <1>5, <1>7, <1>8, <1>9, <1>10 DEF OwnInv

LEMMA OwnSignal ==
    ASSUME OwnInv, NEW p \in Pass, Signal(p)
    PROVE  OwnInv'
<1> DEFINE a == pass[p].addr
<1>1. /\ pass[p].phase = "running" /\ main' = main /\ DOMAIN pass[p] = Fields
      /\ Alive(p) /\ a \in Addr
    BY DEF Signal, OwnInv, Alive
<1>2. PICK x : x = [pass[p] EXCEPT !.phase = "signalled"]
    OBVIOUS
<1>3. /\ DOMAIN x = Fields /\ x.phase = "signalled" /\ x.held = pass[p].held /\ x.addr = a
      /\ x.own = pass[p].own
    BY <1>1, <1>2 DEF Fields
<1>4. pass' = [pass EXCEPT ![p] = x]
    BY <1>2 DEF Signal
<1>5. /\ DOMAIN pass' = Pass /\ \A q \in Pass : DOMAIN pass'[q] = Fields
      /\ pass'[p] = x /\ \A q \in Pass : q # p => pass'[q] = pass[q]
    BY <1>3, <1>4, FieldsSet
<1>6. /\ \A q \in Pass : (Alive(q)' <=> Alive(q)) /\ (Done(q) => Done(q)')
                         /\ pass'[q].addr = pass[q].addr /\ pass'[q].own = pass[q].own
      /\ Done(p)' /\ ~ Done(p)
    BY <1>1, <1>3, <1>5 DEF Alive, Done
<1>7. /\ event' \in [Addr -> [of : Pass \cup {NoPass}, set : BOOLEAN]]
      /\ \A b \in Addr : b # a => event'[b] = event[b]
      /\ event'[a].of = event[a].of
    BY <1>1 DEF Signal, SetEvent, OwnInv
<1>8. ASSUME NEW q \in Pass, Alive(q)', pass'[q].own
      PROVE  \/ event'[pass'[q].addr].of = q /\ (event'[pass'[q].addr].set => Done(q)')
             \/ event'[pass'[q].addr] = NoEvent /\ Done(q)'
  <2>1. CASE q = p
    <3>1. event[a].of = p
      BY <1>1, <1>6, <1>8, <2>1 DEF OwnInv
    <3> QED BY <1>6, <1>7, <2>1, <3>1
  <2>2. CASE q # p
    <3>1. Alive(q) /\ pass[q].own /\ pass[q].addr # a /\ pass[q].addr \in Addr
      BY <1>1, <1>6, <1>8, <2>2 DEF OwnInv
    <3>2. event'[pass[q].addr] = event[pass[q].addr]
      BY <1>7, <3>1
    <3> QED BY <1>6, <3>1, <3>2 DEF OwnInv
  <2> QED BY <2>1, <2>2
<1>9. /\ \A q \in Pass : pass'[q].phase \in {"none", "creating"} => ~ pass'[q].own
      /\ \A q \in Pass : pass'[q].phase = "none" => ~ pass'[q].held
    BY <1>3, <1>5 DEF OwnInv
<1>10. /\ \A q \in Pass : Alive(q)' => pass'[q].addr \in Addr
       /\ \A q, r \in Pass : Alive(q)' /\ Alive(r)' /\ pass'[q].addr = pass'[r].addr => q = r
    BY <1>6 DEF OwnInv
<1>11. main'.op = "create" => main'.p \in Pass /\ pass'[main'.p].phase = "creating"
                              /\ pass'[main'.p].held
    BY <1>1, <1>5 DEF OwnInv
<1> QED BY <1>5, <1>7, <1>8, <1>9, <1>10, <1>11 DEF OwnInv

\* wait and forget remove no event that is not set.
LEMMA OwnRemoved ==
    ASSUME OwnInv, WaitReturn \/ Forget
    PROVE  OwnInv'
<1>1. pass' = pass /\ (main'.op = "create" => main' = main)
    BY DEF WaitReturn, Forget, Idle
<1>2. \A q \in Pass : (Alive(q)' <=> Alive(q)) /\ (Done(q)' <=> Done(q))
    BY <1>1 DEF Alive, Done
<1>3. /\ event' \in [Addr -> [of : Pass \cup {NoPass}, set : BOOLEAN]]
      /\ \A b \in Addr : event'[b] = event[b] \/ event'[b] = NoEvent
  <2>1. NoEvent \in [of : Pass \cup {NoPass}, set : BOOLEAN]
    BY DEF NoEvent
  <2>2. event \in [Addr -> [of : Pass \cup {NoPass}, set : BOOLEAN]]
    BY DEF OwnInv
  <2>3. CASE WaitReturn
    BY <2>1, <2>3 DEF WaitReturn
  <2>4. CASE Forget
    BY <2>1, <2>2, <2>4 DEF Forget
  <2> QED BY <2>3, <2>4
<1>4. ASSUME NEW p \in Pass, Alive(p), pass[p].own
      PROVE  \/ event'[pass[p].addr].of = p /\ (event'[pass[p].addr].set => Done(p))
             \/ event'[pass[p].addr] = NoEvent /\ Done(p)
  <2> DEFINE a == pass[p].addr
  <2>1. a \in Addr
    BY <1>4 DEF OwnInv
  <2>2. CASE event[a] = NoEvent /\ Done(p)
    BY <1>3, <2>1, <2>2
  <2>3. CASE event[a].of = p /\ (event[a].set => Done(p))
    <3>1. CASE WaitReturn
      <4>1. event[a].of # NoPass
        BY <2>3, PipelineAssumption
      <4>2. event[a].set
        BY <1>4, <2>1, <2>3, <3>1, <4>1 DEF WaitReturn, EventsSet
      <4> QED BY <1>3, <2>1, <2>3, <4>2
    <3>2. CASE Forget
      <4>1. ~ Forgotten(a)
        BY <1>4, <2>3 DEF Forgotten
      <4>2. event'[a] = event[a]
        BY <2>1, <3>2, <4>1 DEF Forget
      <4> QED BY <2>3, <4>2
    <3> QED BY <3>1, <3>2
  <2> QED BY <1>4, <2>2, <2>3 DEF OwnInv
<1>5. /\ \A p \in Pass : Alive(p)' => pass'[p].addr \in Addr
      /\ \A p, q \in Pass : Alive(p)' /\ Alive(q)' /\ pass'[p].addr = pass'[q].addr => p = q
  BY <1>1, <1>2 DEF OwnInv
<1>6. main'.op = "create" => main'.p \in Pass /\ pass'[main'.p].phase = "creating"
                             /\ pass'[main'.p].held
  BY <1>1 DEF OwnInv
<1>7. \A p \in Pass : Alive(p)' /\ pass'[p].own =>
          \/ event'[pass'[p].addr].of = p /\ (event'[pass'[p].addr].set => Done(p)')
          \/ event'[pass'[p].addr] = NoEvent /\ Done(p)'
  BY <1>1, <1>2, <1>4
<1>8. /\ DOMAIN pass' = Pass /\ \A p \in Pass : DOMAIN pass'[p] = Fields
      /\ \A p \in Pass : pass'[p].phase \in {"none", "creating"} => ~ pass'[p].own
      /\ \A p \in Pass : pass'[p].phase = "none" => ~ pass'[p].held
  BY <1>1 DEF OwnInv
<1> QED BY <1>3, <1>5, <1>6, <1>7, <1>8 DEF OwnInv

LEMMA InitOwn ==
    ASSUME Init
    PROVE  OwnInv
<1>1. /\ pass = [p \in Pass |-> NewPass] /\ event = [a \in Addr |-> NoEvent]
      /\ main.op = "idle"
    BY DEF Init, Idle
<1>2. /\ DOMAIN NewPass = Fields /\ NewPass.phase = "none" /\ ~ NewPass.held /\ ~ NewPass.own
    BY DEF NewPass, Fields
<1>3. \A p \in Pass : ~ Alive(p)
    BY <1>1, <1>2 DEF Alive
<1>4. event \in [Addr -> [of : Pass \cup {NoPass}, set : BOOLEAN]]
    BY <1>1 DEF NoEvent
<1>5. DOMAIN pass = Pass /\ \A p \in Pass : pass[p] = NewPass
    BY <1>1
<1> HIDE DEF NewPass
<1> QED BY <1>1, <1>2, <1>3, <1>4, <1>5 DEF OwnInv

LEMMA StepOwn ==
    ASSUME OwnInv, [Next]_vars
    PROVE  OwnInv'
<1>1. CASE \E p \in Pass, kind \in Kinds, a \in Addr : CreatePass(p, kind, a)
    BY <1>1, OwnCreatePass
<1>2. CASE Register \/ CreateEnd \/ WaitReturn \/ Forget
    BY <1>2, OwnRegister, OwnCreateEnd, OwnRemoved
<1>3. CASE \E p \in Pass : Schedule(p) \/ Forego(p) \/ PassStep(p)
    BY <1>3, OwnStep, OwnSignal DEF PassStep
<1>4. CASE \/ \E e \in Component : Access(e)
           \/ \E ats \in SUBSET Archetype \ {{}} : Change(ats)
           \/ \E at \in Archetype : Destroy(at)
           \/ SyncAllRo \/ SyncReturn \/ Wait
  <2>1. pass' = pass /\ event' = event /\ main'.op # "create"
    <3>1. CASE \E es, uses : Sync(es, uses)
      BY <3>1 DEF Sync
    <3>2. CASE SyncAllRo \/ SyncReturn \/ Wait
      BY <3>2 DEF SyncAllRo, SyncReturn, Wait, Idle
    <3> QED BY <1>4, <3>1, <3>2 DEF Access, Change, Destroy
  <2> QED BY <2>1, OwnSame
<1>5. CASE UNCHANGED vars
    BY <1>5, OwnSame DEF vars
<1> QED BY <1>1, <1>2, <1>3, <1>4, <1>5 DEF Next, MainStep

\* Whoever waits for a pass, in wait_for_dependencies, in sync_entry or in a query,
\* waits for the event that setup_pass made for it, if it made one, or finds that
\* it is over.
THEOREM OwnEventsAwaited == Spec => []WaitsForOwnEvent
<1>1. Init => OwnInv
    BY InitOwn
<1>2. OwnInv /\ [Next]_vars => OwnInv'
    BY StepOwn
<1>3. OwnInv => WaitsForOwnEvent
    BY DEF OwnInv, WaitsForOwnEvent
<1> QED BY <1>1, <1>2, <1>3, PTL DEF Spec
=============================================================================
