------------------------------ MODULE Pipeline ------------------------------
(***************************************************************************)
(* The pipeline: passes over the entities of a world run on other threads, *)
(* in an order that their declared reads and writes imply.                 *)
(*                                                                         *)
(* For every component of every archetype, every archetype's list of       *)
(* entities and every shared resource, the pipeline remembers the last     *)
(* pass that writes it (owned) and the passes that have come to read it    *)
(* since (shared), by weak pointers.  A new pass collects from them the    *)
(* passes it must wait for.  The program, on one thread, creates and       *)
(* schedules passes, and waits for passes before it touches a component or *)
(* moves entities itself.  A pass says that it has finished by an event,   *)
(* which ecs::pipeline finds by the address of the pass.                   *)
(*                                                                         *)
(* Abstractions.                                                           *)
(*   - The archetypes stay the same.  The archetype whose component an     *)
(*     entity sees through its meta entities is a constant, Owner.         *)
(*   - A pass that runs on several tasks is one step: its tasks work on    *)
(*     disjoint slices.                                                    *)
(*   - dependencyEntries and eventmap are read and written in one step.    *)
(*     Waiting for several events is one step, taken when all are set: an  *)
(*     event stays set, an expired pointer stays expired.                  *)
(*   - A call of the program that synchronises several archetypes, one     *)
(*     after the other, is one step.  Where passes over what has changed   *)
(*     run, their queries may clear an archetype's entries in between.     *)
(*   - A wait for an event that eventmap does not have dereferences its    *)
(*     end: such a step is not enabled.                                    *)
(***************************************************************************)
EXTENDS Integers, Sequences, FiniteSets, SequencesExt

CONSTANTS
    MaxPass,     \* bound: passes created
    NoPass,      \* the null weak pointer
    Addr,        \* addresses of passes
    NoAddr,
    Archetype,
    NoArchetype,
    Order,       \* the archetypes, as dependencyEntries iterates over them
    Type,        \* component types
    Owner,       \* whose component an archetype sees, for each type
    Resource,    \* shared resources
    Kinds,       \* what passes may be asked to do
    Cleaning,    \* where destroy moves the entities of an archetype, if anywhere
    ReuseStale,  \* whether an address is reused while eventmap still has it
    MayDrop,     \* whether the program may drop a pass without scheduling it
    SlowRelease  \* whether a finished pass may outlive the wait for it

Pass == 1 .. MaxPass
Entities == "entities"
Component == {x \in Archetype \X Type : Owner[x[1]][x[2]] = x[1]}
Slot == Component \cup (Archetype \X {Entities})
Entry == Slot \cup Resource

Kind == [archs : Seq(Archetype),
         params : Seq([type : Type, readonly : BOOLEAN, random : BOOLEAN]),
         changed : Seq(Type),
         resources : Seq([entry : Resource, readonly : BOOLEAN])]

ASSUME PipelineAssumption ==
    /\ MaxPass \in Nat
    /\ NoPass \notin Pass /\ NoAddr \notin Addr /\ NoArchetype \notin Archetype
    /\ Order \in Seq(Archetype)
    /\ Owner \in [Archetype -> [Type -> Archetype \cup {NoArchetype}]]
    /\ Cleaning \in [Archetype -> Archetype \cup {NoArchetype}]
    /\ \A k \in Kinds : k \in Kind
    /\ {ReuseStale, MayDrop, SlowRelease} \subseteq BOOLEAN

VARIABLES
    pass,  \* phase, kind, held by the program, address, dependencies; the
           \* archetypes still to be queried for changes and what the query
           \* waits for; history: whether its event was made for it
    entry, \* owned and shared of every entry
    event, \* eventmap: address to the pass it was made for and whether it is set
    main   \* what the program's thread is doing

vars == <<pass, entry, event, main>>

Phase == {"none", "creating", "created", "scheduled", "ready",
          "running", "signalled", "over"}
NoKind == [archs |-> <<>>, params |-> <<>>, changed |-> <<>>, resources |-> <<>>]
NewPass == [phase |-> "none", kind |-> NoKind, held |-> FALSE, addr |-> NoAddr,
            deps |-> {}, todo |-> <<>>, waits |-> {}, own |-> FALSE]
NewEntry == [owned |-> NoPass, shared |-> {}]
NoEvent == [of |-> NoPass, set |-> FALSE]
Idle == [op |-> "idle"]

Request == [entry : Entry, readonly : BOOLEAN, once : BOOLEAN]

TypeOK ==
    /\ pass \in [Pass -> [phase : Phase, kind : Kinds \cup {NoKind}, held : BOOLEAN,
                          addr : Addr \cup {NoAddr},
                          deps : SUBSET Pass, todo : Seq(Archetype),
                          waits : SUBSET Pass, own : BOOLEAN]]
    /\ entry \in [Entry -> [owned : Pass \cup {NoPass}, shared : SUBSET Pass]]
    /\ event \in [Addr -> [of : Pass \cup {NoPass}, set : BOOLEAN]]
    /\ \/ main \in [op : {"idle", "wait"}]
       \/ main \in [op : {"create"}, p : Pass, rest : Seq(Request), synced : SUBSET Entry]
       \/ main \in [op : {"sync"}, for : SUBSET Pass, uses : SUBSET Entry, writes : BOOLEAN]

\* A weak pointer to the pass can be locked: the program holds it, or the
\* closure that runs it does.
Alive(p) ==
    \/ pass[p].held
    \/ pass[p].phase \in {"scheduled", "ready", "running", "signalled"}

Done(p) == pass[p].phase \in {"signalled", "over"}
Dropped(p) == pass[p].phase = "created" /\ ~ pass[p].held

-----------------------------------------------------------------------------
(* What a pass asks of the entries.  Definitions whose comment begins with *)
(* "Mutant" are faulty variants of the one after them.                     *)

Ask(e, readonly, once) == <<[entry |-> e, readonly |-> readonly, once |-> once]>>

\* sync_type: the entries for t of all archetypes, up to the first archetype
\* that has none.
RandomRequests(t, readonly) ==
    LET without == {n \in DOMAIN Order : <<Order[n], t>> \notin Component}
        reached == {n \in DOMAIN Order : \A m \in without : n < m}
    IN  FlattenSeq([n \in 1 .. Cardinality(reached) |->
                       Ask(<<Order[n], t>>, readonly, FALSE)])

\* A parameter of a pass over archetype at.  What at sees through its meta
\* entities is only read.
ParamRequests(at, param) ==
    LET own == Owner[at][param.type]
    IN  CASE param.random -> RandomRequests(param.type, param.readonly)
          [] ~ param.random /\ own = NoArchetype -> <<>>
          [] OTHER -> Ask(<<own, param.type>>, own # at \/ param.readonly, TRUE)

ChangedRequests(at, t) ==
    IF Owner[at][t] = at THEN Ask(<<at, t>>, TRUE, TRUE) ELSE <<>>

\* Mutant: a pass does not declare that it reads the lists of entities.
ArchetypeRequestsNoEntities(kind, at) ==
    FlattenSeq([n \in DOMAIN kind.params |-> ParamRequests(at, kind.params[n])])

ArchetypeRequests(kind, at) ==
    FlattenSeq([n \in DOMAIN kind.params |-> ParamRequests(at, kind.params[n])])
    \o Ask(<<at, Entities>>, TRUE, FALSE)
    \o FlattenSeq([n \in DOMAIN kind.changed |-> ChangedRequests(at, kind.changed[n])])

\* setup_pass_dependency (with no archetypes, setup_custom_pass_dependency):
\* what it asks, in order.
Requests(kind) ==
    FlattenSeq([n \in DOMAIN kind.resources |->
                   Ask(kind.resources[n].entry, kind.resources[n].readonly, FALSE)])
    \o FlattenSeq([n \in DOMAIN kind.archs |-> ArchetypeRequests(kind, kind.archs[n])])

LivePasses(S) == {p \in S \ {NoPass} : Alive(p)}

\* Mutant: a weak pointer is taken without looking whether it has expired.
ReadDepsAny(x) == {x.owned}

\* The passes that a new reader or writer of an entry depends on.
ReadDeps(x) == LivePasses({x.owned})
WriteDeps(x) == LivePasses(IF x.shared = {} THEN {x.owned} ELSE x.shared)

Reading(x, p) == [x EXCEPT !.shared = LivePasses(@) \cup {p}]

\* Mutant: the readers before the writer stay.
WritingKept(x, p) == [x EXCEPT !.owned = p]

Writing(x, p) == [owned |-> p, shared |-> {}]

-----------------------------------------------------------------------------
(* The program's thread.                                                   *)

\* Addresses that malloc may return for a new pass.
FreeAddr(a) ==
    /\ \A p \in Pass : Alive(p) => pass[p].addr # a
    /\ ~ ReuseStale => event[a].of = NoPass

\* create_pass, up to setup_pass_dependency.
CreatePass(p, kind, a) ==
    /\ main = Idle
    /\ p \in Pass /\ pass[p].phase = "none"
    /\ \A q \in 1 .. p - 1 : pass[q].phase # "none"
    /\ FreeAddr(a)
    /\ pass' = [pass EXCEPT ![p] = [NewPass EXCEPT !.phase = "creating", !.kind = kind,
                                                   !.held = TRUE, !.addr = a]]
    /\ main' = [op |-> "create", p |-> p, rest |-> Requests(kind), synced |-> {}]
    /\ UNCHANGED <<entry, event>>

\* The next request of setup_pass_dependency (sync_entry, sync_type,
\* sync_entities, setup_shared_dependency).
Register ==
    /\ main.op = "create" /\ main.rest # <<>>
    /\ LET p == main.p
           r == Head(main.rest)
           x == entry[r.entry]
       IN  IF r.once /\ r.entry \in main.synced
           THEN UNCHANGED <<entry, pass>>
           ELSE /\ entry' = [entry EXCEPT ![r.entry] =
                                IF r.readonly THEN Reading(@, p) ELSE Writing(@, p)]
                /\ pass' = [pass EXCEPT ![p].deps =
                               @ \cup (IF r.readonly THEN ReadDeps(x) ELSE WriteDeps(x))]
    /\ LET r == Head(main.rest)
       IN  main' = [main EXCEPT !.rest = Tail(@),
                                !.synced = IF r.once THEN @ \cup {r.entry} ELSE @]
    /\ UNCHANGED event

\* setup_pass: eventmap keeps what it has for the address.
CreateEnd ==
    /\ main.op = "create" /\ main.rest = <<>>
    /\ LET p == main.p
           a == pass[p].addr
       IN  /\ pass' = [pass EXCEPT ![p].phase = "created",
                                   ![p].own = event[a].of = NoPass]
           /\ event' = IF event[a].of = NoPass
                       THEN [event EXCEPT ![a] = [of |-> p, set |-> FALSE]]
                       ELSE event
    /\ main' = Idle
    /\ UNCHANGED entry

\* The archetypes whose entries the query by changed components clears.
Queried(kind) == IF kind.changed = <<>> THEN <<>> ELSE kind.archs

\* schedule: the closure holds the pass from here on.
Schedule(p) ==
    /\ main = Idle
    /\ pass[p].phase = "created" /\ pass[p].held
    /\ pass' = [pass EXCEPT ![p].phase = "scheduled", ![p].todo = Queried(pass[p].kind)]
    /\ UNCHANGED <<entry, event, main>>

\* The program lets go of a pass.
Forego(p) ==
    /\ main = Idle
    /\ pass[p].held
    /\ MayDrop \/ pass[p].phase # "created"
    /\ pass' = [pass EXCEPT ![p].held = FALSE]
    /\ UNCHANGED <<entry, event, main>>

\* Before it waits, the program has scheduled every pass that it still holds:
\* it would wait for itself otherwise.
AllScheduled == \A p \in Pass : pass[p].phase = "created" => ~ pass[p].held

\* Mutant: the writer is not waited for.
SyncDepsReaders(x) == x.shared

\* The passes that sync_archetype and sync_entry wait for at an entry.
SyncDeps(x) == IF x.shared = {} THEN LivePasses({x.owned}) ELSE x.shared

\* sync_archetype and sync_entry, and then the use of the entries in uses.
Sync(entries, uses) ==
    /\ main = Idle /\ AllScheduled
    /\ entry' = [e \in Entry |-> IF e \in entries THEN NewEntry ELSE entry[e]]
    /\ main' = [op |-> "sync", for |-> UNION {SyncDeps(entry[e]) : e \in entries},
                uses |-> uses, writes |-> TRUE]
    /\ UNCHANGED <<pass, event>>

SlotsOf(at) == {s \in Slot : s[1] = at}

\* get_component_ro, get_owned_rw, enable_component and others.
Access(e) == Sync({e}, {e})

\* allocate (one archetype), cast (two) and instantiate (two for every member of
\* the group).
Change(ats) ==
    LET slots == UNION {SlotsOf(at) : at \in ats}
    IN  Sync(slots, slots)

\* destroy: entities with a component that needs cleaning up move to another
\* archetype.
Destroy(at) == Sync(SlotsOf(at), SlotsOf(at) \cup SlotsOf(Cleaning[at]))

\* sync_all_ro, and then reads of any component.
SyncAllRo ==
    /\ main = Idle /\ AllScheduled
    /\ entry' = [e \in Entry |-> IF e \in Component
                                 THEN [entry[e] EXCEPT !.owned = NoPass] ELSE entry[e]]
    /\ main' = [op |-> "sync", for |-> LivePasses({entry[e].owned : e \in Component}),
                uses |-> Component, writes |-> FALSE]
    /\ UNCHANGED <<pass, event>>

\* What waiting for the events of these passes comes to.
Signalled(S) ==
    \A p \in LivePasses(S) : event[pass[p].addr].of # NoPass /\ event[pass[p].addr].set

SyncReturn ==
    /\ main.op = "sync"
    /\ Signalled(main.for)
    /\ main' = Idle
    /\ UNCHANGED <<pass, entry, event>>

\* wait, which is ecs::pipeline's sync_all.
Wait ==
    /\ main = Idle /\ AllScheduled
    /\ ~ SlowRelease => \A p \in Pass : ~ pass[p].held
    /\ main' = [op |-> "wait"]
    /\ UNCHANGED <<pass, entry, event>>

\* Mutant: wait does not look at the events.
EventsSetAnyway(a) == TRUE

EventsSet(a) == event[a].of # NoPass /\ Alive(event[a].of) => event[a].set

WaitReturn ==
    /\ main.op = "wait"
    /\ \A a \in Addr : EventsSet(a)
    /\ ~ SlowRelease => \A p \in Pass : Alive(p) => ~ Done(p)
    /\ event' = [a \in Addr |-> NoEvent]
    /\ main' = Idle
    /\ UNCHANGED <<pass, entry>>

\* Mutant: a pass that the program has let go of is forgotten.
ForgottenForegone(a) == event[a].of # NoPass /\ ~ pass[event[a].of].held

Forgotten(a) == event[a].of # NoPass /\ ~ Alive(event[a].of)

\* forget.
Forget ==
    /\ main = Idle
    /\ \E a \in Addr : Forgotten(a)
    /\ event' = [a \in Addr |-> IF Forgotten(a) THEN NoEvent ELSE event[a]]
    /\ UNCHANGED <<pass, entry, main>>

-----------------------------------------------------------------------------
(* The closure of a scheduled pass.                                        *)

\* A round of create_tasks.  Where what has changed is asked for, the next
\* archetype's query begins with sync_archetype, when that of the one before has
\* waited; behind the last archetype, or else at once, the tasks are there.
CreateTasks(p) ==
    LET todo == pass[p].todo
        slots == IF todo = <<>> THEN {} ELSE SlotsOf(Head(todo))
    IN  /\ pass[p].phase = "scheduled"
        /\ Signalled(pass[p].waits)
        /\ pass' = [pass EXCEPT ![p].phase = IF todo = <<>> THEN "ready" ELSE @,
                        ![p].todo = IF todo = <<>> THEN todo ELSE Tail(todo),
                        ![p].waits = UNION {SyncDeps(entry[e]) : e \in slots}]
        /\ entry' = [e \in Entry |-> IF e \in slots THEN NewEntry ELSE entry[e]]
        /\ UNCHANGED <<event, main>>

\* Mutant: the closure does not wait for the dependencies.
MayRunAtOnce(p) == TRUE

MayRun(p) == Signalled(pass[p].deps)

\* wait_for_dependencies.
Run(p) ==
    /\ pass[p].phase = "ready"
    /\ MayRun(p)
    /\ pass' = [pass EXCEPT ![p].phase = "running", ![p].deps = {}]
    /\ UNCHANGED <<entry, event, main>>

\* Mutant: the event is not signalled.
SetNothing(a) == event

SetEvent(a) == [event EXCEPT ![a].set = TRUE]

\* signal_pass.
Signal(p) ==
    /\ pass[p].phase = "running"
    /\ event[pass[p].addr].of # NoPass
    /\ pass' = [pass EXCEPT ![p].phase = "signalled"]
    /\ event' = SetEvent(pass[p].addr)
    /\ UNCHANGED <<entry, main>>

\* The closure is destroyed.
Release(p) ==
    /\ pass[p].phase = "signalled"
    /\ pass' = [pass EXCEPT ![p].phase = "over"]
    /\ UNCHANGED <<entry, event, main>>

-----------------------------------------------------------------------------

Init ==
    /\ pass = [p \in Pass |-> NewPass]
    /\ entry = [e \in Entry |-> NewEntry]
    /\ event = [a \in Addr |-> NoEvent]
    /\ main = Idle

MainRound == Register \/ CreateEnd \/ SyncReturn \/ WaitReturn

MainStep ==
    \/ \E p \in Pass, kind \in Kinds, a \in Addr : CreatePass(p, kind, a)
    \/ Register
    \/ CreateEnd
    \/ \E p \in Pass : Schedule(p)
    \/ \E p \in Pass : Forego(p)
    \/ \E e \in Component : Access(e)
    \/ \E ats \in SUBSET Archetype \ {{}} : Change(ats)
    \/ \E at \in Archetype : Destroy(at)
    \/ SyncAllRo
    \/ SyncReturn
    \/ Wait
    \/ WaitReturn
    \/ Forget

PassStep(p) == CreateTasks(p) \/ Run(p) \/ Signal(p) \/ Release(p)

Next == MainStep \/ \E p \in Pass : PassStep(p)

Spec == Init /\ [][Next]_vars

\* The scheduler keeps running every closure it has: one that waits for an
\* event gives up its thread.  The program goes on when it can, and schedules
\* the passes that it creates.
FairSpec ==
    /\ Spec
    /\ WF_vars(MainRound)
    /\ \A p \in Pass : WF_vars(PassStep(p)) /\ SF_vars(Schedule(p))

-----------------------------------------------------------------------------
(* Properties.                                                             *)

\* The entries that a pass writes and reads while it runs.
Writes(kind) ==
    LET param == {kind.params[n] : n \in DOMAIN kind.params}
        at == {kind.archs[n] : n \in DOMAIN kind.archs}
        of(t, random) == [type |-> t, readonly |-> FALSE, random |-> random]
    IN  {e \in Component : \/ e[1] \in at /\ of(e[2], FALSE) \in param
                           \/ of(e[2], TRUE) \in param}
        \cup {kind.resources[n].entry :
                 n \in {m \in DOMAIN kind.resources : ~ kind.resources[m].readonly}}
Reads(kind) ==
    LET param == {kind.params[n] : n \in DOMAIN kind.params}
        at == {kind.archs[n] : n \in DOMAIN kind.archs}
        seen == {x.type : x \in param} \cup {kind.changed[n] : n \in DOMAIN kind.changed}
    IN  {e \in Component :
            \/ e[2] \in seen /\ \E a \in at : Owner[a][e[2]] = e[1]
            \/ \E x \in param : x.random /\ x.type = e[2]}
        \cup (at \X {Entities})
        \cup {kind.resources[n].entry : n \in DOMAIN kind.resources}

\* A request that is passed over: the pass has asked for the entry already.
Skipped(rs, i) ==
    rs[i].once /\ \E j \in 1 .. i - 1 : rs[j].once /\ rs[j].entry = rs[i].entry
AsksToWrite(rs, i) == ~ rs[i].readonly /\ ~ Skipped(rs, i)

\* The requests of a pass of this kind are those for what it uses.  This leaves
\* out passes over what has changed, passes that write a component of any
\* entity when an archetype before it has none, and passes that see a component
\* of another archetype before they write it there: see the README.
AsksForAll(kind) ==
    LET rs == Requests(kind)
    IN  /\ rs \in Seq(Request)
        /\ kind.changed = <<>>
        /\ \A e \in Writes(kind) :
               e \in Entry /\ \E i \in 1 .. Len(rs) : rs[i].entry = e /\ AsksToWrite(rs, i)
        /\ \A e \in Reads(kind) : e \in Entry /\ \E i \in 1 .. Len(rs) : rs[i].entry = e

Conflict(k, l) ==
    \/ Writes(k) \cap (Reads(l) \cup Writes(l)) # {}
    \/ Writes(l) \cap Reads(k) # {}

\* A pass runs only after every pass created before it that writes what it
\* uses, or uses what it writes, has finished: whatever the threads do, the
\* outcome is that of running the passes in the order of their creation.
PassesInOrder ==
    \A q \in Pass : pass[q].phase = "running" =>
        \A p \in 1 .. q - 1 :
            Conflict(pass[p].kind, pass[q].kind) => Done(p) \/ Dropped(p)

UsedByMain(p) ==
    /\ ~ Done(p) /\ ~ Dropped(p) /\ pass[p].phase # "none"
    /\ main.uses \cap (IF main.writes THEN Reads(pass[p].kind) \cup Writes(pass[p].kind)
                       ELSE Writes(pass[p].kind)) # {}

\* When the program, having waited in sync_entry, sync_archetype or
\* sync_all_ro, touches a component or moves entities, no pass that uses them
\* is still to finish.
MainInOrder == [][SyncReturn => \A p \in Pass : ~ UsedByMain(p)]_vars

\* The passes that a closure or the program waits for, or will.
Awaited == UNION {pass[q].waits \cup pass[q].deps : q \in Pass}
           \cup (IF main.op = "sync" THEN main.for ELSE {})

\* Whoever waits for a pass waits for the event made for that pass, if one was
\* made when it was created: eventmap keeps what a pass at the same address has
\* left.  However late a pass that has finished is released, and whatever wait
\* and forget have removed, this event is in eventmap until it is set; then it
\* may be missing, but no other is found in its place.
WaitsForOwnEvent ==
    \A p \in Pass :
        LET found == event[pass[p].addr]
        IN  p \in Awaited /\ Alive(p) /\ pass[p].own
                => found.of = p \/ (Done(p) /\ found = NoEvent)

\* When wait returns, every pass has finished.
WaitCompletes ==
    [][WaitReturn => \A p \in Pass : pass[p].phase # "none" => Done(p) \/ Dropped(p)]_vars

\* Every pass that is scheduled finishes.
PassesFinish == \A p \in Pass : pass[p].phase = "scheduled" ~> Done(p)

\* The program's calls return.
CallsReturn == main # Idle ~> main = Idle
=============================================================================
