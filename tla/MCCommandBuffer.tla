--------------------------- MODULE MCCommandBuffer ---------------------------
(* An instance of CommandBuffer for TLC: two entities of one type in one    *)
(* chunk, and a thread that works on them beside one that has none.        *)
EXTENDS CommandBuffer

CONSTANTS t1, t2, A, B, NoThread

\* The block of ids has been another storage's, and t1's id is still in it.
MCIdsBefore == (0 :> NoThread) @@ (1 :> t1)
MCFirstType == [id \in 0 .. 1 |-> {A}]
MCFirstRef == [id \in 0 .. 1 |-> IF id = 0 THEN [id |-> 1, transient |-> FALSE]
                                           ELSE [id |-> 0, transient |-> FALSE]]
MCFirstColumn == [types \in SUBSET {A, B} |-> IF types = {A} THEN <<0, 1>> ELSE <<>>]
MCTask == (t1 :> 0 .. 1) @@ (t2 :> {})
MCDiff == {[extend |-> {B}, shrink |-> {}], [extend |-> {}, shrink |-> {A}],
           [extend |-> {A}, shrink |-> {B}]}
MCGiven == {{A}}
MCMaxCommands == (t1 :> 4) @@ (t2 :> 1)
=============================================================================
