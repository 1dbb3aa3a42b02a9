---------------------------- MODULE MCArchetypes ----------------------------
(* An instance of Archetypes for TLC: a tracked type T with its marker, an *)
(* untracked type S that is also shared, and two entities besides the      *)
(* first, which may be their metatype.                                     *)
EXTENDS Archetypes, TLC

CONSTANTS e1, e2, e3, T, Copy, S

K(types, metas) == [types |-> types, metas |-> metas]
MCMarkerOf == T :> Copy
MCGiven == {K({T, S}, {}), K({S, Disable}, {}), K({T}, {e1})}
MCMade == {K({T}, {e1})}
Extends(types, metas) == [extend |-> K(types, metas), shrink |-> EmptyKey]
Shrinks(types, metas) == [extend |-> EmptyKey, shrink |-> K(types, metas)]
MCDiff == {Extends({T}, {}), Shrinks({T}, {}), Shrinks({Cleanup}, {}),
           Extends({}, {e1})}
All(types) == [all |-> K(types, {}), any |-> EmptyKey, none |-> EmptyKey,
               shared |-> {}, owned |-> {}]
MCFilter == {All({S}), [All({}) EXCEPT !.any = K({T, Copy}, {}), !.none = K({S}, {}), !.shared = {S}],
             All({T, Cleanup}), All({Copy})}
MCSymmetry == Permutations({e2, e3})
=============================================================================
