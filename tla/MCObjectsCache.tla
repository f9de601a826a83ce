---------------------------- MODULE MCObjectsCache ----------------------------
(* ObjectsCache for TLC: two goroutines, one key; the clock runs long enough *)
(* for an entry to be stored, to expire and to be stored again.             *)
EXTENDS ObjectsCache, TLC

CONSTANTS k1, obj, other, w1, w2

Keys == {k1}
Objects == {obj, other}
Workers == {w1, w2}
Symmetry == Permutations(Workers)
=============================================================================
