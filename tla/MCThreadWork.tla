---------------------------- MODULE MCThreadWork -----------------------------
(* Instances of ThreadWork for TLC. *)
EXTENDS ThreadWork

CONSTANTS idA, idB

(* idA withdraws idB, as DELCACHE withdraws ADDCACHE; idB withdraws nothing *)
MCResetBy  == [id \in ID |-> IF id = idA THEN idB ELSE Nil]
MCRemoveBy == MCResetBy
NoneBy     == [id \in ID |-> Nil]

MCOwnerCalls  == {"start", "pause", "stop", "delete"}

Threads == Permutations(Owner) \cup Permutations(Worker)
Symmetric == Threads \cup Permutations(Event)
=============================================================================
