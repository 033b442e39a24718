----------------------------- MODULE MCFamilies -----------------------------
(***************************************************************************)
(* The methods on one key, by families: strings and counters, or hashes    *)
(* and lists.  A family is chosen at the start and every call is of it,    *)
(* which keeps the two products of interleavings apart: del, exists and    *)
(* ttl are the only methods that look at more than one map, and del and    *)
(* exists are in both families.  Only strings have TTLs, so time stands    *)
(* still for the second family.                                            *)
(***************************************************************************)
EXTENDS MCKeyValueStore

VARIABLE family

FamilyInit == Init /\ family \in {StringOps, ContainerOps}

FamilyNext ==
  /\ Next
  /\ \A t \in Threads : req'[t] # None => req'[t].op \in family
  /\ family = ContainerOps => clock' = clock
  /\ UNCHANGED family

\* Neither the threads nor the fields are told apart.
Symmetry == Permutations(Threads) \cup Permutations(Fields)

FamilySpec == FamilyInit /\ [][FamilyNext]_<<vars, family>>
=============================================================================
