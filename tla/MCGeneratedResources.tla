------------------------ MODULE MCGeneratedResources ------------------------
(* Small instances of GeneratedResources for TLC. *)
EXTENDS GeneratedResources

Nowhere == <<"", "">>

\* Another collection, payload and deletion policy, and a path override that
\* is not valid.
ThreeSpecs == {[coll |-> "k1", payload |-> "x", policy |-> "Delete"],
               [coll |-> "k2", payload |-> "y", policy |-> "Orphan"],
               [coll |-> Invalid, payload |-> "x", policy |-> "Delete"]}
=============================================================================
