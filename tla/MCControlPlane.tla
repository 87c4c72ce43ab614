--------------------------- MODULE MCControlPlane ---------------------------
(* Small instances of ControlPlane for TLC. *)
EXTENDS ControlPlane

AllKinds == [p1 |-> "SyncPolicy", p2 |-> "SyncPolicy", s1 |-> "ManagedService",
             b1 |-> "MetadataBundle", t1 |-> "SecretStore", g1 |-> "CRDGenerator",
             r1 |-> "ResourceRepository", w1 |-> "RepositoryWebhook"]
Scopes == {<<"a">>, <<"a", "b">>, <<"c">>}
At(path, refs) == [path |-> path, refs |-> refs, claim |-> NoClaim, valid |-> TRUE]
Invalid == [At(NoPath, {}) EXCEPT !.valid = FALSE]

\* p1 can be moved into the scope of p2; the generator owns part of another.
UserSpecs ==
  [p1 |-> {At(<<"a">>, {"s1"}), At(<<"c">>, {"t1", "r1"}), Invalid},
   p2 |-> {At(<<"a", "b">>, {})},
   s1 |-> {At(NoPath, {"b1"}), Invalid},
   b1 |-> {At(NoPath, {}), Invalid},
   t1 |-> {At(NoPath, {}), Invalid},
   g1 |-> {[At(<<"c">>, {"b1"}) EXCEPT !.claim = "widget"]},
   r1 |-> {At(NoPath, {})},
   w1 |-> {At(NoPath, {"r1"})}]
=============================================================================
