------------------------ MODULE MCResourceRepository ------------------------
(* Small instances of ResourceRepository for TLC. *)
EXTENDS ResourceRepository

Spec1(u, b, v) == [url |-> u, branch |-> b, valid |-> v]

\* One server, two branches, and a spec that is invalid for a while.
OneServer == {Spec1("u1", "main", TRUE), Spec1("u1", "dev", TRUE),
              Spec1("u1", "main", FALSE)}

\* One branch, valid or not.
OneBranch == {Spec1("u1", "main", TRUE), Spec1("u1", "main", FALSE)}

\* The same branch on two servers.
TwoServers == {Spec1("u1", "main", TRUE), Spec1("u2", "main", TRUE)}
=============================================================================
