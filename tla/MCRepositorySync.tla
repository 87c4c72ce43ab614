-------------------------- MODULE MCRepositorySync --------------------------
(* Small instances of RepositorySync for TLC. *)
EXTENDS RepositorySync, TLC

\* The second commit changes a; the third is a revert of it.
History == <<("a" :> "x"), ("a" :> "y"), ("a" :> "x")>>

MCContent == [rev \in Revisions |-> [r \in Resources |-> History[rev][r]]]

Whole == [suspend |-> FALSE, valid |-> TRUE, recursive |-> TRUE,
          prune |-> TRUE, cron |-> FALSE, scope |-> Resources]

WholeSpec == {Whole}

Main == {[url |-> "u1", branch |-> "main", valid |-> TRUE]}

\* A spec that is invalid for a while.
MainOrInvalid == Main \cup {[url |-> "u1", branch |-> "main", valid |-> FALSE]}
=============================================================================
