---------------------------- MODULE MCSyncPolicy ----------------------------
(* Instances of SyncPolicy for TLC. *)
EXTENDS SyncPolicy, TLC

\* Three commits: the second changes a and removes b, the third takes a back
\* to its first payload and declares b again.
History == <<("a" :> "x" @@ "b" :> "x"),
             ("a" :> "y" @@ "b" :> Absent),
             ("a" :> "x" @@ "b" :> "y")>>

MCContent == [rev \in Revisions |-> [r \in Resources |-> History[rev][r]]]

Whole == [suspend |-> FALSE, valid |-> TRUE, recursive |-> TRUE,
          prune |-> TRUE, cron |-> FALSE, scope |-> Resources]

WholeSpec == {Whole}

\* One spec that is never edited, with and without prune and resync cron.
OneSpec == {Whole, [Whole EXCEPT !.prune = FALSE, !.recursive = FALSE],
            [Whole EXCEPT !.cron = TRUE]}

\* The specs users switch between.
EditedSpecs == {Whole, [Whole EXCEPT !.suspend = TRUE],
                [Whole EXCEPT !.valid = FALSE]}

NarrowThenWhole == {Whole, [Whole EXCEPT !.scope = {"a"}]}
=============================================================================
