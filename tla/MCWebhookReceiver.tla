------------------------- MODULE MCWebhookReceiver -------------------------
(* Small instances of WebhookReceiver for TLC. *)
EXTENDS WebhookReceiver

Push(h, i) == [hook |-> h, id |-> i, kind |-> "push", genuine |-> TRUE,
               matches |-> TRUE]

\* Every kind of event, at both endpoints: pushes with two ids, with none,
\* and to another branch, a ping, and an event nobody signed.
AllKinds == {Push("h1", "i1"), Push("h1", "i2"), Push("h1", NoId),
             [Push("h1", "i3") EXCEPT !.matches = FALSE],
             [Push("h1", "i1") EXCEPT !.kind = "ping"],
             [Push("h1", "i2") EXCEPT !.kind = "other"],
             [Push("h1", "i4") EXCEPT !.genuine = FALSE],
             Push(Legacy, NoId),
             [Push(Legacy, NoId) EXCEPT !.kind = "other"]}

TwoPushes == {Push("h1", "i1"), Push("h1", "i2")}

OnePush == {Push("h1", "i1")}

\* Two RepositoryWebhooks are set up for one Git project, whose provider gives
\* the deliveries of one push to both of them the same id.
SameEventTwice == {Push("h1", "i1"), Push("h2", "i1")}
=============================================================================
