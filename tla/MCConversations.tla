--------------------------- MODULE MCConversations ---------------------------
(***************************************************************************)
(* Instances of Conversations for TLC: three users, of whom 1 and 3 may    *)
(* have talked before, and three requests at once.                         *)
(***************************************************************************)
EXTENDS Conversations, TLC

CONSTANTS c1, c2, c3, old

MCUsers == {1, 2, 3}
MCCalls == {c1, c2, c3}
MCPair == {1, 3}

\* Nothing, or two messages from 3 to 1.
Row(client) == [conversation |-> old, sender |-> 3, client |-> client, text |-> "hello"]
MCHistories == {<< >>, <<Row("x"), Row("y")>>}

Send(u, v, client, text) ==
  [kind |-> "send", from |-> u, to |-> v, client |-> client, text |-> text]
ReadMarker(u, v) == [kind |-> "read", from |-> u, to |-> v]
Work(x, y, z) == c1 :> x @@ c2 :> y @@ c3 :> z

\* First messages that cross; a message sent again while it is read, or with
\* another text or receiver; two read markers of one user and a new message; and
\* messages among three users, which can deadlock: two of them lock users for a
\* first message while the third refers to the same users.
MCWorkloads ==
  { Work(Send(1, 3, "a", "hello"), Send(3, 1, "a", "hello"), ReadMarker(1, 3)),
    Work(Send(1, 3, "a", "hello"), Send(1, 3, "a", "hello"), ReadMarker(3, 1)),
    Work(Send(1, 3, "a", "hello"), Send(1, 2, "a", "hello"), Send(1, 3, "a", "bye")),
    Work(ReadMarker(1, 3), ReadMarker(1, 3), Send(3, 1, "a", "hello")),
    Work(Send(3, 1, "a", "hello"), Send(2, 3, "a", "hello"), Send(1, 2, "a", "hello")) }
=============================================================================
