---------------------------- MODULE Conversations ----------------------------
(***************************************************************************)
(* Direct messages: sendMessage and setReadMessage statement by statement, *)
(* as concurrent transactions.                                             *)
(*                                                                         *)
(* The code asks for READ COMMITTED, so a plain SELECT sees what has been  *)
(* committed.  A send looks for a message under its client id and for the  *)
(* conversation of the two users, creates it if there is none, locks it,   *)
(* looks again, inserts the message, and counts it for the receiver.  A    *)
(* read marker locks the conversation and the reader's participant row,    *)
(* and counts what is left unread.  An insert also takes a shared lock on  *)
(* the users its foreign keys refer to.                                    *)
(***************************************************************************)
EXTENDS FiniteSetsExt, Sequences

CONSTANTS Users,       \* users, by id
          ClientIds,   \* message ids chosen by clients
          Texts,       \* prepared messages: type and content
          Calls,       \* concurrent requests; a conversation is named after its creator
          Old,         \* the conversation there may be at the start
          OldPair,     \* its participants
          Histories,   \* its messages at the start
          Workloads    \* what the calls may ask for

ConversationIds == Calls \cup {Old}
MessageRow == [conversation : ConversationIds, sender : Users, client : ClientIds, text : Texts]

\* Nobody writes to himself, or reads what he wrote to himself.
Requests ==
  {r \in [kind : {"send"}, from : Users, to : Users, client : ClientIds, text : Texts]
           \cup [kind : {"read"}, from : Users, to : Users] : r.from # r.to}

ASSUME ConversationAssumption ==
  /\ Users \subseteq Nat
  /\ Old \notin Calls
  /\ \E u, v \in Users : u # v /\ OldPair = {u, v}
  /\ \A h \in Histories :
       /\ h \in Seq(MessageRow)
       /\ \A i \in DOMAIN h : h[i].conversation = Old /\ h[i].sender \in OldPair
       /\ \A i, j \in DOMAIN h :
            h[i].sender = h[j].sender /\ h[i].client = h[j].client => i = j
  /\ Workloads \subseteq [Calls -> Requests]

Rows == ({"user"} \X Users) \cup ({"conversation"} \X ConversationIds)
          \cup ({"participant"} \X ConversationIds \X Users)
          \cup ({"key"} \X Users \X ClientIds)

VARIABLES message,        \* committed rows of messages, by id
          conversation,   \* committed conversations, with their participants' rows
          nextId,         \* AUTO_INCREMENT of messages, never rolled back
          pushed,         \* ids of the messages each user was told of, in order
          input,          \* what each call asks for
          pc,             \* next statement of each call, or its outcome
          draft,          \* its conversation, its message and what it counted
          locks           \* row locks

INSTANCE Database WITH isolation <- "READ COMMITTED"

rows == <<message, conversation>>
vars == <<rows, nextId, pushed, input, pc, draft, locks>>

Statements ==
  {"checkBlock", "findMessage", "findConversation", "lockUsers", "lockConversation", "findAgain",
   "insertMessage", "referSender", "countUnread", "referReceiver", "commit", "push",
   "resolve", "lockCursor", "mark"}
Outcomes ==
  {"sent", "duplicate", "conflict", "refused", "marked", "unchanged", "deadlock", "crashed"}

NoConversation == [users |-> {}]
ConversationRow ==
  [users : SUBSET Users, last : Nat, cursor : [Users -> Nat], unread : [Users -> Nat]]

TypeOK ==
  /\ DOMAIN message \subseteq 1..(nextId - 1)
  /\ \A m \in DOMAIN message : message[m] \in MessageRow
  /\ conversation \in [ConversationIds -> ConversationRow \cup {NoConversation}]
  /\ nextId \in Nat \ {0}
  /\ pushed \in [Users -> Seq(Nat)]
  /\ input \in Workloads
  /\ pc \in [Calls -> Statements \cup Outcomes]
  /\ draft \in [Calls -> [conversation : ConversationIds, message : Nat, unread : Nat]]
  /\ LocksTypeOK

Messages(k) == {m \in DOMAIN message : message[m].conversation = k}

\* How many committed messages of k come after m and are not u's own.
Unread(u, k, m) == Cardinality({n \in Messages(k) : n > m /\ message[n].sender # u})

\* A conversation with the rows of its two participants.
NewConversation(users) ==
  [users |-> users, last |-> 0, cursor |-> [u \in Users |-> 0], unread |-> [u \in Users |-> 0]]

Init ==
  /\ message \in Histories
  /\ conversation = [k \in ConversationIds |-> IF k # Old \/ message = << >> THEN NoConversation
       ELSE [NewConversation(OldPair) EXCEPT !.last = Len(message),
               !.unread = [u \in Users |-> IF u \in OldPair THEN Unread(u, Old, 0) ELSE 0]]]
  /\ nextId = Len(message) + 1
  /\ pushed = [u \in Users |-> << >>]
  /\ input \in Workloads
  /\ pc = [c \in Calls |-> IF input[c].kind = "send" THEN "checkBlock" ELSE "resolve"]
  /\ draft = [c \in Calls |-> [conversation |-> c, message |-> 0, unread |-> 0]]
  /\ locks = NoLocks

-----------------------------------------------------------------------------
Pair(c) == {input[c].from, input[c].to}

ConversationLock(c) == <<"conversation", draft[c].conversation>>
ParticipantLock(c, u) == <<"participant", draft[c].conversation, u>>
UserLock(u) == <<"user", u>>
KeyLock(c) == <<"key", input[c].from, input[c].client>>

Goto(c, label) == pc' = [pc EXCEPT ![c] = label]

\* A statement that neither writes nor locks.
Look(c, label) == Goto(c, label) /\ UNCHANGED <<rows, nextId, pushed, draft, locks>>

LookUp(c, field, value, label) ==
  /\ draft' = [draft EXCEPT ![c][field] = value]
  /\ Goto(c, label)
  /\ UNCHANGED <<rows, nextId, pushed, locks>>

\* A statement that locks one row.
Lock(c, row, mode, label) ==
  /\ Acquire(c, row, mode)
  /\ Goto(c, label)
  /\ UNCHANGED <<rows, nextId, pushed, draft>>

\* The call ends and has written nothing.
End(c, outcome) ==
  /\ Goto(c, outcome)
  /\ ReleaseLocks(c)
  /\ UNCHANGED <<rows, nextId, pushed, draft>>

\* The committed message, if any, of c's sender under c's client id.
SameKey(c) ==
  {m \in DOMAIN message : message[m].sender = input[c].from /\ message[m].client = input[c].client}

\* findConversationIdBetweenUsers
Between(users) == {k \in ConversationIds : users \subseteq conversation[k].users}

-----------------------------------------------------------------------------
\* isBlocked, and whether both users are active: the answer is left open.
CheckBlock(c) ==
  /\ pc[c] = "checkBlock"
  /\ Look(c, "findMessage") \/ End(c, "refused")

\* Mutant of FindMessage: whatever has the client id counts as a retry.
FindMessageAny(c) ==
  /\ pc[c] = "findMessage"
  /\ IF SameKey(c) = {} THEN Look(c, "findConversation") ELSE End(c, "duplicate")

\* A retry is answered before the conversation is looked for; the receiver and
\* the text must be those of the message.
FindMessage(c) ==
  /\ pc[c] = "findMessage"
  /\ IF SameKey(c) = {} THEN Look(c, "findConversation")
     ELSE \E m \in SameKey(c) :
            End(c, IF /\ input[c].to \in conversation[message[m].conversation].users
                      /\ message[m].text = input[c].text
                   THEN "duplicate" ELSE "conflict")

FindConversation(c) ==
  /\ pc[c] = "findConversation"
  /\ IF Between(Pair(c)) = {} THEN Look(c, "lockUsers")
     ELSE \E k \in Between(Pair(c)) : LookUp(c, "conversation", k, "lockConversation")

UnlockedUsers(c) == {u \in Pair(c) : ~Holds(c, UserLock(u), "X")}

\* The users are locked in the order of their ids.  With both locked, and both
\* active, the conversation is looked for again and created if there is none.
LockUsers(c) ==
  /\ pc[c] = "lockUsers"
  /\ IF UnlockedUsers(c) # {} THEN Lock(c, UserLock(Min(UnlockedUsers(c))), "X", "lockUsers")
     ELSE \/ End(c, "refused")
          \/ /\ Between(Pair(c)) = {}
             /\ LookUp(c, "conversation", c, "lockConversation")
          \/ \E k \in Between(Pair(c)) : LookUp(c, "conversation", k, "lockConversation")

LockConversation(c) ==
  pc[c] = "lockConversation" /\ Lock(c, ConversationLock(c), "X", "findAgain")

\* A conflict throws: a conversation that was just created is rolled back.
AnswerExisting(c) ==
  \E m \in SameKey(c) :
    End(c, IF message[m].conversation = draft[c].conversation /\ message[m].text = input[c].text
           THEN "duplicate" ELSE "conflict")

FindAgain(c) ==
  /\ pc[c] = "findAgain"
  /\ IF SameKey(c) = {} THEN Look(c, "insertMessage") ELSE AnswerExisting(c)

\* INSERT IGNORE waits for a transaction that is inserting the same key.
InsertMessage(c) ==
  /\ pc[c] = "insertMessage"
  /\ Blockers(c, KeyLock(c), "X") = {}
  /\ \/ AnswerExisting(c)
     \/ /\ SameKey(c) = {}
        /\ Acquire(c, KeyLock(c), "X")
        /\ draft' = [draft EXCEPT ![c].message = nextId]
        /\ nextId' = nextId + 1
        /\ Goto(c, "referSender")
        /\ UNCHANGED <<rows, pushed>>

\* fk_messages_sender
ReferSender(c) ==
  pc[c] = "referSender" /\ Lock(c, UserLock(input[c].from), "S", "countUnread")

\* The last message of the conversation, which is locked, and the receiver's
\* unread_count are updated.
CountUnread(c) ==
  pc[c] = "countUnread" /\ Lock(c, ParticipantLock(c, input[c].to), "X", "referReceiver")

\* The receiver's notification is inserted; it refers to both users.
ReferReceiver(c) ==
  pc[c] = "referReceiver" /\ Lock(c, UserLock(input[c].to), "S", "commit")

-----------------------------------------------------------------------------
\* The reader acknowledges a message of the conversation, or something else.
Resolve(c) ==
  /\ pc[c] = "resolve"
  /\ \/ End(c, "refused")
     \/ \E k \in Between(Pair(c)) : \E m \in Messages(k) :
          /\ draft' = [draft EXCEPT ![c].conversation = k, ![c].message = m]
          /\ Goto(c, "lockCursor")
          /\ UNCHANGED <<rows, nextId, pushed, locks>>

\* Mutant of CursorLocks: neither row is locked.
CursorLocksNone(c) == << >>

\* Mutant of CursorLocks: the participant is locked before the conversation.
CursorLocksReversed(c) == <<ParticipantLock(c, input[c].from), ConversationLock(c)>>

\* The rows a reader locks, in this order.
CursorLocks(c) == <<ConversationLock(c), ParticipantLock(c, input[c].from)>>

UnlockedCursor(c) == {i \in DOMAIN CursorLocks(c) : ~Holds(c, CursorLocks(c)[i], "X")}

LockCursor(c) ==
  /\ pc[c] = "lockCursor"
  /\ IF UnlockedCursor(c) = {} THEN Look(c, "mark")
     ELSE Lock(c, CursorLocks(c)[Min(UnlockedCursor(c))], "X", "lockCursor")

\* Mutant of Mark: a late read marker takes the cursor back.
MarkBackwards(c) ==
  /\ pc[c] = "mark"
  /\ LookUp(c, "unread", Unread(input[c].from, draft[c].conversation, draft[c].message), "commit")

\* The cursor only moves forward; what is left unread is counted afresh.
Mark(c) ==
  LET k == draft[c].conversation
      u == input[c].from
      m == draft[c].message
  IN  /\ pc[c] = "mark"
      /\ IF m <= conversation[k].cursor[u] THEN End(c, "unchanged")
         ELSE LookUp(c, "unread", Unread(u, k, m), "commit")

-----------------------------------------------------------------------------
\* The row c inserts into messages.
MessageOf(c) ==
  [conversation |-> draft[c].conversation, sender |-> input[c].from,
   client |-> input[c].client, text |-> input[c].text]

\* The row of c's conversation after its message.
Sent(c) ==
  LET k == draft[c].conversation
      row == IF conversation[k] = NoConversation THEN NewConversation(Pair(c)) ELSE conversation[k]
  IN  [row EXCEPT !.last = draft[c].message, !.unread[input[c].to] = @ + 1]

\* The row of c's conversation after its read marker.
Marked(c) ==
  [conversation[draft[c].conversation] EXCEPT !.cursor[input[c].from] = draft[c].message,
                                              !.unread[input[c].from] = draft[c].unread]

CommitSend(c) ==
  /\ pc[c] = "commit" /\ input[c].kind = "send"
  /\ message' = [m \in DOMAIN message \cup {draft[c].message} |->
                   IF m = draft[c].message THEN MessageOf(c) ELSE message[m]]
  /\ conversation' = [conversation EXCEPT ![draft[c].conversation] = Sent(c)]
  /\ Goto(c, "push")
  /\ ReleaseLocks(c)
  /\ UNCHANGED <<nextId, pushed, draft>>

CommitMark(c) ==
  /\ pc[c] = "commit" /\ input[c].kind = "read"
  /\ conversation' = [conversation EXCEPT ![draft[c].conversation] = Marked(c)]
  /\ Goto(c, "marked")
  /\ ReleaseLocks(c)
  /\ UNCHANGED <<message, nextId, pushed, draft>>

\* After the commit the receiver is told, and the sender answered.
Push(c) ==
  /\ pc[c] = "push"
  /\ pushed' = [pushed EXCEPT ![input[c].to] = Append(@, draft[c].message)]
  /\ Goto(c, "sent")
  /\ UNCHANGED <<rows, nextId, draft, locks>>

Step(c) ==
  \/ CheckBlock(c)
  \/ FindMessage(c)
  \/ FindConversation(c)
  \/ LockUsers(c)
  \/ LockConversation(c)
  \/ FindAgain(c)
  \/ InsertMessage(c)
  \/ ReferSender(c)
  \/ CountUnread(c)
  \/ ReferReceiver(c)
  \/ Resolve(c)
  \/ LockCursor(c)
  \/ Mark(c)
  \/ CommitSend(c)
  \/ CommitMark(c)
  \/ Push(c)

\* The row locks the current statement of c is asking for.
Asking(c) ==
  CASE pc[c] = "lockUsers" /\ UnlockedUsers(c) # {} -> {<<UserLock(Min(UnlockedUsers(c))), "X">>}
    [] pc[c] = "lockConversation" -> {<<ConversationLock(c), "X">>}
    [] pc[c] = "insertMessage" -> {<<KeyLock(c), "X">>}
    [] pc[c] = "referSender" -> {<<UserLock(input[c].from), "S">>}
    [] pc[c] = "countUnread" -> {<<ParticipantLock(c, input[c].to), "X">>}
    [] pc[c] = "referReceiver" -> {<<UserLock(input[c].to), "S">>}
    [] pc[c] = "lockCursor" /\ UnlockedCursor(c) # {} ->
         {<<CursorLocks(c)[Min(UnlockedCursor(c))], "X">>}
    [] OTHER -> {}

Waits == Cycles([c \in Calls |-> Asking(c)])

DeadlockVictim(c) == (\E W \in Waits : c \in W) /\ End(c, "deadlock")

\* A crash after the commit leaves the message stored and nobody told of it.
Crash(c) == pc[c] \in Statements /\ End(c, "crashed")

Ended == \A c \in Calls : pc[c] \in Outcomes

Next ==
  \/ /\ \E c \in Calls : Step(c) \/ DeadlockVictim(c) \/ Crash(c)
     /\ UNCHANGED input
  \/ Ended /\ UNCHANGED vars

Spec == Init /\ [][Next]_vars

-----------------------------------------------------------------------------
Existing == {k \in ConversationIds : conversation[k] # NoConversation}

\* Two users share one conversation ("prevents two direct conversations for one
\* pair", ensureConversation), however many first messages they send each other
\* at once, and its row is what its messages say: the newest one, although ids
\* are given out before commits, and how many messages of the other user come
\* after a user's cursor, whether a send or a read marker counted last.
ConversationsAreExact ==
  \A k \in Existing :
    /\ \A j \in Existing : conversation[j].users = conversation[k].users => j = k
    /\ Messages(k) # {} /\ conversation[k].last = Max(Messages(k))
    /\ \A u \in conversation[k].users :
         conversation[k].unread[u] = Unread(u, k, conversation[k].cursor[u])

\* A client id names one message.  Whoever is told "sent" or "duplicate" finds
\* his own text, sent to his own receiver, under it; a conflict is reported
\* only if something else is there.  Its receiver is told of a message at most
\* once, even if it was sent again and again, and only once it is stored.
SentOnce ==
  /\ \A c \in Calls :
       LET Own == {m \in SameKey(c) : /\ message[m].text = input[c].text
                                      /\ conversation[message[m].conversation].users = Pair(c)}
       IN  input[c].kind = "send" =>
             /\ Cardinality(SameKey(c)) <= 1
             /\ pc[c] \in {"push", "sent", "duplicate"} => Own # {}
             /\ pc[c] = "conflict" => SameKey(c) # {} /\ Own = {}
  /\ \A u \in Users : \A i, j \in DOMAIN pushed[u] :
       /\ pushed[u][i] \in DOMAIN message
       /\ LET m == message[pushed[u][i]]
          IN  m.sender # u /\ u \in conversation[m.conversation].users
       /\ pushed[u][i] = pushed[u][j] => i = j

\* "Keep the same lock order as sendMessage ... without introducing the inverse
\* lock order that causes deadlocks" (setReadMessage): no reader is ever part of
\* a deadlock.
ReadersNeverDeadlock == \A W \in Waits : \A c \in W : input[c].kind = "send"

\* "The backend only advances the cursor" (conversation_participants in
\* database_schema.dbml), in whatever order read markers arrive.
CursorsAdvance ==
  [][\A k \in Existing : \A u \in Users : conversation'[k].cursor[u] >= conversation[k].cursor[u]]_conversation

-----------------------------------------------------------------------------
\* The same as letters between two users.
Pairs == {p \in SUBSET Users : \E u, v \in Users : u # v /\ p = {u, v}}

\* The rows of two users' conversation, or what they would be at its creation.
Talking == {conversation[k].users : k \in Existing}
RowOf(p) ==
  IF p \in Talking THEN conversation[CHOOSE k \in Existing : conversation[k].users = p]
  ELSE NewConversation(p)

Letters ==
  [m \in DOMAIN message |->
     [from |-> message[m].sender, pair |-> conversation[message[m].conversation].users,
      client |-> message[m].client, text |-> message[m].text]]

Cursors == [p \in Pairs |-> [u \in p |-> RowOf(p).cursor[u]]]
Counts == [p \in Pairs |-> [u \in p |-> RowOf(p).unread[u]]]
Told == [u \in Users |-> Range(pushed[u])]

AnswerOf(label) ==
  IF label = "push" THEN "stored" ELSE IF label \in Statements THEN "none" ELSE label
Answers == [c \in Calls |-> AnswerOf(pc[c])]

InboxView == INSTANCE Inbox WITH request <- input, answer <- Answers, letter <- Letters,
                                 read <- Cursors, waiting <- Counts, told <- Told

\* Statement by statement, a send and a read marker do what they would do in one
\* step, at their commit: whatever runs at the same time, a message is sent once,
\* the number of unread messages is right, a cursor only advances and an answer is
\* true when it is given.
ImplementsInbox == InboxView!InboxSpec
=============================================================================
