------------------------- MODULE ConversationsProofs -------------------------
(***************************************************************************)
(* One conversation per pair, exact summaries and counters, true answers,  *)
(* cursors that only advance and readers that never deadlock, for any      *)
(* users, messages, histories and requests.                                *)
(*                                                                         *)
(* The argument: whoever creates a conversation holds the rows of both     *)
(* users, so nobody else creates one for them; whoever has inserted a      *)
(* message holds its conversation and its key, so nothing else is          *)
(* committed there before it and its id is the newest one; whoever has     *)
(* counted what is unread holds the conversation that was counted.  A      *)
(* participant's row is only locked under its conversation's lock, so a    *)
(* reader never waits for one while it holds anything.                     *)
(*                                                                         *)
(* What a call's answer depends on is still so at its commit: every call   *)
(* could have run then, alone, as the inbox says.                          *)
(***************************************************************************)
EXTENDS Conversations, FiniteSetTheorems, TLAPS

\* An exclusive lock is the only lock on its row.
Exclusive ==
  \A r \in Rows : \A c, d \in Calls :
    Holds(c, r, "X") /\ (Holds(d, r, "X") \/ Holds(d, r, "S")) => c = d

MessagesOK ==
  /\ \A m \in DOMAIN message :
       /\ message[m].conversation \in Existing
       /\ message[m].sender \in conversation[message[m].conversation].users
  /\ \A m, n \in DOMAIN message :
       message[m].sender = message[n].sender /\ message[m].client = message[n].client => m = n

\* The row of k is what its messages say.
RowOK(k) ==
  /\ \E u, v \in Users : u # v /\ conversation[k].users = {u, v}
  /\ conversation[k].last \in Messages(k)
  /\ \A m \in Messages(k) : m <= conversation[k].last
  /\ \A u \in Users : conversation[k].cursor[u] <= conversation[k].last
  /\ \A u \in conversation[k].users :
       conversation[k].unread[u] = Unread(u, k, conversation[k].cursor[u])

ConversationsOK ==
  /\ \A k \in Existing : RowOK(k)
  /\ \A j, k \in Existing : conversation[j].users = conversation[k].users => j = k

-----------------------------------------------------------------------------
SendOnly ==
  {"checkBlock", "findMessage", "findConversation", "lockUsers", "lockConversation", "findAgain",
   "insertMessage", "referSender", "countUnread", "referReceiver", "push", "sent", "duplicate",
   "conflict"}
ReadOnly == {"resolve", "lockCursor", "mark", "marked", "unchanged"}

KindOK(c) ==
  \/ input[c].kind = "send" /\ pc[c] \notin ReadOnly
  \/ input[c].kind = "read" /\ pc[c] \notin SendOnly

\* The statements between an insert and its commit.
Sending == {"referSender", "countUnread", "referReceiver", "commit"}
Inserting(c) == input[c].kind = "send" /\ pc[c] \in Sending

\* A conversation named after c was created by c.
Named(c) == c \in Existing => pc[c] \in {"push", "sent", "crashed"}

\* The conversation of both users, which c reads or writes ...
Found(c) ==
  /\ draft[c].conversation \in Existing
  /\ conversation[draft[c].conversation].users = Pair(c)

\* ... or which it creates: it holds both users.
Creates(c) ==
  /\ draft[c].conversation = c
  /\ c \notin Existing
  /\ Between(Pair(c)) = {}
  /\ \A u \in Pair(c) : Holds(c, UserLock(u), "X")

Targeted(c) ==
  pc[c] \in {"lockConversation", "findAgain", "insertMessage"} \/ Inserting(c) =>
    Found(c) \/ Creates(c)

ConversationHeld(c) ==
  pc[c] \in {"findAgain", "insertMessage", "mark"} \cup Sending => Holds(c, ConversationLock(c), "X")

KeyHeld(c) == Inserting(c) => Holds(c, KeyLock(c), "X") /\ SameKey(c) = {}

\* The id of an inserted message is the newest one of its conversation.
Numbered(c) ==
  Inserting(c) => /\ draft[c].message \in (1..(nextId - 1)) \ DOMAIN message
                  /\ \A m \in Messages(draft[c].conversation) : m < draft[c].message

\* m is what c asks to send.
Own(c, m) == /\ m \in SameKey(c)
             /\ message[m].text = input[c].text
             /\ conversation[message[m].conversation].users = Pair(c)

Stored(c) == pc[c] \in {"push", "sent"} => Own(c, draft[c].message)

Answered(c) ==
  /\ pc[c] = "duplicate" => \E m \in SameKey(c) : Own(c, m)
  /\ pc[c] = "conflict" => \E m \in SameKey(c) : ~ Own(c, m)

Reads(c) == pc[c] \in {"lockCursor", "mark"} \/ (input[c].kind = "read" /\ pc[c] = "commit")

Reading(c) == Reads(c) => Found(c) /\ draft[c].message \in Messages(draft[c].conversation)

\* What a reader has counted is still what is unread.
Counted(c) ==
  LET k == draft[c].conversation
  IN  input[c].kind = "read" /\ pc[c] = "commit" =>
        /\ draft[c].message > conversation[k].cursor[input[c].from]
        /\ draft[c].unread = Unread(input[c].from, k, draft[c].message)

HoldsNothing(c) == \A r \in Rows, m \in {"S", "X"} : ~ Holds(c, r, m)

\* A reader starts with the conversation; a participant's row is only locked
\* under its conversation's.
LockOrder(c) ==
  /\ pc[c] = "resolve" => HoldsNothing(c)
  /\ pc[c] = "lockCursor" => HoldsNothing(c) \/ Holds(c, ConversationLock(c), "X")
  /\ \A k \in ConversationIds, u \in Users, m \in {"S", "X"} :
       Holds(c, <<"participant", k, u>>, m) => Holds(c, <<"conversation", k>>, "X")

CallOK(c) ==
  KindOK(c) /\ Named(c) /\ Targeted(c) /\ ConversationHeld(c) /\ KeyHeld(c) /\ Numbered(c)
    /\ Stored(c) /\ Answered(c) /\ Reading(c) /\ Counted(c) /\ LockOrder(c)

\* Each message is sent by one call, and told once.
HasMessage(c) == Inserting(c) \/ pc[c] \in {"push", "sent"}

Apart ==
  \A c, d \in Calls :
    HasMessage(c) /\ HasMessage(d) /\ draft[c].message = draft[d].message => c = d

PushedOK ==
  \A u \in Users :
    /\ \A i \in DOMAIN pushed[u] : \E c \in Calls :
         pc[c] = "sent" /\ input[c].to = u /\ draft[c].message = pushed[u][i]
    /\ \A i, j \in DOMAIN pushed[u] : pushed[u][i] = pushed[u][j] => i = j

IInv ==
  /\ TypeOK /\ Exclusive /\ MessagesOK /\ ConversationsOK /\ Apart /\ PushedOK
  /\ \A c \in Calls : CallOK(c)

-----------------------------------------------------------------------------
LEMMA CallTypes ==
  ASSUME TypeOK, NEW c \in Calls
  PROVE  /\ input[c] \in Requests
         /\ input[c].from \in Users /\ input[c].to \in Users /\ input[c].from # input[c].to
         /\ input[c].kind \in {"send", "read"}
         /\ input[c].kind = "send" => input[c].client \in ClientIds /\ input[c].text \in Texts
         /\ draft[c].conversation \in ConversationIds
         /\ draft[c].message \in Nat
         /\ draft[c].unread \in Nat
<1>1. input[c] \in Requests
  BY ConversationAssumption DEF TypeOK
<1>2. draft[c] \in [conversation : ConversationIds, message : Nat, unread : Nat]
  BY DEF TypeOK
<1> QED
  BY <1>1, <1>2 DEF Requests

LEMMA LockRows ==
  ASSUME TypeOK, NEW c \in Calls
  PROVE  /\ ConversationLock(c) \in Rows
         /\ \A u \in Users : ParticipantLock(c, u) \in Rows
         /\ input[c].kind = "send" => KeyLock(c) \in Rows
         /\ \A u \in Pair(c) : UserLock(u) \in Rows /\ u \in Users
         /\ \A k \in ConversationIds :
              /\ <<"conversation", k>> \in Rows
              /\ \A u \in Users : <<"participant", k, u>> \in Rows
BY CallTypes DEF ConversationLock, ParticipantLock, KeyLock, Pair, UserLock, Rows

\* A lock that is granted leaves exclusive locks alone on their rows.
LEMMA Granted ==
  ASSUME TypeOK, Exclusive, NEW c \in Calls, NEW r, NEW mode \in {"S", "X"},
         Acquire(c, r, mode)
  PROVE  /\ LocksTypeOK' /\ Exclusive'
         /\ \A d \in Calls, q \in Rows, m \in {"S", "X"} :
              Holds(d, q, m)' <=> Holds(d, q, m) \/ (d = c /\ q = r /\ m = mode)
<1>1. /\ locks \in [Rows -> SUBSET (Calls \X {"S", "X"})]
      /\ locks' = [locks EXCEPT ![r] = @ \cup {<<c, mode>>}]
  BY DEF TypeOK, LocksTypeOK, Acquire
<1>2. LocksTypeOK'
  <2>1. <<c, mode>> \in Calls \X {"S", "X"}
    OBVIOUS
  <2>2. \A q \in Rows : locks[q] \cup {<<c, mode>>} \in SUBSET (Calls \X {"S", "X"})
    BY <1>1, <2>1
  <2> QED
    BY <1>1, <2>2 DEF LocksTypeOK
<1>3. \A d \in Calls, q \in Rows, m \in {"S", "X"} :
        Holds(d, q, m)' <=> Holds(d, q, m) \/ (d = c /\ q = r /\ m = mode)
  BY <1>1 DEF Holds
<1>4. \A d \in Calls \ {c} : /\ ~ Holds(d, r, "X")
                             /\ mode = "X" => ~ Holds(d, r, "S")
  BY DEF Acquire, Blockers
<1>5. Exclusive'
  <2> SUFFICES ASSUME NEW q \in Rows, NEW d \in Calls, NEW e \in Calls,
                      Holds(d, q, "X")', Holds(e, q, "X")' \/ Holds(e, q, "S")'
               PROVE  d = e
    BY DEF Exclusive
  <2>1. CASE q = r
    BY <1>3, <1>4, <2>1 DEF Exclusive
  <2>2. CASE q # r
    BY <1>3, <2>2 DEF Exclusive
  <2> QED
    BY <2>1, <2>2
<1> QED
  BY <1>2, <1>3, <1>5

\* The end of a transaction takes nobody else's locks.
LEMMA Released ==
  ASSUME TypeOK, Exclusive, NEW c \in Calls, ReleaseLocks(c)
  PROVE  /\ LocksTypeOK' /\ Exclusive'
         /\ \A d \in Calls, q \in Rows, m \in {"S", "X"} :
              Holds(d, q, m)' <=> Holds(d, q, m) /\ d # c
<1>1. /\ locks \in [Rows -> SUBSET (Calls \X {"S", "X"})]
      /\ locks' = [q \in Rows |-> {h \in locks[q] : h[1] # c}]
  BY DEF TypeOK, LocksTypeOK, ReleaseLocks
<1>2. LocksTypeOK'
  BY <1>1 DEF LocksTypeOK
<1>3. \A d \in Calls, q \in Rows, m \in {"S", "X"} : Holds(d, q, m)' <=> Holds(d, q, m) /\ d # c
  BY <1>1 DEF Holds
<1>4. Exclusive'
  BY <1>3 DEF Exclusive
<1> QED
  BY <1>2, <1>3, <1>4

LEMMA StaysExclusive ==
  ASSUME TypeOK, Exclusive, UNCHANGED locks
  PROVE  /\ LocksTypeOK' /\ Exclusive'
         /\ \A d \in Calls, q \in Rows, m \in {"S", "X"} : Holds(d, q, m)' <=> Holds(d, q, m)
BY DEF TypeOK, LocksTypeOK, Exclusive, Holds

-----------------------------------------------------------------------------
\* What a step of c leaves to the other calls ...
Frame(c) ==
  /\ UNCHANGED input
  /\ \A d \in Calls \ {c} :
       /\ pc'[d] = pc[d] /\ draft'[d] = draft[d]
       /\ \A r \in Rows, m \in {"S", "X"} : Holds(d, r, m)' <=> Holds(d, r, m)

\* ... and to the committed rows: messages are never changed, conversations are
\* never deleted and keep their users.
Kept ==
  /\ Existing \subseteq Existing'
  /\ \A k \in Existing : conversation'[k].users = conversation[k].users
  /\ DOMAIN message \subseteq DOMAIN message'
  /\ \A m \in DOMAIN message : message'[m] = message[m]
  /\ nextId \in Nat /\ nextId' \in Nat /\ nextId <= nextId'

\* What a step of c must not do to d.
Spares(d) ==
  /\ d \in Existing' => d \in Existing
  /\ Creates(d) => d \notin Existing' /\ Between(Pair(d))' = {}
  /\ Holds(d, ConversationLock(d), "X") =>
       /\ conversation'[draft[d].conversation] = conversation[draft[d].conversation]
       /\ Messages(draft[d].conversation)' = Messages(draft[d].conversation)
  /\ Inserting(d) => SameKey(d)' = SameKey(d) /\ draft[d].message \notin DOMAIN message'

LEMMA OwnKept ==
  ASSUME TypeOK, MessagesOK, Kept, NEW d \in Calls, input' = input,
         NEW m \in SameKey(d)
  PROVE  m \in SameKey(d)' /\ (Own(d, m)' <=> Own(d, m))
<1>1. m \in DOMAIN message /\ m \in DOMAIN message' /\ message'[m] = message[m]
  BY DEF SameKey, Kept
<1>2. m \in SameKey(d)'
  BY <1>1 DEF SameKey
<1>3. conversation'[message[m].conversation].users = conversation[message[m].conversation].users
  BY <1>1 DEF MessagesOK, Kept
<1> QED
  BY <1>1, <1>2, <1>3 DEF Own, Pair

\* A call that is spared is where it was.
LEMMA OthersKeep ==
  ASSUME IInv, NEW c, Frame(c), Kept, NEW d \in Calls \ {c}, Spares(d)
  PROVE  CallOK(d)'
<1>1. /\ CallOK(d) /\ pc'[d] = pc[d] /\ draft'[d] = draft[d] /\ input' = input
      /\ \A r \in Rows, m \in {"S", "X"} : Holds(d, r, m)' <=> Holds(d, r, m)
  BY DEF IInv, Frame
<1>2. /\ ConversationLock(d)' = ConversationLock(d) /\ KeyLock(d)' = KeyLock(d)
      /\ Pair(d)' = Pair(d)
      /\ Inserting(d)' <=> Inserting(d)
      /\ Reads(d)' <=> Reads(d)
  BY <1>1 DEF ConversationLock, KeyLock, Pair, Inserting, Reads
<1>3. /\ ConversationLock(d) \in Rows
      /\ input[d].kind = "send" => KeyLock(d) \in Rows
      /\ \A u \in Pair(d) : UserLock(u) \in Rows /\ u \in Users
      /\ \A k \in ConversationIds :
              /\ <<"conversation", k>> \in Rows
              /\ \A u \in Users : <<"participant", k, u>> \in Rows
  BY LockRows DEF IInv
<1>4. Holds(d, ConversationLock(d), "X")' <=> Holds(d, ConversationLock(d), "X")
  BY <1>1, <1>2, <1>3
<1>5. Found(d) => Found(d)'
  BY <1>1, <1>2 DEF Found, Kept
<1>6. Creates(d) => Creates(d)'
  BY <1>1, <1>2, <1>3 DEF Creates, Spares
<1>7. KindOK(d)'
  BY <1>1 DEF CallOK, KindOK
<1>8. Named(d)'
  BY <1>1 DEF CallOK, Named, Spares
<1>9. Targeted(d)'
  BY <1>1, <1>2, <1>5, <1>6 DEF CallOK, Targeted
<1>10. ConversationHeld(d)'
  BY <1>1, <1>4 DEF CallOK, ConversationHeld
<1>11. KeyHeld(d)'
  BY <1>1, <1>2, <1>3 DEF CallOK, KeyHeld, Spares, Inserting
<1>12. Numbered(d)'
  <2> SUFFICES ASSUME Inserting(d)
               PROVE  /\ draft[d].message \in (1..(nextId' - 1)) \ DOMAIN message'
                      /\ \A m \in Messages(draft[d].conversation)' : m < draft[d].message
    BY <1>1, <1>2 DEF Numbered
  <2>1. Holds(d, ConversationLock(d), "X")
    BY <1>1 DEF CallOK, ConversationHeld, Inserting
  <2>2. Messages(draft[d].conversation)' = Messages(draft[d].conversation)
    BY <2>1 DEF Spares
  <2> QED
    BY <1>1, <2>2 DEF CallOK, Numbered, Spares, Kept
<1>13. Stored(d)'
  BY <1>1, OwnKept DEF CallOK, Stored, Own, IInv
<1>14. Answered(d)'
  BY <1>1, OwnKept DEF CallOK, Answered, IInv
<1>15. Reading(d)'
  <2>1. \A m \in Messages(draft[d].conversation) : m \in Messages(draft[d].conversation)'
    BY <1>1 DEF Messages, Kept
  <2> QED
    BY <1>1, <1>2, <1>5, <2>1 DEF CallOK, Reading
<1>16. Counted(d)'
  <2> SUFFICES ASSUME input[d].kind = "read", pc[d] = "commit"
               PROVE  Counted(d)'
    BY <1>1 DEF Counted
  <2> DEFINE k == draft[d].conversation
  <2>1. Holds(d, ConversationLock(d), "X")
    BY <1>1 DEF CallOK, ConversationHeld, Sending
  <2>2. conversation'[k] = conversation[k] /\ Messages(k)' = Messages(k)
    BY <2>1 DEF Spares
  <2>3. \A u, n : Unread(u, k, n)' = Unread(u, k, n)
    <3>1. \A m \in Messages(k) : message'[m] = message[m]
      BY DEF Messages, Kept
    <3> QED
      BY <2>2, <3>1 DEF Unread
  <2> QED
    BY <1>1, <2>2, <2>3 DEF CallOK, Counted
<1>17. LockOrder(d)'
  BY <1>1, <1>3, <1>4 DEF CallOK, LockOrder, HoldsNothing
<1> QED
  BY <1>7, <1>8, <1>9, <1>10, <1>11, <1>12, <1>13, <1>14, <1>15, <1>16, <1>17 DEF CallOK

\* A step that changes no committed row spares everybody else.
LEMMA QuietSpares ==
  ASSUME IInv, NEW c, Frame(c), UNCHANGED rows, nextId' \in Nat, nextId <= nextId'
  PROVE  /\ Kept
         /\ \A d \in Calls \ {c} : Spares(d)
         /\ \A d \in Calls \ {c} : CallOK(d)'
         /\ MessagesOK' /\ ConversationsOK'
<1>1. message' = message /\ conversation' = conversation
  BY DEF rows
<1>2. Existing' = Existing
  BY <1>1 DEF Existing
<1>3. \A k : Messages(k)' = Messages(k)
  BY <1>1 DEF Messages
<1>4. Kept
  BY <1>1, <1>2 DEF Kept, IInv, TypeOK
<1>5. ASSUME NEW d \in Calls \ {c}
      PROVE  Spares(d)
  <2>1. draft'[d] = draft[d] /\ input' = input
    BY DEF Frame
  <2>2. Between(Pair(d))' = Between(Pair(d)) /\ SameKey(d)' = SameKey(d)
    BY <1>1, <2>1 DEF Between, Pair, SameKey
  <2>3. Inserting(d) => draft[d].message \notin DOMAIN message'
    BY <1>1 DEF IInv, CallOK, Numbered
  <2> QED
    BY <1>1, <1>2, <1>3, <2>1, <2>2, <2>3 DEF Spares, Creates
<1>6. \A d \in Calls \ {c} : CallOK(d)'
  BY <1>4, <1>5, OthersKeep
<1>7. MessagesOK'
  BY <1>1, <1>2 DEF IInv, MessagesOK
<1>8. ConversationsOK'
  <2>1. \A u, k, m : Unread(u, k, m)' = Unread(u, k, m)
    BY <1>1, <1>3 DEF Unread
  <2>2. \A k \in Existing : RowOK(k)'
    BY <1>1, <1>3, <2>1 DEF IInv, ConversationsOK, RowOK
  <2> QED
    BY <1>1, <1>2, <2>2 DEF IInv, ConversationsOK
<1> QED
  BY <1>4, <1>5, <1>6, <1>7, <1>8

\* A statement of c, which has not ended, that changes no committed row and
\* tells nobody.  What is left to show is that c itself is where it should be.
LEMMA QuietKeeps ==
  ASSUME IInv, NEW c \in Calls, pc[c] \in Statements,
         NEW label \in Statements \cup Outcomes, Goto(c, label),
         UNCHANGED <<rows, pushed, input>>,
         draft' \in [Calls -> [conversation : ConversationIds, message : Nat, unread : Nat]],
         \A d \in Calls \ {c} : draft'[d] = draft[d],
         LocksTypeOK', Exclusive',
         \A d \in Calls \ {c} : \A r \in Rows, m \in {"S", "X"} :
           Holds(d, r, m)' <=> Holds(d, r, m),
         \/ nextId' = nextId /\ (HasMessage(c)' =>
              HasMessage(c) /\ draft'[c].message = draft[c].message)
         \/ nextId' = nextId + 1 /\ draft'[c].message = nextId,
         CallOK(c)'
  PROVE  IInv'
<1>1. /\ pc' \in [Calls -> Statements \cup Outcomes]
      /\ pc'[c] = label
      /\ \A d \in Calls \ {c} : pc'[d] = pc[d]
  BY DEF IInv, TypeOK, Goto
<1>2. nextId \in Nat /\ nextId' \in Nat /\ nextId <= nextId'
  BY DEF IInv, TypeOK
<1>3. Frame(c)
  BY <1>1 DEF Frame
<1>4. /\ \A d \in Calls \ {c} : CallOK(d)'
      /\ MessagesOK' /\ ConversationsOK'
  BY <1>2, <1>3, QuietSpares
<1>5. TypeOK'
  BY <1>1, <1>2 DEF IInv, TypeOK, rows
<1>6. \A d \in Calls \ {c} : HasMessage(d)' <=> HasMessage(d)
  BY <1>1 DEF HasMessage, Inserting
<1>7. Apart'
  <2>1. ASSUME NEW d \in Calls \ {c}, HasMessage(c)', HasMessage(d)',
               draft'[c].message = draft'[d].message
        PROVE  FALSE
    <3>1. HasMessage(d) /\ draft'[d].message = draft[d].message
      BY <1>6, <2>1
    <3>2. draft[d].message \in 1..(nextId - 1)
      <4>1. CASE Inserting(d)
        BY <4>1 DEF IInv, CallOK, Numbered
      <4>2. CASE pc[d] \in {"push", "sent"}
        BY <4>2 DEF IInv, CallOK, Stored, Own, SameKey, TypeOK
      <4> QED
        BY <3>1, <4>1, <4>2 DEF HasMessage
    <3>3. CASE draft'[c].message = nextId
      BY <1>2, <2>1, <3>1, <3>2, <3>3
    <3>4. CASE HasMessage(c) /\ draft'[c].message = draft[c].message
      BY <2>1, <3>1, <3>4 DEF IInv, Apart
    <3> QED
      BY <2>1, <3>3, <3>4
  <2>2. ASSUME NEW d \in Calls \ {c}, NEW e \in Calls \ {c}, HasMessage(d)', HasMessage(e)',
               draft'[d].message = draft'[e].message
        PROVE  d = e
    BY <1>6, <2>2 DEF IInv, Apart
  <2> QED
    BY <2>1, <2>2 DEF Apart
<1>8. PushedOK'
  <2>1. pc[c] # "sent"
    BY DEF Statements
  <2>2. \A d \in Calls : pc[d] = "sent" => pc'[d] = "sent" /\ draft'[d] = draft[d]
    BY <1>1, <2>1
  <2> QED
    BY <2>2 DEF IInv, PushedOK
<1>9. \A d \in Calls : CallOK(d)'
  BY <1>4
<1> QED
  BY <1>4, <1>5, <1>7, <1>8, <1>9 DEF IInv

-----------------------------------------------------------------------------
LEMMA QuietSame ==
  ASSUME UNCHANGED <<rows, input>>
  PROVE  /\ Existing' = Existing
         /\ \A k : Messages(k)' = Messages(k)
         /\ \A u, k, m : Unread(u, k, m)' = Unread(u, k, m)
         /\ \A c : Pair(c)' = Pair(c)
         /\ \A users : Between(users)' = Between(users)
         /\ \A c : SameKey(c)' = SameKey(c) /\ KeyLock(c)' = KeyLock(c)
         /\ \A c, m : Own(c, m)' <=> Own(c, m)
<1>1. message' = message /\ conversation' = conversation /\ input' = input
  BY DEF rows
<1>2. Existing' = Existing /\ \A users : Between(users)' = Between(users)
  BY <1>1 DEF Existing, Between
<1>3. \A k : Messages(k)' = Messages(k)
  BY <1>1 DEF Messages
<1>4. \A u, k, m : Unread(u, k, m)' = Unread(u, k, m)
  BY <1>1, <1>3 DEF Unread
<1>5. \A c : /\ Pair(c)' = Pair(c) /\ SameKey(c)' = SameKey(c) /\ KeyLock(c)' = KeyLock(c)
  BY <1>1 DEF Pair, SameKey, KeyLock
<1>6. \A c, m : Own(c, m)' <=> Own(c, m)
  BY <1>1, <1>5 DEF Own
<1> QED
  BY <1>2, <1>3, <1>4, <1>5, <1>6

\* A call that ends without writing.
LEMMA EndKeeps ==
  ASSUME IInv, NEW c \in Calls, pc[c] \in Statements,
         NEW outcome \in Outcomes \ {"sent", "marked"}, End(c, outcome), UNCHANGED input,
         outcome = "duplicate" => input[c].kind = "send" /\ \E m \in SameKey(c) : Own(c, m),
         outcome = "conflict" => input[c].kind = "send" /\ \E m \in SameKey(c) : ~ Own(c, m),
         outcome = "unchanged" => input[c].kind = "read",
         pc[c] = "push" => outcome = "crashed"
  PROVE  IInv'
<1>1. /\ Goto(c, outcome) /\ ReleaseLocks(c)
      /\ UNCHANGED <<rows, nextId, pushed, draft, input>>
      /\ pc'[c] = outcome
  BY DEF End, Goto, IInv, TypeOK
<1>2. /\ LocksTypeOK' /\ Exclusive'
      /\ \A d \in Calls, q \in Rows, m \in {"S", "X"} : Holds(d, q, m)' <=> Holds(d, q, m) /\ d # c
  BY <1>1, Released DEF IInv
<1>3. CallOK(c)'
  <2>1. KindOK(c)'
    BY <1>1, CallTypes DEF IInv, KindOK, SendOnly, ReadOnly, Outcomes
  <2>2. Named(c)'
    BY <1>1, QuietSame DEF IInv, CallOK, Named, Statements
  <2>3. ~ Inserting(c)' /\ ~ Reads(c)'
    BY <1>1 DEF Inserting, Reads, Sending, Outcomes
  <2>4. Targeted(c)' /\ ConversationHeld(c)' /\ KeyHeld(c)' /\ Numbered(c)'
    BY <1>1, <2>3 DEF Targeted, ConversationHeld, KeyHeld, Numbered, Sending, Outcomes
  <2>5. Stored(c)' /\ Reading(c)' /\ Counted(c)'
    BY <1>1, <2>3 DEF Stored, Reading, Counted, Outcomes
  <2>6. Answered(c)'
    BY <1>1, QuietSame DEF Answered
  <2>7. LockOrder(c)'
    <3>1. \A k \in ConversationIds, u \in Users : <<"participant", k, u>> \in Rows
      BY DEF Rows
    <3> QED
      BY <1>1, <1>2, <3>1 DEF LockOrder, Outcomes
  <2> QED
    BY <2>1, <2>2, <2>4, <2>5, <2>6, <2>7 DEF CallOK
<1>4. ~ HasMessage(c)'
  BY <1>1 DEF HasMessage, Inserting, Sending, Outcomes
<1>5. draft' \in [Calls -> [conversation : ConversationIds, message : Nat, unread : Nat]]
  BY <1>1 DEF IInv, TypeOK
<1>6. UNCHANGED <<rows, pushed, input>>
  BY <1>1
<1>7. \A d \in Calls \ {c} : draft'[d] = draft[d]
  BY <1>1
<1> QED
  BY <1>1, <1>2, <1>3, <1>4, <1>5, <1>6, <1>7, QuietKeeps

\* A statement of c that goes on with the same draft, and may lock a row.
LEMMA OnwardKeeps ==
  ASSUME IInv, NEW c \in Calls, pc[c] \in Statements, NEW label \in Statements \ {"push"},
         Goto(c, label), UNCHANGED <<rows, nextId, pushed, draft, input>>,
         UNCHANGED locks \/ \E mode \in {"S", "X"} : \E r : Acquire(c, r, mode),
         HasMessage(c)' => HasMessage(c),
         CallOK(c)'
  PROVE  IInv'
<1>1. /\ LocksTypeOK' /\ Exclusive'
      /\ \A d \in Calls \ {c} : \A q \in Rows, m \in {"S", "X"} :
           Holds(d, q, m)' <=> Holds(d, q, m)
  <2>1. CASE UNCHANGED locks
    BY <2>1, StaysExclusive DEF IInv
  <2>2. CASE \E mode \in {"S", "X"} : \E r : Acquire(c, r, mode)
    BY <2>2, Granted DEF IInv
  <2> QED
    BY <2>1, <2>2
<1>2. draft' \in [Calls -> [conversation : ConversationIds, message : Nat, unread : Nat]]
  BY DEF IInv, TypeOK
<1>3. UNCHANGED <<rows, pushed, input>>
  OBVIOUS
<1> QED
  BY <1>1, <1>2, <1>3, QuietKeeps

-----------------------------------------------------------------------------
\* A send looks around before it has a conversation.
LEMMA EarlyKeeps ==
  ASSUME IInv, NEW c \in Calls, UNCHANGED input,
         pc[c] \in {"checkBlock", "findMessage", "findConversation", "lockUsers"},
         NEW label \in {"findMessage", "findConversation", "lockUsers"}, Goto(c, label),
         UNCHANGED <<rows, nextId, pushed, draft>>,
         UNCHANGED locks \/ \E mode \in {"S", "X"} : \E u \in Users : Acquire(c, UserLock(u), mode)
  PROVE  IInv'
<1>1. pc'[c] = label
  BY DEF IInv, TypeOK, Goto
<1>2. \A k \in ConversationIds, u \in Users, m \in {"S", "X"} :
        /\ Holds(c, <<"participant", k, u>>, m)' <=> Holds(c, <<"participant", k, u>>, m)
        /\ Holds(c, <<"conversation", k>>, m)' <=> Holds(c, <<"conversation", k>>, m)
  <2>1. \A k \in ConversationIds, u \in Users :
          <<"participant", k, u>> \in Rows /\ <<"conversation", k>> \in Rows
    BY DEF Rows
  <2>2. CASE UNCHANGED locks
    BY <2>1, <2>2 DEF Holds
  <2>3. ASSUME NEW mode \in {"S", "X"}, NEW v \in Users, Acquire(c, UserLock(v), mode)
        PROVE  <1>2
    BY <2>1, <2>3, Granted DEF IInv, UserLock
  <2> QED
    BY <2>2, <2>3
<1>3. CallOK(c)'
  <2>1. KindOK(c)' /\ Named(c)'
    BY <1>1, QuietSame DEF IInv, CallOK, KindOK, Named, SendOnly, ReadOnly
  <2>2. ~ Inserting(c)' /\ ~ Reads(c)'
    BY <1>1 DEF Inserting, Reads, Sending
  <2>3. /\ Targeted(c)' /\ ConversationHeld(c)' /\ KeyHeld(c)' /\ Numbered(c)'
        /\ Stored(c)' /\ Answered(c)' /\ Reading(c)' /\ Counted(c)'
    BY <1>1, <2>2 DEF Targeted, ConversationHeld, KeyHeld, Numbered, Stored, Answered, Reading,
       Counted, Sending
  <2>4. LockOrder(c)'
    BY <1>1, <1>2 DEF IInv, CallOK, LockOrder
  <2> QED
    BY <2>1, <2>3, <2>4 DEF CallOK
<1>4. ~ HasMessage(c)'
  BY <1>1 DEF HasMessage, Inserting, Sending
<1>5. UNCHANGED locks \/ \E mode \in {"S", "X"} : \E r : Acquire(c, r, mode)
  OBVIOUS
<1>6. pc[c] \in Statements /\ label \in Statements \ {"push"}
  BY DEF Statements
<1> QED
  BY <1>3, <1>4, <1>5, <1>6, OnwardKeeps

LEMMA CheckBlockKeeps ==
  ASSUME IInv, NEW c \in Calls, CheckBlock(c), UNCHANGED input
  PROVE  IInv'
<1>1. CASE Look(c, "findMessage")
  BY <1>1, EarlyKeeps DEF CheckBlock, Look
<1>2. CASE End(c, "refused")
  <2>1. pc[c] \in Statements /\ pc[c] # "push"
    BY DEF CheckBlock, Statements
  <2> QED
    BY <1>2, <2>1, EndKeeps DEF Outcomes
<1> QED
  BY <1>1, <1>2 DEF CheckBlock

\* The receiver is in the conversation of his sender's message only if it is
\* theirs.
LEMMA ReceiverIsIn ==
  ASSUME IInv, NEW c \in Calls, NEW m \in SameKey(c)
  PROVE  /\ m \in DOMAIN message
         /\ message[m].conversation \in Existing
         /\ input[c].to \in conversation[message[m].conversation].users
              <=> conversation[message[m].conversation].users = Pair(c)
<1>1. m \in DOMAIN message /\ message[m].sender = input[c].from
  BY DEF SameKey
<1>2. message[m].conversation \in Existing
  BY <1>1 DEF IInv, MessagesOK
<1>3. PICK u \in Users, v \in Users :
        u # v /\ conversation[message[m].conversation].users = {u, v}
  BY <1>2 DEF IInv, ConversationsOK, RowOK
<1>4. input[c].from \in {u, v}
  BY <1>1, <1>3 DEF IInv, MessagesOK
<1>5. input[c].to # input[c].from
  BY CallTypes DEF IInv
<1> QED
  BY <1>1, <1>2, <1>3, <1>4, <1>5 DEF Pair

LEMMA FindMessageKeeps ==
  ASSUME IInv, NEW c \in Calls, FindMessage(c), UNCHANGED input
  PROVE  IInv'
<1>1. pc[c] = "findMessage" /\ input[c].kind = "send"
  BY DEF FindMessage, IInv, CallOK, KindOK, SendOnly
<1>2. CASE SameKey(c) = {}
  BY <1>1, <1>2, EarlyKeeps DEF FindMessage, Look
<1>3. CASE SameKey(c) # {}
  <2> DEFINE same(m) == /\ input[c].to \in conversation[message[m].conversation].users
                        /\ message[m].text = input[c].text
             outcome(m) == IF same(m) THEN "duplicate" ELSE "conflict"
  <2>1. PICK m \in SameKey(c) : End(c, outcome(m))
    BY <1>1, <1>3 DEF FindMessage
  <2>2. same(m) <=> Own(c, m)
    BY <2>1, ReceiverIsIn DEF Own
  <2>3. pc[c] \in Statements /\ outcome(m) \in Outcomes \ {"sent", "marked"}
    BY <1>1 DEF Statements, Outcomes
  <2>4. CASE same(m)
    BY <1>1, <2>1, <2>2, <2>3, <2>4, EndKeeps
  <2>5. CASE ~ same(m)
    BY <1>1, <2>1, <2>2, <2>3, <2>5, EndKeeps
  <2> QED
    BY <2>4, <2>5
<1> QED
  BY <1>2, <1>3

\* Two users are in one conversation only if it is theirs.
LEMMA BetweenIs ==
  ASSUME IInv, NEW c \in Calls
  PROVE  Between(Pair(c)) = {k \in Existing : conversation[k].users = Pair(c)}
<1>1. input[c].from # input[c].to
  BY CallTypes DEF IInv
<1>2. ASSUME NEW k \in ConversationIds, Pair(c) \subseteq conversation[k].users
      PROVE  k \in Existing /\ conversation[k].users = Pair(c)
  <2>1. k \in Existing
    BY <1>2 DEF Existing, NoConversation, Pair
  <2>2. PICK u \in Users, v \in Users : u # v /\ conversation[k].users = {u, v}
    BY <2>1 DEF IInv, ConversationsOK, RowOK
  <2> QED
    BY <1>1, <1>2, <2>1, <2>2 DEF Pair
<1> QED
  BY <1>2 DEF Between, Existing

-----------------------------------------------------------------------------
\* A send has found a conversation of both users, or creates one.
LEMMA ChooseKeeps ==
  ASSUME IInv, NEW c \in Calls, UNCHANGED input,
         pc[c] \in {"findConversation", "lockUsers"}, NEW k \in ConversationIds,
         LookUp(c, "conversation", k, "lockConversation"),
         \/ k \in Between(Pair(c))
         \/ /\ k = c /\ Between(Pair(c)) = {}
            /\ \A u \in Pair(c) : Holds(c, UserLock(u), "X")
  PROVE  IInv'
<1>1. /\ pc'[c] = "lockConversation" /\ Goto(c, "lockConversation")
      /\ UNCHANGED <<rows, nextId, pushed, locks, input>>
      /\ draft' = [draft EXCEPT ![c].conversation = k]
  BY DEF LookUp, Goto, IInv, TypeOK
<1>2. /\ draft'[c].conversation = k
      /\ draft' \in [Calls -> [conversation : ConversationIds, message : Nat, unread : Nat]]
      /\ \A d \in Calls \ {c} : draft'[d] = draft[d]
  BY <1>1 DEF IInv, TypeOK
<1>3. /\ LocksTypeOK' /\ Exclusive'
      /\ \A d \in Calls, q \in Rows, m \in {"S", "X"} : Holds(d, q, m)' <=> Holds(d, q, m)
  BY <1>1, StaysExclusive DEF IInv
<1>4. CallOK(c)'
  <2>1. KindOK(c)' /\ Named(c)'
    BY <1>1, QuietSame DEF IInv, CallOK, KindOK, Named, SendOnly, ReadOnly
  <2>2. ~ Inserting(c)' /\ ~ Reads(c)'
    BY <1>1 DEF Inserting, Reads, Sending
  <2>3. Targeted(c)'
    <3>1. CASE k \in Between(Pair(c))
      BY <1>1, <1>2, <3>1, BetweenIs, QuietSame DEF Targeted, Found, rows
    <3>2. CASE /\ k = c /\ Between(Pair(c)) = {}
               /\ \A u \in Pair(c) : Holds(c, UserLock(u), "X")
      <4>1. c \notin Existing
        BY DEF IInv, CallOK, Named
      <4>2. \A u \in Pair(c) : UserLock(u) \in Rows
        BY LockRows DEF IInv
      <4>3. Creates(c)'
        BY <1>1, <1>2, <1>3, <3>2, <4>1, <4>2, QuietSame DEF Creates
      <4> QED
        BY <4>3 DEF Targeted
    <3> QED
      BY <3>1, <3>2
  <2>4. /\ ConversationHeld(c)' /\ KeyHeld(c)' /\ Numbered(c)'
        /\ Stored(c)' /\ Answered(c)' /\ Reading(c)' /\ Counted(c)'
    BY <1>1, <2>2 DEF ConversationHeld, KeyHeld, Numbered, Stored, Answered, Reading,
       Counted, Sending
  <2>5. LockOrder(c)'
    <3>1. \A j \in ConversationIds, u \in Users :
            <<"participant", j, u>> \in Rows /\ <<"conversation", j>> \in Rows
      BY DEF Rows
    <3> QED
      BY <1>1, <1>3, <3>1 DEF IInv, CallOK, LockOrder
  <2> QED
    BY <2>1, <2>3, <2>4, <2>5 DEF CallOK
<1>5. ~ HasMessage(c)'
  BY <1>1 DEF HasMessage, Inserting, Sending
<1>6. pc[c] \in Statements /\ "lockConversation" \in Statements
  BY DEF Statements
<1>7. UNCHANGED <<rows, pushed, input>> /\ nextId' = nextId
  BY <1>1
<1> QED
  BY <1>1, <1>2, <1>3, <1>4, <1>5, <1>6, <1>7, QuietKeeps

LEMMA FindConversationKeeps ==
  ASSUME IInv, NEW c \in Calls, FindConversation(c), UNCHANGED input
  PROVE  IInv'
<1>1. CASE Between(Pair(c)) = {}
  BY <1>1, EarlyKeeps DEF FindConversation, Look
<1>2. CASE Between(Pair(c)) # {}
  <2>1. PICK k \in Between(Pair(c)) : LookUp(c, "conversation", k, "lockConversation")
    BY <1>2 DEF FindConversation
  <2>2. k \in ConversationIds /\ pc[c] = "findConversation"
    BY DEF Between, FindConversation
  <2> QED
    BY <2>1, <2>2, ChooseKeeps
<1> QED
  BY <1>1, <1>2

LEMMA LockUsersKeeps ==
  ASSUME IInv, NEW c \in Calls, LockUsers(c), UNCHANGED input
  PROVE  IInv'
<1>1. pc[c] = "lockUsers" /\ pc[c] \in Statements
  BY DEF LockUsers, Statements
<1>2. Pair(c) \subseteq Users /\ UnlockedUsers(c) \subseteq Pair(c)
  BY CallTypes DEF IInv, Pair, UnlockedUsers
<1>3. CASE UnlockedUsers(c) # {}
  <2> DEFINE u == Min(UnlockedUsers(c))
  <2>1. Lock(c, UserLock(u), "X", "lockUsers")
    BY <1>3 DEF LockUsers
  <2>2. u \in Users
    <3>1. \E v \in UnlockedUsers(c) : \A w \in UnlockedUsers(c) : v <= w
      <4> DEFINE a == input[c].from
                 b == input[c].to
      <4>1. a \in Nat /\ b \in Nat
        BY CallTypes, ConversationAssumption DEF IInv
      <4>2. UnlockedUsers(c) \subseteq {a, b}
        BY <1>2 DEF Pair
      <4> QED
        BY <1>3, <4>1, <4>2
    <3> QED
      BY <1>2, <3>1 DEF Min
  <2>3. \E mode \in {"S", "X"} : \E v \in Users : Acquire(c, UserLock(v), mode)
    BY <2>1, <2>2 DEF Lock
  <2> QED
    BY <1>1, <2>1, <2>3, EarlyKeeps DEF Lock
<1>4. CASE UnlockedUsers(c) = {}
  <2>1. \A u \in Pair(c) : Holds(c, UserLock(u), "X")
    BY <1>4 DEF UnlockedUsers
  <2>2. CASE End(c, "refused")
    BY <1>1, <2>2, EndKeeps DEF Outcomes
  <2>3. CASE Between(Pair(c)) = {} /\ LookUp(c, "conversation", c, "lockConversation")
    BY <1>1, <2>1, <2>3, ChooseKeeps DEF ConversationIds
  <2>4. CASE \E k \in Between(Pair(c)) : LookUp(c, "conversation", k, "lockConversation")
    <3>1. PICK k \in Between(Pair(c)) : LookUp(c, "conversation", k, "lockConversation")
      BY <2>4
    <3>2. k \in ConversationIds
      BY DEF Between
    <3> QED
      BY <1>1, <3>1, <3>2, ChooseKeeps
  <2> QED
    BY <1>4, <2>2, <2>3, <2>4 DEF LockUsers
<1> QED
  BY <1>3, <1>4

-----------------------------------------------------------------------------
\* A send that has its conversation goes on with it, and may lock a row.
LEMMA TargetKept ==
  ASSUME IInv, NEW c \in Calls, UNCHANGED <<rows, input>>,
         draft'[c].conversation = draft[c].conversation,
         \A r \in Rows, m \in {"S", "X"} : Holds(c, r, m) => Holds(c, r, m)',
         pc[c] \in {"lockConversation", "findAgain", "insertMessage"} \/ Inserting(c)
  PROVE  /\ ConversationLock(c)' = ConversationLock(c)
         /\ Found(c)' \/ Creates(c)'
<1>1. \A u \in Pair(c) : UserLock(u) \in Rows
  BY LockRows DEF IInv
<1>2. Found(c) \/ Creates(c)
  BY DEF IInv, CallOK, Targeted
<1>3. Found(c) => Found(c)'
  BY QuietSame DEF Found, rows
<1>4. Creates(c) => Creates(c)'
  BY <1>1, QuietSame DEF Creates
<1> QED
  BY <1>2, <1>3, <1>4 DEF ConversationLock

\* What is shown here of a step of a send to one of its later statements.
LEMMA TargetKeeps ==
  ASSUME IInv, NEW c \in Calls, UNCHANGED <<rows, nextId, pushed, draft, input>>,
         NEW label \in {"findAgain", "insertMessage"} \cup Sending, Goto(c, label),
         \/ pc[c] = "lockConversation" /\ label = "findAgain"
         \/ pc[c] = "findAgain" /\ label = "insertMessage"
         \/ Inserting(c) /\ label \in Sending,
         \/ UNCHANGED locks
         \/ \E mode \in {"S", "X"} : \E r : Acquire(c, r, mode),
         Holds(c, ConversationLock(c), "X")',
         \A k \in ConversationIds, u \in Users, m \in {"S", "X"} :
           Holds(c, <<"participant", k, u>>, m)' =>
             Holds(c, <<"participant", k, u>>, m) \/ <<"conversation", k>> = ConversationLock(c)
  PROVE  IInv'
<1>1. pc'[c] = label
  BY DEF IInv, TypeOK, Goto
<1>2. \A r \in Rows, m \in {"S", "X"} : Holds(c, r, m) => Holds(c, r, m)'
  BY Granted DEF IInv, Holds
<1>3. Inserting(c)' => Inserting(c)
  BY <1>1 DEF Inserting, Sending
<1>4. input[c].kind = "send"
  BY DEF IInv, CallOK, KindOK, SendOnly, Inserting
<1>5. CallOK(c)'
  <2>1. KindOK(c)' /\ ~ Reads(c)'
    BY <1>1, <1>4 DEF KindOK, ReadOnly, Reads, Sending
  <2>2. Named(c)'
    <3>1. c \notin Existing
      BY DEF IInv, CallOK, Named, Inserting, Sending
    <3> QED
      BY <3>1, QuietSame DEF Named
  <2>3. Targeted(c)' /\ ConversationHeld(c)'
    BY <1>2, TargetKept DEF Targeted, ConversationHeld
  <2>4. KeyHeld(c)' /\ Numbered(c)'
    <3> SUFFICES ASSUME Inserting(c)
                 PROVE  KeyHeld(c)' /\ Numbered(c)'
      BY <1>3 DEF KeyHeld, Numbered
    <3>1. KeyLock(c) \in Rows
      BY <1>4, LockRows DEF IInv
    <3>2. message' = message
      BY DEF rows
    <3> QED
      BY <1>2, <3>1, <3>2, QuietSame DEF IInv, CallOK, KeyHeld, Numbered
  <2>5. Stored(c)' /\ Answered(c)' /\ Reading(c)' /\ Counted(c)'
    BY <1>1, <1>4, <2>1 DEF Stored, Answered, Reading, Counted, Sending
  <2>6. LockOrder(c)'
    <3>1. \A k \in ConversationIds : <<"conversation", k>> \in Rows
      BY DEF Rows
    <3>2. ConversationLock(c)' = ConversationLock(c)
      BY DEF ConversationLock
    <3> QED
      BY <1>1, <1>2, <3>1, <3>2 DEF IInv, CallOK, LockOrder, Sending
  <2> QED
    BY <2>1, <2>2, <2>3, <2>4, <2>5, <2>6 DEF CallOK
<1>6. HasMessage(c)' => HasMessage(c)
  BY <1>1, <1>3 DEF HasMessage, Sending
<1>7. pc[c] \in Statements /\ label \in Statements \ {"push"}
  BY DEF Statements, Sending, Inserting
<1> QED
  BY <1>5, <1>6, <1>7, OnwardKeeps

LEMMA LockConversationKeeps ==
  ASSUME IInv, NEW c \in Calls, LockConversation(c), UNCHANGED input
  PROVE  IInv'
<1>1. /\ pc[c] = "lockConversation" /\ Goto(c, "findAgain")
      /\ Acquire(c, ConversationLock(c), "X")
      /\ UNCHANGED <<rows, nextId, pushed, draft>>
  BY DEF LockConversation, Lock
<1>2. \A d \in Calls, q \in Rows, m \in {"S", "X"} :
        Holds(d, q, m)' <=> Holds(d, q, m) \/ (d = c /\ q = ConversationLock(c) /\ m = "X")
  BY <1>1, Granted DEF IInv
<1>3. ConversationLock(c)' = ConversationLock(c) /\ ConversationLock(c) \in Rows
  BY <1>1, LockRows DEF ConversationLock, IInv
<1>4. \A k \in ConversationIds, u \in Users :
        <<"participant", k, u>> \in Rows /\ <<"participant", k, u>> # ConversationLock(c)
  BY DEF Rows, ConversationLock
<1> QED
  BY <1>1, <1>2, <1>3, <1>4, TargetKeeps

\* The message under the client id is what c asks to send if and only if it is
\* in the conversation of c with the same text.
LEMMA AnswerKeeps ==
  ASSUME IInv, NEW c \in Calls, AnswerExisting(c), UNCHANGED input,
         pc[c] \in {"findAgain", "insertMessage"}
  PROVE  IInv'
<1> DEFINE same(m) == /\ message[m].conversation = draft[c].conversation
                      /\ message[m].text = input[c].text
           outcome(m) == IF same(m) THEN "duplicate" ELSE "conflict"
<1>1. PICK m \in SameKey(c) : End(c, outcome(m))
  BY DEF AnswerExisting
<1>2. input[c].kind = "send" /\ pc[c] \in Statements
  BY DEF IInv, CallOK, KindOK, SendOnly, Statements
<1>3. message[m].conversation \in Existing
  BY ReceiverIsIn
<1>4. message[m].conversation = draft[c].conversation
        <=> conversation[message[m].conversation].users = Pair(c)
  <2>1. CASE Found(c)
    BY <1>3, <2>1 DEF Found, IInv, ConversationsOK
  <2>2. CASE Creates(c)
    BY <1>3, <2>2, BetweenIs DEF Creates
  <2> QED
    BY <2>1, <2>2 DEF IInv, CallOK, Targeted
<1>5. same(m) <=> Own(c, m)
  BY <1>4 DEF Own
<1>6. CASE same(m)
  BY <1>1, <1>2, <1>5, <1>6, EndKeeps DEF Outcomes
<1>7. CASE ~ same(m)
  BY <1>1, <1>2, <1>5, <1>7, EndKeeps DEF Outcomes
<1> QED
  BY <1>6, <1>7

LEMMA FindAgainKeeps ==
  ASSUME IInv, NEW c \in Calls, FindAgain(c), UNCHANGED input
  PROVE  IInv'
<1>1. CASE SameKey(c) = {}
  <2>1. /\ pc[c] = "findAgain" /\ Goto(c, "insertMessage")
        /\ UNCHANGED <<rows, nextId, pushed, draft, locks>>
    BY <1>1 DEF FindAgain, Look
  <2>2. Holds(c, ConversationLock(c), "X")'
    BY <2>1 DEF IInv, CallOK, ConversationHeld, Holds, ConversationLock
  <2>3. \A k, u, m : Holds(c, <<"participant", k, u>>, m)' => Holds(c, <<"participant", k, u>>, m)
    BY <2>1 DEF Holds
  <2> QED
    BY <2>1, <2>2, <2>3, TargetKeeps
<1>2. CASE SameKey(c) # {}
  BY <1>2, AnswerKeeps DEF FindAgain
<1> QED
  BY <1>1, <1>2

\* The message gets an id that no other has; its key is locked.
LEMMA InsertMessageKeeps ==
  ASSUME IInv, NEW c \in Calls, InsertMessage(c), UNCHANGED input
  PROVE  IInv'
<1>1. CASE AnswerExisting(c)
  BY <1>1, AnswerKeeps DEF InsertMessage
<1>2. CASE ~ AnswerExisting(c)
  <2>1. /\ pc[c] = "insertMessage" /\ SameKey(c) = {} /\ Acquire(c, KeyLock(c), "X")
        /\ draft' = [draft EXCEPT ![c].message = nextId] /\ nextId' = nextId + 1
        /\ Goto(c, "referSender") /\ UNCHANGED <<rows, pushed, input>>
    BY <1>2 DEF InsertMessage
  <2>2. input[c].kind = "send" /\ pc'[c] = "referSender"
    BY <2>1 DEF IInv, CallOK, KindOK, SendOnly, TypeOK, Goto
  <2>3. /\ LocksTypeOK' /\ Exclusive'
        /\ \A d \in Calls, q \in Rows, m \in {"S", "X"} :
             Holds(d, q, m)' <=> Holds(d, q, m) \/ (d = c /\ q = KeyLock(c) /\ m = "X")
    BY <2>1, Granted DEF IInv
  <2>4. /\ draft' \in [Calls -> [conversation : ConversationIds, message : Nat, unread : Nat]]
        /\ \A d \in Calls \ {c} : draft'[d] = draft[d]
        /\ draft'[c].message = nextId
        /\ draft'[c].conversation = draft[c].conversation
        /\ nextId \in Nat
    BY <2>1 DEF IInv, TypeOK
  <2>5. /\ ConversationLock(c)' = ConversationLock(c)
        /\ Found(c)' \/ Creates(c)'
    BY <2>1, <2>3, <2>4, TargetKept
  <2>6. ConversationLock(c) \in Rows /\ KeyLock(c) \in Rows /\ KeyLock(c)' = KeyLock(c)
    BY <2>1, <2>2, LockRows DEF IInv, KeyLock
  <2>7. CallOK(c)'
    <3>1. KindOK(c)' /\ ~ Reads(c)' /\ Inserting(c)'
      BY <2>1, <2>2 DEF KindOK, ReadOnly, Reads, Inserting, Sending
    <3>2. Named(c)'
      <4>1. c \notin Existing
        BY <2>1 DEF IInv, CallOK, Named
      <4> QED
        BY <2>1, <4>1, QuietSame DEF Named
    <3>3. Targeted(c)' /\ ConversationHeld(c)'
      BY <2>1, <2>3, <2>5, <2>6 DEF IInv, CallOK, Targeted, ConversationHeld
    <3>4. KeyHeld(c)'
      BY <2>1, <2>3, <2>6, QuietSame DEF KeyHeld
    <3>5. Numbered(c)'
      <4>1. \A m \in DOMAIN message : m \in 1..(nextId - 1)
        BY DEF IInv, TypeOK
      <4>2. message' = message
        BY <2>1 DEF rows
      <4>3. \A m \in Messages(draft[c].conversation) : m \in DOMAIN message
        BY DEF Messages
      <4> QED
        BY <2>1, <2>4, <4>1, <4>2, <4>3, QuietSame DEF Numbered, IInv, TypeOK
    <3>6. Stored(c)' /\ Answered(c)' /\ Reading(c)' /\ Counted(c)'
      BY <2>2, <3>1 DEF Stored, Answered, Reading, Counted
    <3>7. LockOrder(c)'
      <4>1. \A k \in ConversationIds, u \in Users :
              /\ <<"conversation", k>> \in Rows /\ <<"participant", k, u>> \in Rows
              /\ <<"participant", k, u>> # KeyLock(c) /\ <<"conversation", k>> # KeyLock(c)
        BY DEF Rows, KeyLock
      <4> QED
        BY <2>2, <2>3, <4>1 DEF IInv, CallOK, LockOrder
    <3> QED
      BY <3>1, <3>2, <3>3, <3>4, <3>5, <3>6, <3>7 DEF CallOK
  <2>8. pc[c] \in Statements /\ "referSender" \in Statements
    BY <2>1 DEF Statements
  <2>9. UNCHANGED <<rows, pushed, input>>
    BY <2>1
  <2> QED
    BY <2>1, <2>3, <2>4, <2>7, <2>8, <2>9, QuietKeeps
<1> QED
  BY <1>1, <1>2

\* The rows a message refers to, and the receiver's counter.
LEMMA ReferKeeps ==
  ASSUME IInv, NEW c \in Calls, ReferSender(c) \/ CountUnread(c) \/ ReferReceiver(c),
         UNCHANGED input
  PROVE  IInv'
<1>1. Inserting(c)
  BY DEF ReferSender, CountUnread, ReferReceiver, IInv, CallOK, KindOK, SendOnly, Inserting, Sending
<1>2. PICK mode \in {"S", "X"}, label \in Sending : \E row :
        /\ Lock(c, row, mode, label)
        /\ row = ParticipantLock(c, input[c].to) \/ \E u \in Users : row = UserLock(u)
  <2>1. input[c].from \in Users /\ input[c].to \in Users
    BY CallTypes DEF IInv
  <2> QED
    BY <2>1 DEF ReferSender, CountUnread, ReferReceiver, Sending
<1>3. PICK row : /\ Lock(c, row, mode, label)
                 /\ row = ParticipantLock(c, input[c].to) \/ \E u \in Users : row = UserLock(u)
  BY <1>2
<1>4. /\ Goto(c, label) /\ Acquire(c, row, mode) /\ UNCHANGED <<rows, nextId, pushed, draft>>
  BY <1>3 DEF Lock
<1>5. \A d \in Calls, q \in Rows, m \in {"S", "X"} :
        Holds(d, q, m)' <=> Holds(d, q, m) \/ (d = c /\ q = row /\ m = mode)
  BY <1>4, Granted DEF IInv
<1>6. ConversationLock(c)' = ConversationLock(c) /\ ConversationLock(c) \in Rows
  BY <1>4, LockRows DEF ConversationLock, IInv
<1>7. Holds(c, ConversationLock(c), "X")'
  BY <1>1, <1>5, <1>6 DEF IInv, CallOK, ConversationHeld, Inserting
<1>8. \A k \in ConversationIds, u \in Users :
        /\ <<"participant", k, u>> \in Rows
        /\ <<"participant", k, u>> = row => <<"conversation", k>> = ConversationLock(c)
  BY <1>3 DEF Rows, ConversationLock, ParticipantLock, UserLock
<1> QED
  BY <1>1, <1>4, <1>5, <1>7, <1>8, TargetKeeps

-----------------------------------------------------------------------------
\* A reader takes a message of a conversation of both users.
LEMMA ResolveKeeps ==
  ASSUME IInv, NEW c \in Calls, Resolve(c), UNCHANGED input
  PROVE  IInv'
<1>1. pc[c] = "resolve" /\ input[c].kind = "read" /\ pc[c] \in Statements
  BY DEF Resolve, IInv, CallOK, KindOK, ReadOnly, Statements
<1>2. CASE End(c, "refused")
  BY <1>1, <1>2, EndKeeps DEF Outcomes
<1>3. CASE ~ End(c, "refused")
  <2>1. PICK k \in Between(Pair(c)) : \E m \in Messages(k) :
          /\ draft' = [draft EXCEPT ![c].conversation = k, ![c].message = m]
          /\ Goto(c, "lockCursor")
          /\ UNCHANGED <<rows, nextId, pushed, locks>>
    BY <1>3 DEF Resolve
  <2>2. PICK m \in Messages(k) :
          /\ draft' = [draft EXCEPT ![c].conversation = k, ![c].message = m]
          /\ Goto(c, "lockCursor")
          /\ UNCHANGED <<rows, nextId, pushed, locks, input>>
    BY <2>1
  <2>3. /\ k \in ConversationIds /\ k \in Existing /\ conversation[k].users = Pair(c)
        /\ m \in DOMAIN message /\ m \in Nat
    BY BetweenIs DEF Between, Messages, IInv, TypeOK
  <2>4. /\ draft' \in [Calls -> [conversation : ConversationIds, message : Nat, unread : Nat]]
        /\ \A d \in Calls \ {c} : draft'[d] = draft[d]
        /\ draft'[c].conversation = k /\ draft'[c].message = m
        /\ pc'[c] = "lockCursor"
    BY <2>2, <2>3 DEF IInv, TypeOK, Goto
  <2>5. /\ LocksTypeOK' /\ Exclusive'
        /\ \A d \in Calls, q \in Rows, x \in {"S", "X"} : Holds(d, q, x)' <=> Holds(d, q, x)
    BY <2>2, StaysExclusive DEF IInv
  <2>6. CallOK(c)'
    <3>1. KindOK(c)' /\ ~ Inserting(c)'
      BY <1>1, <2>2, <2>4 DEF KindOK, SendOnly, Inserting
    <3>2. Named(c)'
      BY <1>1, <2>2, QuietSame DEF IInv, CallOK, Named
    <3>3. Reading(c)'
      <4>1. Found(c)'
        BY <2>2, <2>3, <2>4, QuietSame DEF Found, rows
      <4>2. m \in Messages(k)'
        BY <2>2, QuietSame
      <4> QED
        BY <2>4, <4>1, <4>2 DEF Reading
    <3>4. /\ Targeted(c)' /\ ConversationHeld(c)' /\ KeyHeld(c)' /\ Numbered(c)'
          /\ Stored(c)' /\ Answered(c)' /\ Counted(c)'
      BY <2>4, <3>1 DEF Targeted, ConversationHeld, KeyHeld, Numbered, Stored, Answered, Counted,
         Sending
    <3>5. LockOrder(c)'
      <4>1. HoldsNothing(c)
        BY <1>1 DEF IInv, CallOK, LockOrder
      <4>2. \A j \in ConversationIds, u \in Users : <<"participant", j, u>> \in Rows
        BY DEF Rows
      <4> QED
        BY <2>4, <2>5, <4>1, <4>2 DEF LockOrder, HoldsNothing
    <3> QED
      BY <3>1, <3>2, <3>3, <3>4, <3>5 DEF CallOK
  <2>7. ~ HasMessage(c)' /\ "lockCursor" \in Statements
    BY <2>4 DEF HasMessage, Inserting, Sending, Statements
  <2>8. UNCHANGED <<rows, pushed, input>> /\ nextId' = nextId
    BY <2>2
  <2> QED
    BY <1>1, <2>2, <2>4, <2>5, <2>6, <2>7, <2>8, QuietKeeps
<1> QED
  BY <1>2, <1>3

LEMMA MinIs ==
  ASSUME NEW S, S \subseteq Int, NEW x \in S, \A y \in S : x <= y
  PROVE  Min(S) = x
<1>1. Min(S) \in S /\ \A y \in S : Min(S) <= y
  BY DEF Min
<1>2. Min(S) <= x /\ x <= Min(S) /\ Min(S) \in Int
  BY <1>1
<1> QED
  BY <1>2

\* A reader's next lock is its conversation's, or its participant's under it.
LEMMA NextCursor ==
  ASSUME IInv, NEW c \in Calls, pc[c] = "lockCursor"
  PROVE  LET next == CursorLocks(c)[Min(UnlockedCursor(c))]
         IN  /\ UnlockedCursor(c) = {} => Holds(c, ConversationLock(c), "X")
             /\ UnlockedCursor(c) # {} =>
                  \/ next = ConversationLock(c) /\ HoldsNothing(c)
                  \/ /\ next = ParticipantLock(c, input[c].from)
                     /\ Holds(c, ConversationLock(c), "X")
<1> DEFINE S == UnlockedCursor(c)
<1>1. /\ DOMAIN CursorLocks(c) = {1, 2}
      /\ CursorLocks(c)[1] = ConversationLock(c)
      /\ CursorLocks(c)[2] = ParticipantLock(c, input[c].from)
  BY DEF CursorLocks
<1>2. S = {i \in {1, 2} : ~ Holds(c, CursorLocks(c)[i], "X")}
  BY <1>1 DEF UnlockedCursor
<1>3. CASE Holds(c, ConversationLock(c), "X")
  <2>1. S \subseteq {2}
    BY <1>1, <1>2, <1>3
  <2>2. S # {} => Min(S) = 2
    BY <2>1, MinIs
  <2> QED
    BY <1>1, <1>3, <2>2
<1>4. CASE ~ Holds(c, ConversationLock(c), "X")
  <2>1. 1 \in S /\ S \subseteq {1, 2}
    BY <1>1, <1>2, <1>4
  <2>2. Min(S) = 1
    BY <2>1, MinIs
  <2>3. HoldsNothing(c)
    BY <1>4 DEF IInv, CallOK, LockOrder
  <2> QED
    BY <1>1, <2>1, <2>2, <2>3
<1> QED
  BY <1>3, <1>4

\* A statement of a reader that keeps its message.
LEMMA ReadKeeps ==
  ASSUME IInv, NEW c \in Calls, UNCHANGED <<rows, nextId, pushed, draft, input>>,
         pc[c] = "lockCursor", NEW label \in {"lockCursor", "mark"}, Goto(c, label),
         \/ UNCHANGED locks
         \/ \E mode \in {"S", "X"} : \E r : Acquire(c, r, mode),
         Holds(c, ConversationLock(c), "X")',
         \A k \in ConversationIds, u \in Users, m \in {"S", "X"} :
           Holds(c, <<"participant", k, u>>, m)' =>
             Holds(c, <<"participant", k, u>>, m) \/ <<"conversation", k>> = ConversationLock(c)
  PROVE  IInv'
<1>1. pc'[c] = label /\ input[c].kind = "read"
  BY DEF IInv, TypeOK, Goto, CallOK, KindOK, ReadOnly
<1>2. \A r \in Rows, m \in {"S", "X"} : Holds(c, r, m) => Holds(c, r, m)'
  BY Granted DEF IInv, Holds
<1>3. ConversationLock(c)' = ConversationLock(c)
  BY DEF ConversationLock
<1>4. CallOK(c)'
  <2>1. KindOK(c)' /\ ~ Inserting(c)'
    BY <1>1 DEF KindOK, SendOnly, Inserting
  <2>2. Named(c)'
    BY <1>1, QuietSame DEF IInv, CallOK, Named
  <2>3. Reading(c)'
    BY QuietSame DEF IInv, CallOK, Reading, Reads, Found, rows
  <2>4. /\ Targeted(c)' /\ ConversationHeld(c)' /\ KeyHeld(c)' /\ Numbered(c)'
        /\ Stored(c)' /\ Answered(c)' /\ Counted(c)'
    BY <1>1, <2>1 DEF Targeted, ConversationHeld, KeyHeld, Numbered, Stored, Answered, Counted,
       Sending
  <2>5. LockOrder(c)'
    <3>1. \A k \in ConversationIds : <<"conversation", k>> \in Rows
      BY DEF Rows
    <3> QED
      BY <1>1, <1>2, <1>3, <3>1 DEF IInv, CallOK, LockOrder
  <2> QED
    BY <2>1, <2>2, <2>3, <2>4, <2>5 DEF CallOK
<1>5. ~ HasMessage(c)'
  BY <1>1 DEF HasMessage, Inserting, Sending
<1>6. pc[c] \in Statements /\ label \in Statements \ {"push"}
  BY DEF Statements
<1> QED
  BY <1>4, <1>5, <1>6, OnwardKeeps

LEMMA LockCursorKeeps ==
  ASSUME IInv, NEW c \in Calls, LockCursor(c), UNCHANGED input
  PROVE  IInv'
<1>1. pc[c] = "lockCursor"
  BY DEF LockCursor
<1>2. CASE UnlockedCursor(c) = {}
  <2>1. Goto(c, "mark") /\ UNCHANGED <<rows, nextId, pushed, draft, locks>>
    BY <1>2 DEF LockCursor, Look
  <2>2. Holds(c, ConversationLock(c), "X")'
    BY <1>1, <1>2, <2>1, NextCursor DEF Holds, ConversationLock
  <2>3. \A k, u, m : Holds(c, <<"participant", k, u>>, m)' => Holds(c, <<"participant", k, u>>, m)
    BY <2>1 DEF Holds
  <2> QED
    BY <1>1, <2>1, <2>2, <2>3, ReadKeeps
<1>3. CASE UnlockedCursor(c) # {}
  <2> DEFINE row == CursorLocks(c)[Min(UnlockedCursor(c))]
  <2>1. Goto(c, "lockCursor") /\ Acquire(c, row, "X") /\ UNCHANGED <<rows, nextId, pushed, draft>>
    BY <1>3 DEF LockCursor, Lock
  <2>2. \/ row = ConversationLock(c)
        \/ row = ParticipantLock(c, input[c].from) /\ Holds(c, ConversationLock(c), "X")
    BY <1>1, <1>3, NextCursor
  <2>3. \A d \in Calls, q \in Rows, m \in {"S", "X"} :
          Holds(d, q, m)' <=> Holds(d, q, m) \/ (d = c /\ q = row /\ m = "X")
    BY <2>1, Granted DEF IInv
  <2>4. ConversationLock(c)' = ConversationLock(c) /\ ConversationLock(c) \in Rows
    BY <2>1, LockRows DEF ConversationLock, IInv
  <2>5. Holds(c, ConversationLock(c), "X")'
    BY <2>2, <2>3, <2>4
  <2>6. \A k \in ConversationIds, u \in Users :
          /\ <<"participant", k, u>> \in Rows
          /\ <<"participant", k, u>> = row => <<"conversation", k>> = ConversationLock(c)
    BY <2>2 DEF Rows, ConversationLock, ParticipantLock
  <2>7. \A k \in ConversationIds, u \in Users, m \in {"S", "X"} :
          Holds(c, <<"participant", k, u>>, m)' =>
            Holds(c, <<"participant", k, u>>, m) \/ <<"conversation", k>> = ConversationLock(c)
    BY <2>3, <2>6
  <2> QED
    BY <1>1, <2>1, <2>5, <2>7, ReadKeeps
<1> QED
  BY <1>2, <1>3

-----------------------------------------------------------------------------
LEMMA FiniteMessages ==
  ASSUME NEW n \in Nat, DOMAIN message \subseteq 1..n
  PROVE  /\ IsFiniteSet(DOMAIN message)
         /\ \A u, k, m : Unread(u, k, m) \in Nat
<1>1. IsFiniteSet(DOMAIN message)
  <2>1. IsFiniteSet(1..n)
    BY FS_Interval
  <2> QED
    BY <2>1, FS_Subset
<1>2. \A u, k, m : {i \in Messages(k) : i > m /\ message[i].sender # u} \subseteq DOMAIN message
  BY DEF Messages
<1> QED
  BY <1>1, <1>2, FS_Subset, FS_CardinalityType DEF Unread

LEMMA RowTypes ==
  ASSUME IInv, NEW k \in Existing
  PROVE  /\ k \in ConversationIds /\ conversation[k] \in ConversationRow
         /\ conversation[k].users \subseteq Users /\ conversation[k].users # {}
         /\ conversation[k].last \in Nat
         /\ \A u \in Users : conversation[k].cursor[u] \in Nat /\ conversation[k].unread[u] \in Nat
<1>1. k \in ConversationIds /\ conversation[k] \in ConversationRow
  BY DEF Existing, IInv, TypeOK
<1>2. conversation[k].users # {}
  BY DEF IInv, ConversationsOK, RowOK
<1> QED
  BY <1>1, <1>2 DEF ConversationRow

LEMMA MarkKeeps ==
  ASSUME IInv, NEW c \in Calls, Mark(c), UNCHANGED input
  PROVE  IInv'
<1> DEFINE k == draft[c].conversation
           u == input[c].from
           m == draft[c].message
<1>1. pc[c] = "mark" /\ input[c].kind = "read" /\ pc[c] \in Statements
  BY DEF Mark, IInv, CallOK, KindOK, ReadOnly, Statements
<1>2. Found(c) /\ m \in Messages(k) /\ Holds(c, ConversationLock(c), "X")
  BY <1>1 DEF IInv, CallOK, Reading, Reads, ConversationHeld
<1>3. CASE m <= conversation[k].cursor[u]
  BY <1>1, <1>3, EndKeeps DEF Mark, Outcomes
<1>4. CASE ~ (m <= conversation[k].cursor[u])
  <2>1. /\ draft' = [draft EXCEPT ![c].unread = Unread(u, k, m)]
        /\ Goto(c, "commit") /\ UNCHANGED <<rows, nextId, pushed, locks, input>>
    BY <1>4 DEF Mark, LookUp
  <2>2. Unread(u, k, m) \in Nat
    BY FiniteMessages DEF IInv, TypeOK
  <2>3. /\ draft' \in [Calls -> [conversation : ConversationIds, message : Nat, unread : Nat]]
        /\ \A d \in Calls \ {c} : draft'[d] = draft[d]
        /\ draft'[c].conversation = k /\ draft'[c].message = m
        /\ draft'[c].unread = Unread(u, k, m)
        /\ pc'[c] = "commit"
    BY <2>1, <2>2 DEF IInv, TypeOK, Goto
  <2>4. /\ LocksTypeOK' /\ Exclusive'
        /\ \A d \in Calls, q \in Rows, x \in {"S", "X"} : Holds(d, q, x)' <=> Holds(d, q, x)
    BY <2>1, StaysExclusive DEF IInv
  <2>5. CallOK(c)'
    <3>1. KindOK(c)' /\ ~ Inserting(c)'
      BY <1>1, <2>1, <2>3 DEF KindOK, SendOnly, Inserting
    <3>2. Named(c)'
      BY <1>1, <2>1, QuietSame DEF IInv, CallOK, Named
    <3>3. ConversationHeld(c)'
      BY <1>2, <2>1, <2>3 DEF ConversationHeld, Holds, ConversationLock
    <3>4. Found(c)'
      BY <1>2, <2>1, <2>3, QuietSame DEF Found, rows
    <3>5. Reading(c)'
      <4>1. m \in Messages(k)'
        BY <1>2, <2>1, QuietSame
      <4> QED
        BY <2>3, <3>4, <4>1 DEF Reading
    <3>6. Counted(c)'
      <4>1. m > conversation[k].cursor[u]
        BY <1>2, <1>4, CallTypes, RowTypes DEF Found, IInv
      <4>2. Unread(u, k, m)' = Unread(u, k, m) /\ conversation' = conversation
        BY <2>1, QuietSame DEF rows
      <4> QED
        BY <2>1, <2>3, <4>1, <4>2 DEF Counted
    <3>7. /\ Targeted(c)' /\ KeyHeld(c)' /\ Numbered(c)' /\ Stored(c)' /\ Answered(c)'
      BY <2>3, <3>1 DEF Targeted, KeyHeld, Numbered, Stored, Answered
    <3>8. LockOrder(c)'
      <4>1. \A j \in ConversationIds, v \in Users :
              <<"participant", j, v>> \in Rows /\ <<"conversation", j>> \in Rows
        BY DEF Rows
      <4> QED
        BY <2>3, <2>4, <4>1 DEF IInv, CallOK, LockOrder
    <3> QED
      BY <3>1, <3>2, <3>3, <3>5, <3>6, <3>7, <3>8 DEF CallOK
  <2>6. ~ HasMessage(c)'
    BY <2>3, <1>1, <2>1 DEF HasMessage, Inserting
  <2>7. UNCHANGED <<rows, pushed, input>> /\ nextId' = nextId /\ "commit" \in Statements
    BY <2>1 DEF Statements
  <2> QED
    BY <1>1, <2>1, <2>3, <2>4, <2>5, <2>6, <2>7, QuietKeeps
<1> QED
  BY <1>3, <1>4

-----------------------------------------------------------------------------
\* Two calls that hold their conversations do not share one.
LEMMA ConversationsApart ==
  ASSUME IInv, NEW c \in Calls, NEW d \in Calls \ {c},
         Holds(c, ConversationLock(c), "X"), Holds(d, ConversationLock(d), "X")
  PROVE  draft[d].conversation # draft[c].conversation
BY LockRows DEF IInv, Exclusive, ConversationLock

\* A commit releases the locks of c.
LEMMA CommitFrame ==
  ASSUME IInv, NEW c \in Calls, pc[c] = "commit", NEW label \in Statements \cup Outcomes,
         Goto(c, label), ReleaseLocks(c), UNCHANGED <<draft, input>>
  PROVE  /\ Frame(c)
         /\ pc' \in [Calls -> Statements \cup Outcomes]
         /\ pc'[c] = label
         /\ \A d \in Calls \ {c} : pc'[d] = pc[d]
         /\ LocksTypeOK' /\ Exclusive'
         /\ HoldsNothing(c)'
<1>1. /\ pc' \in [Calls -> Statements \cup Outcomes]
      /\ pc'[c] = label
      /\ \A d \in Calls \ {c} : pc'[d] = pc[d]
  BY DEF IInv, TypeOK, Goto
<1>2. /\ LocksTypeOK' /\ Exclusive'
      /\ \A d \in Calls, q \in Rows, m \in {"S", "X"} : Holds(d, q, m)' <=> Holds(d, q, m) /\ d # c
  BY Released DEF IInv
<1>3. Frame(c)
  BY <1>1, <1>2 DEF Frame
<1>4. HoldsNothing(c)'
  BY <1>2 DEF HoldsNothing
<1> QED
  BY <1>1, <1>2, <1>3, <1>4

\* What is left of a reader's transaction after its commit.
LEMMA CommitMarkKeeps ==
  ASSUME IInv, NEW c \in Calls, CommitMark(c), UNCHANGED input
  PROVE  /\ IInv'
         /\ \A k \in Existing, u \in Users :
              conversation'[k].cursor[u] >= conversation[k].cursor[u]
<1> DEFINE k == draft[c].conversation
           u == input[c].from
           m == draft[c].message
<1>1. /\ pc[c] = "commit" /\ input[c].kind = "read"
      /\ conversation' = [conversation EXCEPT ![k] = Marked(c)]
      /\ Goto(c, "marked") /\ ReleaseLocks(c)
      /\ UNCHANGED <<message, nextId, pushed, draft, input>>
  BY DEF CommitMark
<1>2. /\ Found(c) /\ m \in Messages(k) /\ Holds(c, ConversationLock(c), "X")
      /\ m > conversation[k].cursor[u] /\ draft[c].unread = Unread(u, k, m)
  BY <1>1 DEF IInv, CallOK, Reading, Reads, ConversationHeld, Counted, Sending
<1>3. /\ Frame(c)
      /\ pc' \in [Calls -> Statements \cup Outcomes]
      /\ pc'[c] = "marked"
      /\ \A d \in Calls \ {c} : pc'[d] = pc[d]
      /\ LocksTypeOK' /\ Exclusive'
      /\ HoldsNothing(c)'
  <2>1. "marked" \in Statements \cup Outcomes
    BY DEF Outcomes
  <2> QED
    BY <1>1, <2>1, CommitFrame
<1>4. /\ k \in ConversationIds /\ conversation[k] \in ConversationRow /\ k \in Existing
      /\ u \in Users /\ m \in Nat /\ draft[c].unread \in Nat
  BY <1>2, RowTypes, CallTypes DEF Found, IInv
<1>5. /\ conversation'[k] = Marked(c) /\ Marked(c) \in ConversationRow
      /\ Marked(c).users = conversation[k].users /\ Marked(c).last = conversation[k].last
      /\ Marked(c).cursor[u] = m /\ Marked(c).unread[u] = draft[c].unread
      /\ \A v \in Users \ {u} : /\ Marked(c).cursor[v] = conversation[k].cursor[v]
                                /\ Marked(c).unread[v] = conversation[k].unread[v]
      /\ \A j \in ConversationIds \ {k} : conversation'[j] = conversation[j]
  BY <1>1, <1>4 DEF IInv, TypeOK, Marked, ConversationRow
<1>6. Existing' = Existing
  <2>1. Marked(c) # NoConversation
    BY <1>4, <1>5, RowTypes DEF NoConversation
  <2> QED
    BY <1>4, <1>5, <2>1 DEF Existing
<1>7. /\ \A j : Messages(j)' = Messages(j)
      /\ \A v, j, n : Unread(v, j, n)' = Unread(v, j, n)
      /\ message' = message
  BY <1>1 DEF Messages, Unread
<1>8. \A j \in ConversationIds : conversation'[j].users = conversation[j].users
  BY <1>5
<1>9. Kept
  BY <1>1, <1>6, <1>8 DEF Kept, IInv, TypeOK, Existing
<1>10. ASSUME NEW d \in Calls \ {c}
       PROVE  Spares(d)
  <2>1. /\ draft'[d] = draft[d] /\ draft[d].conversation \in ConversationIds
    BY <1>1, CallTypes DEF IInv
  <2>2. Between(Pair(d))' = Between(Pair(d)) /\ SameKey(d)' = SameKey(d)
    BY <1>1, <1>8 DEF Between, Pair, SameKey
  <2>3. Holds(d, ConversationLock(d), "X") => draft[d].conversation # k
    BY <1>2, ConversationsApart
  <2>4. Inserting(d) => draft[d].message \notin DOMAIN message'
    BY <1>7 DEF IInv, CallOK, Numbered
  <2> QED
    BY <1>5, <1>6, <1>7, <2>1, <2>2, <2>3, <2>4 DEF Spares, Creates
<1>11. \A d \in Calls \ {c} : CallOK(d)'
  BY <1>3, <1>9, <1>10, OthersKeep
<1>12. CallOK(c)'
  <2>1. /\ KindOK(c)' /\ ~ Inserting(c)' /\ ~ Reads(c)'
    BY <1>1, <1>3 DEF KindOK, SendOnly, Inserting, Reads
  <2>2. Named(c)'
    BY <1>1, <1>6 DEF IInv, CallOK, Named
  <2>3. /\ Targeted(c)' /\ ConversationHeld(c)' /\ KeyHeld(c)' /\ Numbered(c)'
        /\ Stored(c)' /\ Answered(c)' /\ Reading(c)' /\ Counted(c)'
    BY <1>3, <2>1 DEF Targeted, ConversationHeld, KeyHeld, Numbered, Stored, Answered, Reading,
       Counted, Sending
  <2>4. LockOrder(c)'
    <3>1. \A j \in ConversationIds, v \in Users : <<"participant", j, v>> \in Rows
      BY DEF Rows
    <3> QED
      BY <1>3, <3>1 DEF LockOrder, HoldsNothing
  <2> QED
    BY <2>1, <2>2, <2>3, <2>4 DEF CallOK
<1>13. TypeOK'
  <2>1. conversation' \in [ConversationIds -> ConversationRow \cup {NoConversation}]
    BY <1>1, <1>5 DEF IInv, TypeOK
  <2> QED
    BY <1>1, <1>3, <2>1 DEF IInv, TypeOK
<1>14. MessagesOK'
  BY <1>6, <1>7, <1>8, <1>9 DEF IInv, MessagesOK, Existing
<1>15. ConversationsOK'
  <2>1. ASSUME NEW j \in Existing, j = k
        PROVE  RowOK(j)'
    <3>1. RowOK(k) /\ conversation[k].users \subseteq Users
      BY <1>4, RowTypes DEF IInv, ConversationsOK
    <3>2. m <= conversation[k].last
      BY <1>2, <3>1 DEF RowOK
    <3>3. Messages(j)' = Messages(k) /\ \A v, n : Unread(v, j, n)' = Unread(v, k, n)
      BY <1>7, <2>1
    <3>4. /\ conversation'[k].users = conversation[k].users
          /\ conversation'[k].last = conversation[k].last
          /\ conversation'[k].cursor[u] = m /\ conversation'[k].unread[u] = Unread(u, k, m)
          /\ \A v \in Users \ {u} : /\ conversation'[k].cursor[v] = conversation[k].cursor[v]
                                   /\ conversation'[k].unread[v] = conversation[k].unread[v]
      BY <1>2, <1>5
    <3>5. \A v \in Users : conversation'[k].cursor[v] <= conversation[k].last
      BY <3>1, <3>2, <3>4 DEF RowOK
    <3>6. \A v \in conversation[k].users :
            conversation'[k].unread[v] = Unread(v, k, conversation'[k].cursor[v])
      BY <3>1, <3>4 DEF RowOK
    <3>7. /\ \E v, w \in Users : v # w /\ conversation'[j].users = {v, w}
          /\ conversation'[j].last \in Messages(j)'
          /\ \A n \in Messages(j)' : n <= conversation'[j].last
      BY <2>1, <3>1, <3>3, <3>4 DEF RowOK
    <3>8. \A v \in Users : conversation'[j].cursor[v] <= conversation'[j].last
      BY <2>1, <3>4, <3>5
    <3>9. \A v \in conversation'[j].users :
            conversation'[j].unread[v] = Unread(v, j, conversation[j].cursor[v])'
      BY <2>1, <3>3, <3>4, <3>6
    <3> QED
      BY <3>7, <3>8, <3>9 DEF RowOK
  <2>2. \A j \in Existing \ {k} : RowOK(j)'
    BY <1>5, <1>7 DEF IInv, ConversationsOK, RowOK, Existing
  <2> QED
    <3>1. \A j \in Existing : RowOK(j)'
      BY <2>1, <2>2
    <3> QED
      BY <1>6, <1>8, <3>1 DEF IInv, ConversationsOK, Existing
<1>16. Apart'
  BY <1>1, <1>3 DEF IInv, Apart, HasMessage, Inserting, Sending
<1>17. PushedOK'
  BY <1>1, <1>3 DEF IInv, PushedOK
<1>18. \A j \in Existing, v \in Users : conversation'[j].cursor[v] >= conversation[j].cursor[v]
  <2> TAKE j \in Existing, v \in Users
  <2>1. conversation[j].cursor[v] \in Nat /\ j \in ConversationIds
    BY RowTypes
  <2> QED
    BY <1>2, <1>4, <1>5, <2>1
<1>19. \A d \in Calls : CallOK(d)'
  BY <1>11, <1>12
<1> QED
  BY <1>3, <1>13, <1>14, <1>15, <1>16, <1>17, <1>18, <1>19 DEF IInv

-----------------------------------------------------------------------------
\* Whose rows a message was inserted by, it commits as the newest message of a
\* conversation of its two users.
LEMMA SentRow ==
  ASSUME IInv, NEW c \in Calls, Inserting(c)
  PROVE  LET k == draft[c].conversation
             fresh == conversation[k] = NoConversation
         IN  /\ Sent(c) \in ConversationRow
             /\ Sent(c).users = Pair(c)
             /\ Sent(c).last = draft[c].message
             /\ \A u \in Users : Sent(c).cursor[u] = IF fresh THEN 0 ELSE conversation[k].cursor[u]
             /\ \A u \in Users :
                  Sent(c).unread[u] = (IF fresh THEN 0 ELSE conversation[k].unread[u])
                                        + (IF u = input[c].to THEN 1 ELSE 0)
<1> DEFINE k == draft[c].conversation
           to == input[c].to
           row == IF conversation[k] = NoConversation THEN NewConversation(Pair(c))
                  ELSE conversation[k]
<1>1. /\ k \in ConversationIds /\ to \in Users /\ input[c].from \in Users
      /\ draft[c].message \in Nat
  BY CallTypes DEF IInv
<1>2. Found(c) \/ Creates(c)
  BY DEF IInv, CallOK, Targeted
<1>3. /\ row \in ConversationRow /\ row.users = Pair(c)
      /\ conversation[k] = NoConversation => \A u \in Users : row.cursor[u] = 0 /\ row.unread[u] = 0
      /\ conversation[k] # NoConversation => row = conversation[k]
  <2>1. CASE conversation[k] = NoConversation
    <3>1. Pair(c) \subseteq Users
      BY <1>1 DEF Pair
    <3> QED
      BY <2>1, <3>1 DEF NewConversation, ConversationRow
  <2>2. CASE conversation[k] # NoConversation
    <3>1. conversation[k] \in ConversationRow
      BY <1>1, <2>2 DEF IInv, TypeOK
    <3>2. conversation[k].users = Pair(c)
      BY <1>1, <1>2, <2>2 DEF Found, Creates, Existing
    <3> QED
      BY <2>2, <3>1, <3>2
  <2> QED
    BY <2>1, <2>2
<1>4. Sent(c) = [row EXCEPT !.last = draft[c].message, !.unread[to] = @ + 1]
  BY DEF Sent
<1> HIDE DEF row
<1>5. /\ Sent(c) \in ConversationRow
      /\ Sent(c).users = Pair(c) /\ Sent(c).last = draft[c].message
      /\ \A u \in Users : /\ Sent(c).cursor[u] = row.cursor[u]
                          /\ Sent(c).unread[u] = row.unread[u] + (IF u = to THEN 1 ELSE 0)
  <2> DEFINE unread == [row.unread EXCEPT ![to] = @ + 1]
  <2>1. /\ row.users \in SUBSET Users /\ row.last \in Nat
        /\ row.cursor \in [Users -> Nat] /\ row.unread \in [Users -> Nat]
    BY <1>3 DEF ConversationRow
  <2>2. /\ unread \in [Users -> Nat]
        /\ \A u \in Users : unread[u] = row.unread[u] + (IF u = to THEN 1 ELSE 0)
    BY <1>1, <2>1
  <2>3. Sent(c) = [users |-> row.users, last |-> draft[c].message, cursor |-> row.cursor,
                   unread |-> unread]
    BY <1>3, <1>4 DEF ConversationRow
  <2> QED
    BY <1>1, <1>3, <2>1, <2>2, <2>3 DEF ConversationRow
<1>6. /\ \A u \in Users : row.cursor[u] = IF conversation[k] = NoConversation THEN 0
                                         ELSE conversation[k].cursor[u]
      /\ \A u \in Users : row.unread[u] = IF conversation[k] = NoConversation THEN 0
                                         ELSE conversation[k].unread[u]
  BY <1>3
<1> QED
  BY <1>5, <1>6

\* What a commit of a message does to the rows.
LEMMA SendRows ==
  ASSUME IInv, NEW c \in Calls, CommitSend(c), UNCHANGED input
  PROVE  LET k == draft[c].conversation
             m == draft[c].message
         IN  /\ Inserting(c) /\ UNCHANGED draft
             /\ DOMAIN message' = DOMAIN message \cup {m} /\ m \notin DOMAIN message
             /\ message'[m] = MessageOf(c) /\ MessageOf(c) \in MessageRow
             /\ \A n \in DOMAIN message : message'[n] = message[n]
             /\ conversation'[k] = Sent(c)
             /\ \A j \in ConversationIds \ {k} : conversation'[j] = conversation[j]
             /\ Existing' = Existing \cup {k}
             /\ \A j : Messages(j)' = IF j = k THEN Messages(j) \cup {m} ELSE Messages(j)
<1> DEFINE k == draft[c].conversation
           m == draft[c].message
<1>1. /\ Inserting(c)
      /\ message' = [n \in DOMAIN message \cup {m} |-> IF n = m THEN MessageOf(c) ELSE message[n]]
      /\ conversation' = [conversation EXCEPT ![k] = Sent(c)]
      /\ draft' = draft
  BY DEF CommitSend, Inserting, Sending
<1>2. m \notin DOMAIN message /\ k \in ConversationIds
  BY <1>1, CallTypes DEF IInv, CallOK, Numbered
<1>3. /\ DOMAIN message' = DOMAIN message \cup {m}
      /\ message'[m] = MessageOf(c)
      /\ \A n \in DOMAIN message : message'[n] = message[n]
  BY <1>1, <1>2
<1>4. /\ conversation'[k] = Sent(c)
      /\ \A j \in ConversationIds \ {k} : conversation'[j] = conversation[j]
  BY <1>1, <1>2 DEF IInv, TypeOK
<1>5. MessageOf(c) \in MessageRow /\ MessageOf(c).conversation = k
  BY <1>1, <1>2, CallTypes DEF IInv, Inserting, MessageOf, MessageRow
<1>6. Existing' = Existing \cup {k}
  <2>1. Sent(c) # NoConversation
    BY <1>1, SentRow DEF NoConversation, Pair
  <2> QED
    BY <1>2, <1>4, <2>1 DEF Existing
<1>7. \A j : Messages(j)' = IF j = k THEN Messages(j) \cup {m} ELSE Messages(j)
  <2>1. \A n \in DOMAIN message' : message'[n].conversation = IF n = m THEN k ELSE message[n].conversation
    BY <1>2, <1>3, <1>5
  <2> TAKE j
  <2>2. Messages(j)' = {n \in DOMAIN message' : message'[n].conversation = j}
    BY DEF Messages
  <2> QED
    BY <1>2, <1>3, <2>1, <2>2 DEF Messages
<1> QED
  BY <1>1, <1>2, <1>3, <1>4, <1>5, <1>6, <1>7

\* A new conversation has no message yet.
LEMMA FreshIsEmpty ==
  ASSUME IInv, NEW k \in ConversationIds \ Existing
  PROVE  Messages(k) = {}
BY DEF IInv, MessagesOK, Messages

\* A new message is counted for its receiver.
LEMMA UnreadAfter ==
  ASSUME IInv, NEW c \in Calls, CommitSend(c), UNCHANGED input,
         NEW k, k = draft[c].conversation, NEW u \in Pair(c), NEW n \in Nat, n < draft[c].message
  PROVE  Unread(u, k, n)' = Unread(u, k, n) + (IF u = input[c].to THEN 1 ELSE 0)
<1> DEFINE m == draft[c].message
           S == {i \in Messages(k) : i > n /\ message[i].sender # u}
<1>1. /\ Messages(k)' = Messages(k) \cup {m} /\ m \notin DOMAIN message
      /\ message'[m].sender = input[c].from
      /\ \A i \in DOMAIN message : message'[i] = message[i]
  <2>1. Messages(k)' = IF k = draft[c].conversation THEN Messages(k) \cup {m} ELSE Messages(k)
    BY SendRows
  <2>2. m \notin DOMAIN message /\ message'[m] = MessageOf(c)
    BY SendRows
  <2>3. \A i \in DOMAIN message : message'[i] = message[i]
    BY SendRows
  <2> QED
    BY <2>1, <2>2, <2>3 DEF MessageOf
<1>2. /\ u \in {input[c].from, input[c].to} /\ input[c].from # input[c].to
      /\ m \in Nat
  BY CallTypes DEF IInv, Pair
<1>3. \A i \in Messages(k) : i \in DOMAIN message /\ message'[i] = message[i]
  BY <1>1 DEF Messages
<1>4. Unread(u, k, n)' = Cardinality(IF u = input[c].to THEN S \cup {m} ELSE S)
  <2>1. {i \in Messages(k)' : i > n /\ message'[i].sender # u}
          = IF u = input[c].to THEN S \cup {m} ELSE S
    BY <1>1, <1>2, <1>3
  <2> QED
    BY <2>1 DEF Unread
<1>5. IsFiniteSet(S) /\ m \notin S
  <2>1. S \subseteq DOMAIN message
    BY DEF Messages
  <2>2. nextId - 1 \in Nat /\ DOMAIN message \subseteq 1..(nextId - 1)
    BY DEF IInv, TypeOK
  <2>3. IsFiniteSet(DOMAIN message)
    BY <2>2, FiniteMessages
  <2> QED
    BY <1>1, <2>1, <2>3, FS_Subset
<1>6. /\ Cardinality(S) \in Nat
      /\ Cardinality(S \cup {m}) = Cardinality(S) + 1
  BY <1>5, FS_AddElement, FS_CardinalityType
<1> QED
  BY <1>4, <1>6 DEF Unread

\* A commit of a message keeps the others where they are: their conversations,
\* keys and users are not those of c.
LEMMA SendSpares ==
  ASSUME IInv, NEW c \in Calls, CommitSend(c), UNCHANGED input
  PROVE  /\ Kept
         /\ \A d \in Calls \ {c} : Spares(d)
<1> DEFINE k == draft[c].conversation
           m == draft[c].message
<1>1. /\ Inserting(c) /\ draft' = draft
      /\ DOMAIN message' = DOMAIN message \cup {m} /\ m \notin DOMAIN message
      /\ message'[m] = MessageOf(c)
      /\ \A n \in DOMAIN message : message'[n] = message[n]
      /\ conversation'[k] = Sent(c)
      /\ \A j \in ConversationIds \ {k} : conversation'[j] = conversation[j]
      /\ Existing' = Existing \cup {k}
      /\ nextId' = nextId
  BY SendRows DEF CommitSend
<1>2. \A j : Messages(j)' = IF j = k THEN Messages(j) \cup {m} ELSE Messages(j)
  BY SendRows
<1>3. Found(c) \/ Creates(c)
  BY <1>1 DEF IInv, CallOK, Targeted
<1>4. Sent(c).users = Pair(c) /\ k \in ConversationIds
  BY <1>1, SentRow, CallTypes DEF IInv
<1>5. Holds(c, ConversationLock(c), "X") /\ Holds(c, KeyLock(c), "X") /\ input[c].kind = "send"
  BY <1>1 DEF IInv, CallOK, ConversationHeld, KeyHeld, Inserting
<1>6. \A j \in Existing : conversation'[j].users = conversation[j].users
  BY <1>1, <1>3, <1>4 DEF Existing, Found, Creates
<1>7. Kept
  BY <1>1, <1>6 DEF Kept, IInv, TypeOK
<1>8. ASSUME NEW d \in Calls \ {c}
      PROVE  Spares(d)
  <2>1. draft'[d] = draft[d] /\ input' = input /\ draft[d].conversation \in ConversationIds
    BY <1>1, CallTypes DEF IInv
  <2>2. d \in Existing' => d \in Existing
    BY <1>1, <1>3 DEF Found, Creates
  <2>3. ASSUME Creates(d)
        PROVE  d \notin Existing' /\ Between(Pair(d))' = {}
    <3>1. Pair(d)' = Pair(d)
      BY DEF Pair
    <3>2. ASSUME NEW j \in ConversationIds, Pair(d) \subseteq conversation'[j].users
          PROVE  FALSE
      <4>1. ~ (Pair(d) \subseteq conversation[j].users)
        BY <2>3 DEF Creates, Between
      <4>2. j = k /\ Creates(c) /\ Pair(d) \subseteq Pair(c)
        BY <1>1, <1>3, <1>4, <3>2, <4>1 DEF Found
      <4>3. PICK u \in Pair(d) : u \in Pair(c)
        BY <4>2 DEF Pair
      <4>4. Holds(c, UserLock(u), "X") /\ Holds(d, UserLock(u), "X") /\ UserLock(u) \in Rows
        BY <2>3, <4>2, <4>3, LockRows DEF Creates, IInv
      <4> QED
        BY <4>4 DEF IInv, Exclusive
    <3> QED
      BY <2>2, <2>3, <3>1, <3>2 DEF Creates, Between
  <2>4. ASSUME Holds(d, ConversationLock(d), "X")
        PROVE  /\ conversation'[draft[d].conversation] = conversation[draft[d].conversation]
               /\ Messages(draft[d].conversation)' = Messages(draft[d].conversation)
    <3>1. draft[d].conversation # k
      BY <1>5, <2>4, ConversationsApart
    <3> QED
      BY <1>1, <1>2, <2>1, <3>1
  <2>5. ASSUME Inserting(d)
        PROVE  SameKey(d)' = SameKey(d) /\ draft[d].message \notin DOMAIN message'
    <3>1. draft[d].message # m
      BY <1>1, <2>5 DEF IInv, Apart, HasMessage
    <3>2. draft[d].message \notin DOMAIN message
      BY <2>5 DEF IInv, CallOK, Numbered
    <3>3. Holds(d, KeyLock(d), "X") /\ input[d].kind = "send"
      BY <2>5 DEF IInv, CallOK, KeyHeld, Inserting
    <3>4. KeyLock(d) # KeyLock(c)
      BY <1>5, <3>3, LockRows DEF IInv, Exclusive
    <3>5. ~ (MessageOf(c).sender = input[d].from /\ MessageOf(c).client = input[d].client)
      BY <3>4 DEF KeyLock, MessageOf
    <3>6. SameKey(d)' = SameKey(d)
      BY <1>1, <2>1, <3>5 DEF SameKey
    <3> QED
      BY <1>1, <3>1, <3>2, <3>6
  <2> QED
    BY <2>2, <2>3, <2>4, <2>5 DEF Spares
<1> QED
  BY <1>7, <1>8

LEMMA CommitSendKeeps ==
  ASSUME IInv, NEW c \in Calls, CommitSend(c), UNCHANGED input
  PROVE  /\ IInv'
         /\ \A k \in Existing, u \in Users :
              conversation'[k].cursor[u] >= conversation[k].cursor[u]
<1> DEFINE k == draft[c].conversation
           m == draft[c].message
<1>1. /\ Inserting(c) /\ draft' = draft
      /\ DOMAIN message' = DOMAIN message \cup {m} /\ m \notin DOMAIN message
      /\ message'[m] = MessageOf(c) /\ MessageOf(c) \in MessageRow
      /\ \A n \in DOMAIN message : message'[n] = message[n]
      /\ conversation'[k] = Sent(c)
      /\ \A j \in ConversationIds \ {k} : conversation'[j] = conversation[j]
      /\ Existing' = Existing \cup {k}
  BY SendRows
<1>2. /\ pc[c] = "commit" /\ Goto(c, "push") /\ ReleaseLocks(c)
      /\ conversation' = [conversation EXCEPT ![k] = Sent(c)]
      /\ UNCHANGED <<nextId, pushed, draft, input>>
  BY DEF CommitSend
<1>3. \A j : Messages(j)' = IF j = k THEN Messages(j) \cup {m} ELSE Messages(j)
  BY SendRows
<1>4. Found(c) \/ Creates(c)
  BY <1>1 DEF IInv, CallOK, Targeted
<1>5. /\ k \in ConversationIds /\ Sent(c) \in ConversationRow
      /\ Sent(c).users = Pair(c) /\ Sent(c).last = m
      /\ m \in 1..(nextId - 1)
      /\ \A n \in Messages(k) : n < m
      /\ SameKey(c) = {}
  BY <1>1, SentRow, CallTypes DEF IInv, CallOK, Numbered, KeyHeld
<1>6. /\ \A u \in Users : Sent(c).cursor[u] = IF k \in Existing THEN conversation[k].cursor[u] ELSE 0
      /\ \A u \in Users : Sent(c).unread[u] = (IF k \in Existing THEN conversation[k].unread[u] ELSE 0)
                                               + (IF u = input[c].to THEN 1 ELSE 0)
  BY <1>1, <1>5, SentRow DEF Existing
<1>7. /\ Frame(c)
      /\ pc' \in [Calls -> Statements \cup Outcomes]
      /\ pc'[c] = "push"
      /\ \A d \in Calls \ {c} : pc'[d] = pc[d]
      /\ LocksTypeOK' /\ Exclusive'
      /\ HoldsNothing(c)'
  <2>1. "push" \in Statements \cup Outcomes
    BY DEF Statements
  <2> QED
    BY <1>2, <2>1, CommitFrame
<1>8. Kept /\ \A d \in Calls \ {c} : CallOK(d)'
  BY <1>7, SendSpares, OthersKeep
<1>9. CallOK(c)'
  <2>1. /\ KindOK(c)' /\ ~ Inserting(c)' /\ ~ Reads(c)'
    BY <1>1, <1>2, <1>7 DEF KindOK, ReadOnly, Inserting, Reads, Sending
  <2>2. Stored(c)'
    <3>1. m \in SameKey(c)'
      BY <1>1, <1>2 DEF SameKey, MessageOf
    <3>2. /\ message'[m].text = input[c].text /\ message'[m].conversation = k
      BY <1>1 DEF MessageOf
    <3>3. Pair(c)' = Pair(c)
      BY <1>2 DEF Pair
    <3> QED
      BY <1>1, <1>2, <1>5, <3>1, <3>2, <3>3 DEF Stored, Own
  <2>3. /\ Named(c)' /\ Targeted(c)' /\ ConversationHeld(c)' /\ KeyHeld(c)' /\ Numbered(c)'
        /\ Answered(c)' /\ Reading(c)' /\ Counted(c)'
    BY <1>7, <2>1 DEF Named, Targeted, ConversationHeld, KeyHeld, Numbered, Answered, Reading,
       Counted, Sending
  <2>4. LockOrder(c)'
    <3>1. \A j \in ConversationIds, v \in Users : <<"participant", j, v>> \in Rows
      BY DEF Rows
    <3> QED
      BY <1>7, <3>1 DEF LockOrder, HoldsNothing
  <2> QED
    BY <2>1, <2>2, <2>3, <2>4 DEF CallOK
<1>10. TypeOK'
  <2>1. conversation' \in [ConversationIds -> ConversationRow \cup {NoConversation}]
    BY <1>2, <1>5 DEF IInv, TypeOK
  <2> QED
    BY <1>1, <1>2, <1>5, <1>7, <2>1 DEF IInv, TypeOK
<1>11. MessagesOK'
  <2>1. ASSUME NEW n \in DOMAIN message'
        PROVE  /\ message'[n].conversation \in Existing'
               /\ message'[n].sender \in conversation'[message'[n].conversation].users
    <3>1. CASE n = m
      BY <1>1, <1>5, <3>1 DEF MessageOf, Pair
    <3>2. CASE n \in DOMAIN message
      BY <1>1, <1>8, <3>2 DEF IInv, MessagesOK, Kept
    <3> QED
      BY <1>1, <3>1, <3>2
  <2>2. ASSUME NEW n \in DOMAIN message', NEW i \in DOMAIN message',
               message'[n].sender = message'[i].sender, message'[n].client = message'[i].client
        PROVE  n = i
    <3>1. \A j \in DOMAIN message :
            ~ (message[j].sender = MessageOf(c).sender /\ message[j].client = MessageOf(c).client)
      BY <1>5 DEF SameKey, MessageOf
    <3> QED
      BY <1>1, <2>2, <3>1 DEF IInv, MessagesOK
  <2> QED
    BY <2>1, <2>2 DEF MessagesOK
<1>12. \A j \in Existing, u \in Users : conversation'[j].cursor[u] >= conversation[j].cursor[u]
  <2> TAKE j \in Existing, u \in Users
  <2>1. conversation[j].cursor[u] \in Nat /\ j \in ConversationIds
    BY RowTypes
  <2> QED
    BY <1>1, <1>6, <2>1
<1>13. ConversationsOK'
  <2>1. ASSUME NEW j, j = k
        PROVE  RowOK(j)'
    <3>1. j \in ConversationIds /\ conversation'[j] = Sent(c) /\ Messages(j)' = Messages(j) \cup {m}
      BY <1>1, <1>3, <1>5, <2>1
    <3>2. j \in Existing => RowOK(j) /\ conversation[j].last \in Nat /\ conversation[j].users = Pair(c)
      BY <1>4, <2>1, RowTypes DEF IInv, ConversationsOK, Found, Creates
    <3>3. \E u, v \in Users : u # v /\ conversation'[j].users = {u, v}
      BY <1>5, <3>1, CallTypes DEF Pair, IInv
    <3>4. /\ conversation'[j].last \in Messages(j)'
          /\ \A n \in Messages(j)' : n <= conversation'[j].last
      <4>1. \A n \in Messages(j) : n \in Nat /\ n < m
        BY <1>5, <2>1 DEF Messages, IInv, TypeOK
      <4>2. m \in Nat /\ conversation'[j].last = m
        BY <1>5, <3>1
      <4> QED
        BY <3>1, <4>1, <4>2
    <3>5. \A u \in Users : Sent(c).cursor[u] \in Nat /\ Sent(c).cursor[u] < m
      <4> TAKE u \in Users
      <4>1. CASE j \in Existing
        <5>1. conversation[j].cursor[u] \in Nat /\ conversation[j].cursor[u] <= conversation[j].last
          BY <3>2, <4>1, RowTypes DEF RowOK
        <5>2. conversation[j].last < m
          BY <1>5, <2>1, <3>2, <4>1 DEF RowOK
        <5> QED
          BY <1>6, <1>5, <2>1, <3>2, <4>1, <5>1, <5>2
      <4>2. CASE j \notin Existing
        BY <1>5, <1>6, <2>1, <4>2
      <4> QED
        BY <4>1, <4>2
    <3>6. ASSUME NEW u \in Pair(c), NEW n, n = Sent(c).cursor[u]
          PROVE  Sent(c).unread[u] = Unread(u, j, n)'
      <4>1. u \in Users
        BY CallTypes DEF Pair, IInv
      <4>2. \A i \in Nat : i < m =>
              Unread(u, j, i)' = Unread(u, j, i) + (IF u = input[c].to THEN 1 ELSE 0)
        BY <2>1, UnreadAfter
      <4>3. Unread(u, j, n) = IF j \in Existing THEN conversation[j].unread[u] ELSE 0
        <5>1. CASE j \in Existing
          BY <1>6, <2>1, <3>2, <3>6, <4>1, <5>1 DEF RowOK
        <5>2. CASE j \notin Existing
          <6>1. Messages(j) = {}
            BY <3>1, <5>2, FreshIsEmpty
          <6>2. {i \in Messages(j) : i > n /\ message[i].sender # u} = {}
            BY <6>1
          <6> QED
            BY <5>2, <6>2, FS_EmptySet DEF Unread
        <5> QED
          BY <5>1, <5>2
      <4> QED
        BY <1>6, <2>1, <3>5, <3>6, <4>1, <4>2, <4>3
    <3>7. \A u \in conversation'[j].users :
            conversation'[j].unread[u] = Unread(u, j, conversation[j].cursor[u])'
      BY <1>5, <3>1, <3>6
    <3>8. \A u \in Users : conversation'[j].cursor[u] <= conversation'[j].last
      BY <1>5, <3>1, <3>5
    <3> QED
      BY <3>3, <3>4, <3>7, <3>8 DEF RowOK
  <2>2. ASSUME NEW j \in Existing \ {k}
        PROVE  RowOK(j)'
    <3>1. RowOK(j) /\ conversation'[j] = conversation[j] /\ Messages(j)' = Messages(j)
      BY <1>1, <1>3, RowTypes DEF IInv, ConversationsOK
    <3>2. \A u, n : Unread(u, j, n)' = Unread(u, j, n)
      <4>1. \A i \in Messages(j) : message'[i] = message[i]
        BY <1>1 DEF Messages
      <4> QED
        BY <3>1, <4>1 DEF Unread
    <3> QED
      BY <3>1, <3>2 DEF RowOK
  <2>3. \A j \in Existing' : RowOK(j)'
    BY <1>1, <2>1, <2>2
  <2>4. \A i, j \in Existing' : conversation'[i].users = conversation'[j].users => i = j
    <3>1. \A j \in Existing \ {k} : conversation'[j].users # Pair(c)
      <4> TAKE j \in Existing \ {k}
      <4>1. conversation'[j].users = conversation[j].users
        BY <1>8 DEF Kept
      <4>2. CASE Found(c)
        BY <4>1, <4>2 DEF Found, IInv, ConversationsOK
      <4>3. CASE Creates(c)
        BY <4>1, <4>3, BetweenIs DEF Creates
      <4> QED
        BY <1>4, <4>2, <4>3
    <3>2. \A i, j \in Existing \ {k} : conversation'[i].users = conversation'[j].users => i = j
      BY <1>8 DEF IInv, ConversationsOK, Kept
    <3> QED
      BY <1>1, <1>5, <3>1, <3>2
  <2> QED
    BY <2>3, <2>4 DEF ConversationsOK
<1>14. Apart'
  BY <1>1, <1>7, <1>2 DEF IInv, Apart, HasMessage, Inserting, Sending
<1>15. PushedOK'
  BY <1>2, <1>7 DEF IInv, PushedOK
<1>16. \A d \in Calls : CallOK(d)'
  BY <1>8, <1>9
<1> QED
  BY <1>7, <1>10, <1>11, <1>12, <1>13, <1>14, <1>15, <1>16 DEF IInv

-----------------------------------------------------------------------------
\* The receiver is told of a message that nobody else has told him.
LEMMA PushKeeps ==
  ASSUME IInv, NEW c \in Calls, Push(c), UNCHANGED input
  PROVE  IInv'
<1> DEFINE to == input[c].to
           m == draft[c].message
<1>1. /\ pc[c] = "push" /\ pc' = [pc EXCEPT ![c] = "sent"]
      /\ pushed' = [pushed EXCEPT ![to] = Append(@, m)]
      /\ UNCHANGED <<message, conversation, nextId, draft, locks, input>>
  BY DEF Push, Goto, rows
<1>2. /\ pc' \in [Calls -> Statements \cup Outcomes]
      /\ pc'[c] = "sent"
      /\ \A d \in Calls \ {c} : pc'[d] = pc[d]
  BY <1>1 DEF IInv, TypeOK, Outcomes
<1>3. /\ LocksTypeOK' /\ Exclusive'
      /\ \A d \in Calls, q \in Rows, x \in {"S", "X"} : Holds(d, q, x)' <=> Holds(d, q, x)
  BY <1>1, StaysExclusive DEF IInv
<1>4. Frame(c)
  BY <1>1, <1>2, <1>3 DEF Frame
<1>5. UNCHANGED <<rows, input>> /\ UNCHANGED rows
  BY <1>1 DEF rows
<1>6. /\ \A d \in Calls \ {c} : CallOK(d)'
      /\ MessagesOK' /\ ConversationsOK'
  BY <1>1, <1>4, <1>5, QuietSpares DEF IInv, TypeOK
<1>7. CallOK(c)'
  <2>1. input[c].kind = "send"
    BY <1>1 DEF IInv, CallOK, KindOK, SendOnly
  <2>2. KindOK(c)' /\ ~ Inserting(c)' /\ ~ Reads(c)'
    BY <1>1, <1>2, <2>1 DEF KindOK, ReadOnly, Inserting, Reads, Sending
  <2>3. Stored(c)'
    <3>1. Own(c, m)
      BY <1>1 DEF IInv, CallOK, Stored
    <3>2. Own(c, m)'
      <4>1. \A i : Own(c, i)' <=> Own(c, i)
        BY <1>5, QuietSame
      <4> QED
        BY <1>1, <3>1, <4>1
    <3> QED
      BY <3>2 DEF Stored
  <2>4. /\ Named(c)' /\ Targeted(c)' /\ ConversationHeld(c)' /\ KeyHeld(c)' /\ Numbered(c)'
        /\ Answered(c)' /\ Reading(c)' /\ Counted(c)'
    BY <1>2, <2>2 DEF Named, Targeted, ConversationHeld, KeyHeld, Numbered, Answered, Reading,
       Counted, Sending
  <2>5. LockOrder(c)'
    <3>1. \A j \in ConversationIds, v \in Users :
            <<"participant", j, v>> \in Rows /\ <<"conversation", j>> \in Rows
      BY DEF Rows
    <3> QED
      BY <1>2, <1>3, <3>1 DEF IInv, CallOK, LockOrder
  <2> QED
    BY <2>2, <2>3, <2>4, <2>5 DEF CallOK
<1>8. /\ pushed \in [Users -> Seq(Nat)] /\ to \in Users /\ m \in Nat
  BY CallTypes DEF IInv, TypeOK
<1>9. /\ DOMAIN pushed'[to] = DOMAIN pushed[to] \cup {Len(pushed[to]) + 1}
      /\ \A i \in DOMAIN pushed[to] : pushed'[to][i] = pushed[to][i]
      /\ pushed'[to][Len(pushed[to]) + 1] = m
      /\ \A u \in Users \ {to} : pushed'[u] = pushed[u]
      /\ pushed' \in [Users -> Seq(Nat)]
  <2>1. pushed[to] \in Seq(Nat) /\ pushed'[to] = Append(pushed[to], m)
    BY <1>1, <1>8
  <2> QED
    BY <1>1, <1>8, <2>1
<1>10. TypeOK'
  BY <1>1, <1>2, <1>3, <1>9 DEF IInv, TypeOK
<1>11. Apart'
  BY <1>1, <1>2 DEF IInv, Apart, HasMessage, Inserting, Sending
<1>12. PushedOK'
  <2>1. \A d \in Calls : pc[d] = "sent" => d # c /\ pc'[d] = "sent"
    BY <1>1, <1>2
  <2>2. \A i \in DOMAIN pushed[to] : pushed[to][i] # m
    <3> SUFFICES ASSUME NEW i \in DOMAIN pushed[to], pushed[to][i] = m
                 PROVE  FALSE
      OBVIOUS
    <3>1. \A u \in Users : \A n \in DOMAIN pushed[u] : \E d \in Calls :
            pc[d] = "sent" /\ input[d].to = u /\ draft[d].message = pushed[u][n]
      BY DEF IInv, PushedOK
    <3>2. \E d \in Calls : pc[d] = "sent" /\ draft[d].message = pushed[to][i]
      BY <1>8, <3>1
    <3>3. PICK d \in Calls : pc[d] = "sent" /\ draft[d].message = m
      BY <3>2
    <3> QED
      BY <1>1, <2>1, <3>3 DEF IInv, Apart, HasMessage
  <2>3. ASSUME NEW u \in Users, NEW i \in DOMAIN pushed'[u]
        PROVE  \E d \in Calls : pc'[d] = "sent" /\ input[d].to = u /\ draft[d].message = pushed'[u][i]
    <3>1. CASE u = to /\ i = Len(pushed[to]) + 1
      BY <1>2, <1>9, <3>1
    <3>2. CASE ~ (u = to /\ i = Len(pushed[to]) + 1)
      <4>1. i \in DOMAIN pushed[u] /\ pushed'[u][i] = pushed[u][i]
        BY <1>9, <3>2
      <4> QED
        BY <2>1, <4>1 DEF IInv, PushedOK
    <3> QED
      BY <3>1, <3>2
  <2>4. ASSUME NEW u \in Users, NEW i \in DOMAIN pushed'[u], NEW j \in DOMAIN pushed'[u],
               pushed'[u][i] = pushed'[u][j]
        PROVE  i = j
    <3>1. CASE u # to
      BY <1>9, <2>4, <3>1 DEF IInv, PushedOK
    <3>2. CASE u = to
      <4>1. \A x, y \in DOMAIN pushed[to] : pushed[to][x] = pushed[to][y] => x = y
        BY <1>8 DEF IInv, PushedOK
      <4> QED
        BY <1>9, <2>2, <2>4, <3>2, <4>1
    <3> QED
      BY <3>1, <3>2
  <2> QED
    BY <1>1, <2>3, <2>4 DEF PushedOK
<1>13. \A d \in Calls : CallOK(d)'
  BY <1>6, <1>7
<1> QED
  BY <1>3, <1>6, <1>10, <1>11, <1>12, <1>13 DEF IInv

\* A call that waits is at a statement, and not at its push.
LEMMA AskingCalls ==
  ASSUME NEW c \in Calls, pc[c] \in {"push"} \cup Outcomes
  PROVE  Asking(c) = {}
BY DEF Asking, Outcomes

LEMMA VictimsWait ==
  ASSUME IInv, NEW W \in Waits, NEW c \in W
  PROVE  c \in Calls /\ \E d \in W : d \in Calls /\ WaitsFor([e \in Calls |-> Asking(e)], c, d)
BY DEF Waits, Cycles, Stuck

LEMMA DeadlockKeeps ==
  ASSUME IInv, NEW c \in Calls, DeadlockVictim(c), UNCHANGED input
  PROVE  IInv'
<1>1. PICK W \in Waits : c \in W
  BY DEF DeadlockVictim
<1>2. Asking(c) # {}
  BY <1>1, VictimsWait DEF WaitsFor
<1>3. pc[c] \in Statements /\ pc[c] # "push"
  BY <1>2, AskingCalls DEF IInv, TypeOK
<1> QED
  BY <1>3, EndKeeps DEF DeadlockVictim, Outcomes

LEMMA CrashKeeps ==
  ASSUME IInv, NEW c \in Calls, Crash(c), UNCHANGED input
  PROVE  IInv'
BY EndKeeps DEF Crash, Outcomes

-----------------------------------------------------------------------------
LEMMA StepKeeps ==
  ASSUME IInv, NEW c \in Calls, Step(c) \/ DeadlockVictim(c) \/ Crash(c), UNCHANGED input
  PROVE  IInv'
BY CheckBlockKeeps, FindMessageKeeps, FindConversationKeeps, LockUsersKeeps,
   LockConversationKeeps, FindAgainKeeps, InsertMessageKeeps, ReferKeeps, ResolveKeeps,
   LockCursorKeeps, MarkKeeps, CommitSendKeeps, CommitMarkKeeps, PushKeeps, DeadlockKeeps,
   CrashKeeps DEF Step

LEMMA StutterKeeps ==
  ASSUME IInv, UNCHANGED vars
  PROVE  IInv'
<1>1. /\ message' = message /\ conversation' = conversation /\ nextId' = nextId
      /\ pushed' = pushed /\ input' = input /\ pc' = pc /\ draft' = draft /\ locks' = locks
  BY DEF vars, rows
<1>2. UNCHANGED <<rows, input>>
  BY <1>1 DEF rows
<1>3. LocksTypeOK' /\ Exclusive'
      /\ \A d \in Calls, q \in Rows, x \in {"S", "X"} : Holds(d, q, x)' <=> Holds(d, q, x)
  BY <1>1, StaysExclusive DEF IInv
<1>4. TypeOK'
  BY <1>1, <1>3 DEF IInv, TypeOK
<1>5. Frame(Old) /\ Calls \ {Old} = Calls
  BY <1>1, <1>3, ConversationAssumption DEF Frame
<1>6. /\ \A d \in Calls : CallOK(d)'
      /\ MessagesOK' /\ ConversationsOK'
  BY <1>1, <1>2, <1>5, QuietSpares DEF IInv, TypeOK
<1>7. Apart' /\ PushedOK'
  BY <1>1 DEF IInv, Apart, PushedOK, HasMessage, Inserting
<1> QED
  BY <1>3, <1>4, <1>6, <1>7 DEF IInv

LEMMA InitIInv == Init => IInv
<1> SUFFICES ASSUME Init
             PROVE  IInv
  OBVIOUS
<1>1. /\ message \in Seq(MessageRow)
      /\ \A i \in DOMAIN message : message[i].conversation = Old /\ message[i].sender \in OldPair
      /\ \A i, j \in DOMAIN message :
           message[i].sender = message[j].sender /\ message[i].client = message[j].client => i = j
      /\ nextId = Len(message) + 1
  BY ConversationAssumption DEF Init
<1>2. /\ Len(message) \in Nat /\ DOMAIN message = 1..Len(message)
      /\ message # << >> => Len(message) > 0
      /\ \A i \in DOMAIN message : message[i] \in MessageRow
  BY <1>1
<1>3. PICK a \in Users, b \in Users : a # b /\ OldPair = {a, b}
  BY ConversationAssumption
<1>4. Old \in ConversationIds
  BY DEF ConversationIds
<1>5. \A u, k, m : Unread(u, k, m) \in Nat
  BY <1>2, FiniteMessages
<1> DEFINE unread == [u \in Users |-> IF u \in OldPair THEN Unread(u, Old, 0) ELSE 0]
           new == NewConversation(OldPair)
           row == [new EXCEPT !.last = Len(message), !.unread = unread]
<1>6. /\ row.users = OldPair /\ row.last = Len(message) /\ row.unread = unread
      /\ \A u \in Users : row.cursor[u] = 0
      /\ row \in ConversationRow
  <2>1. unread \in [Users -> Nat] /\ OldPair \in SUBSET Users
    BY <1>3, <1>5
  <2>2. /\ new \in ConversationRow /\ new.users = OldPair
        /\ \A u \in Users : new.cursor[u] = 0
    BY <2>1 DEF NewConversation, ConversationRow
  <2> HIDE DEF new, unread
  <2>3. /\ row \in ConversationRow /\ row.users = new.users /\ row.last = Len(message)
        /\ row.cursor = new.cursor /\ row.unread = unread
    BY <1>2, <2>1, <2>2 DEF ConversationRow
  <2> QED
    BY <2>2, <2>3
<1>7. row # NoConversation
  BY <1>3, <1>6 DEF NoConversation
<1>8. conversation = [k \in ConversationIds |->
                        IF k # Old \/ message = << >> THEN NoConversation ELSE row]
  BY DEF Init
<1>9. Existing = IF message = << >> THEN {} ELSE {Old}
  <2> HIDE DEF row
  <2> QED
    BY <1>4, <1>7, <1>8 DEF Existing
<1>10. Messages(Old) = DOMAIN message
  BY <1>1 DEF Messages
<1>11. input \in [Calls -> Requests] /\ input \in Workloads
  BY ConversationAssumption DEF Init
<1>12. \A c \in Calls : input[c].kind \in {"send", "read"} /\ input[c].from \in Users /\ input[c].to \in Users
  BY <1>11 DEF Requests
<1>13. /\ pc = [c \in Calls |-> IF input[c].kind = "send" THEN "checkBlock" ELSE "resolve"]
       /\ draft = [c \in Calls |-> [conversation |-> c, message |-> 0, unread |-> 0]]
       /\ locks = NoLocks
       /\ pushed = [u \in Users |-> << >>]
  BY DEF Init
<1>14. TypeOK
  <2>1. conversation \in [ConversationIds -> ConversationRow \cup {NoConversation}]
    <3> HIDE DEF row
    <3> QED
      BY <1>6, <1>8
  <2>2. pc \in [Calls -> Statements \cup Outcomes]
    BY <1>13 DEF Statements
  <2>3. draft \in [Calls -> [conversation : ConversationIds, message : Nat, unread : Nat]]
    BY <1>13 DEF ConversationIds
  <2>4. LocksTypeOK
    BY <1>13 DEF LocksTypeOK, NoLocks
  <2>5. pushed \in [Users -> Seq(Nat)]
    BY <1>13
  <2> QED
    BY <1>1, <1>2, <1>11, <2>1, <2>2, <2>3, <2>4, <2>5 DEF TypeOK
<1>15. \A c \in Calls, r \in Rows, m \in {"S", "X"} : ~ Holds(c, r, m)
  BY <1>13 DEF Holds, NoLocks
<1>16. Exclusive
  BY <1>15 DEF Exclusive
<1>17. MessagesOK
  <2>1. \A m \in DOMAIN message : message # << >>
    BY <1>2
  <2> QED
    <3>1. \A m \in DOMAIN message : conversation[Old].users = OldPair
      BY <1>4, <1>6, <1>8, <2>1
    <3> QED
      BY <1>1, <1>9, <2>1, <3>1 DEF MessagesOK
<1>18. ConversationsOK
  <2>1. ASSUME message # << >>
        PROVE  RowOK(Old)
    <3>1. conversation[Old] = row
      BY <1>4, <1>8, <2>1
    <3>2. \A u \in OldPair : unread[u] = Unread(u, Old, 0)
      BY <1>3
    <3> HIDE DEF row
    <3>3. Len(message) \in Messages(Old) /\ \A m \in Messages(Old) : m <= Len(message)
      BY <1>2, <1>10, <2>1
    <3> QED
      BY <1>2, <1>3, <1>6, <3>1, <3>2, <3>3 DEF RowOK
  <2> QED
    BY <1>9, <2>1 DEF ConversationsOK
<1>19. Apart /\ PushedOK
  <2>1. \A c \in Calls : ~ HasMessage(c)
    BY <1>13 DEF HasMessage, Inserting, Sending
  <2> QED
    BY <1>13, <2>1 DEF Apart, PushedOK
<1>20. ASSUME NEW c \in Calls
       PROVE  CallOK(c)
  <2>1. KindOK(c)
    BY <1>12, <1>13 DEF KindOK, SendOnly, ReadOnly
  <2>2. c \notin Existing
    BY <1>9, ConversationAssumption
  <2>3. ~ Inserting(c) /\ ~ Reads(c)
    BY <1>13 DEF Inserting, Reads, Sending
  <2>4. /\ Named(c) /\ Targeted(c) /\ ConversationHeld(c) /\ KeyHeld(c) /\ Numbered(c)
        /\ Stored(c) /\ Answered(c) /\ Reading(c) /\ Counted(c)
    BY <1>13, <2>2, <2>3 DEF Named, Targeted, ConversationHeld, KeyHeld, Numbered, Stored,
       Answered, Reading, Counted, Sending
  <2>5. LockOrder(c)
    <3>1. \A k \in ConversationIds, u \in Users : <<"participant", k, u>> \in Rows
      BY DEF Rows
    <3> QED
      BY <1>13, <1>15, <3>1 DEF LockOrder, HoldsNothing
  <2> QED
    BY <2>1, <2>4, <2>5 DEF CallOK
<1> QED
  BY <1>14, <1>16, <1>17, <1>18, <1>19, <1>20 DEF IInv

-----------------------------------------------------------------------------
LEMMA IInvStays == Spec => []IInv
<1>1. IInv /\ [Next]_vars => IInv'
  BY StepKeeps, StutterKeeps DEF Next
<1> QED
  BY <1>1, InitIInv, PTL DEF Spec

\* Messages, conversations, what each request is at and the row locks keep their
\* shape: a message has a number that was given out, a request is at one of its
\* statements or has one of its outcomes (sendMessage, setReadMessage).
THEOREM ConversationsTyping == Spec => []TypeOK
<1>1. IInv => TypeOK
  BY DEF IInv
<1> QED
  BY <1>1, IInvStays, PTL

LEMMA MaxIs ==
  ASSUME NEW S, S \subseteq Int, NEW x \in S, \A y \in S : y <= x
  PROVE  Max(S) = x
<1>1. Max(S) \in S /\ \A y \in S : Max(S) >= y
  BY DEF Max
<1>2. Max(S) <= x /\ x <= Max(S) /\ Max(S) \in Int
  BY <1>1
<1> QED
  BY <1>2

\* Two users have one conversation, whose row is what its messages say, for any
\* number of users, messages and calls (ensureConversation, sendMessage,
\* setReadMessage).
THEOREM ConversationsStayExact == Spec => []ConversationsAreExact
<1>1. IInv => ConversationsAreExact
  <2> SUFFICES ASSUME IInv, NEW k \in Existing
               PROVE  /\ \A j \in Existing : conversation[j].users = conversation[k].users => j = k
                      /\ Messages(k) # {} /\ conversation[k].last = Max(Messages(k))
                      /\ \A u \in conversation[k].users :
                           conversation[k].unread[u] = Unread(u, k, conversation[k].cursor[u])
    BY DEF ConversationsAreExact
  <2>1. RowOK(k)
    BY DEF IInv, ConversationsOK
  <2>2. Messages(k) \subseteq Int
    BY DEF Messages, IInv, TypeOK
  <2>3. Max(Messages(k)) = conversation[k].last
    BY <2>1, <2>2, MaxIs DEF RowOK
  <2> QED
    BY <2>1, <2>3 DEF RowOK, IInv, ConversationsOK
<1> QED
  BY <1>1, IInvStays, PTL

\* A client id names one message of its sender.
LEMMA OneSameKey ==
  ASSUME IInv, NEW c \in Calls
  PROVE  /\ Cardinality(SameKey(c)) <= 1
         /\ \A m, n \in SameKey(c) : m = n
<1>1. \A m, n \in SameKey(c) : m = n
  BY DEF SameKey, IInv, MessagesOK
<1>2. CASE SameKey(c) = {}
  BY <1>1, <1>2, FS_EmptySet
<1>3. CASE SameKey(c) # {}
  <2>1. PICK m : SameKey(c) = {m}
    BY <1>1, <1>3
  <2> QED
    BY <1>1, <2>1, FS_Singleton
<1> QED
  BY <1>2, <1>3

\* A message is stored once under its client id, whoever is answered "sent" or
\* "duplicate" finds it there, and its receiver is told of it at most once.
THEOREM MessagesAreSentOnce == Spec => []SentOnce
<1>1. ASSUME IInv, NEW c \in Calls, input[c].kind = "send"
      PROVE  LET mine == {m \in SameKey(c) : /\ message[m].text = input[c].text
                                            /\ conversation[message[m].conversation].users = Pair(c)}
             IN  /\ Cardinality(SameKey(c)) <= 1
                 /\ pc[c] \in {"push", "sent", "duplicate"} => mine # {}
                 /\ pc[c] = "conflict" => SameKey(c) # {} /\ mine = {}
  <2> DEFINE mine == {m \in SameKey(c) : /\ message[m].text = input[c].text
                                         /\ conversation[message[m].conversation].users = Pair(c)}
  <2>1. mine = {m \in SameKey(c) : Own(c, m)}
    BY DEF Own
  <2>2. CallOK(c)
    BY <1>1 DEF IInv
  <2>3. pc[c] \in {"push", "sent"} => mine # {}
    BY <2>1, <2>2 DEF CallOK, Stored, Own
  <2>4. pc[c] = "duplicate" => mine # {}
    BY <2>1, <2>2 DEF CallOK, Answered
  <2>5. pc[c] = "conflict" => SameKey(c) # {} /\ mine = {}
    BY <1>1, <2>1, <2>2, OneSameKey DEF CallOK, Answered
  <2> QED
    BY <1>1, <2>3, <2>4, <2>5, OneSameKey
<1>2. ASSUME IInv, NEW u \in Users, NEW i \in DOMAIN pushed[u]
      PROVE  /\ pushed[u][i] \in DOMAIN message
             /\ LET m == message[pushed[u][i]]
                IN  m.sender # u /\ u \in conversation[m.conversation].users
  <2>1. PICK c \in Calls : pc[c] = "sent" /\ input[c].to = u /\ draft[c].message = pushed[u][i]
    BY <1>2 DEF IInv, PushedOK
  <2>2. Own(c, pushed[u][i])
    BY <1>2, <2>1 DEF IInv, CallOK, Stored
  <2>3. input[c].from # u
    BY <1>2, <2>1, CallTypes DEF IInv
  <2> QED
    BY <2>1, <2>2, <2>3 DEF Own, SameKey, Pair
<1>3. IInv => SentOnce
  <2> SUFFICES ASSUME IInv
               PROVE  SentOnce
    OBVIOUS
  <2>1. \A u \in Users : \A i, j \in DOMAIN pushed[u] : pushed[u][i] = pushed[u][j] => i = j
    BY DEF IInv, PushedOK
  <2> QED
    BY <1>1, <1>2, <2>1 DEF SentOnce
<1> QED
  BY <1>3, IInvStays, PTL

\* A reader that waits holds no row: nobody else can hold the participant's row
\* under a conversation that the reader has locked.
LEMMA ReadersHoldNothing ==
  ASSUME IInv, NEW c \in Calls, input[c].kind = "read", NEW d \in Calls,
         WaitsFor([e \in Calls |-> Asking(e)], c, d)
  PROVE  HoldsNothing(c) /\ d # c
<1>1. PICK a \in Asking(c) : d \in Blockers(c, a[1], a[2])
  BY DEF WaitsFor
<1>2. pc[c] \notin SendOnly /\ pc[c] \in Statements \cup Outcomes
  BY DEF IInv, TypeOK, CallOK, KindOK
<1>3. /\ pc[c] = "lockCursor" /\ UnlockedCursor(c) # {}
      /\ a = <<CursorLocks(c)[Min(UnlockedCursor(c))], "X">>
  BY <1>1, <1>2 DEF Asking, SendOnly, Statements, Outcomes
<1>4. \/ a[1] = ConversationLock(c) /\ HoldsNothing(c)
      \/ a[1] = ParticipantLock(c, input[c].from) /\ Holds(c, ConversationLock(c), "X")
  BY <1>3, NextCursor
<1>5. d # c /\ (Holds(d, a[1], "X") \/ Holds(d, a[1], "S"))
  BY <1>1 DEF Blockers
<1>6. CASE /\ a[1] = ParticipantLock(c, input[c].from)
           /\ Holds(c, ConversationLock(c), "X")
  <2>1. draft[c].conversation \in ConversationIds /\ input[c].from \in Users
    BY CallTypes DEF IInv
  <2>2. Holds(d, ConversationLock(c), "X")
    BY <1>5, <1>6, <2>1 DEF IInv, CallOK, LockOrder, ConversationLock, ParticipantLock
  <2> QED
    BY <1>5, <1>6, <2>2, LockRows DEF IInv, Exclusive
<1> QED
  BY <1>4, <1>5, <1>6

\* The rows calls ask for are rows.
LEMMA AskedRows ==
  ASSUME IInv, NEW c \in Calls, NEW a \in Asking(c)
  PROVE  a[1] \in Rows /\ a[2] \in {"S", "X"}
<1>1. CASE pc[c] = "lockUsers" /\ UnlockedUsers(c) # {}
  <2>1. Min(UnlockedUsers(c)) \in Pair(c)
    <3> DEFINE x == input[c].from
               y == input[c].to
    <3>1. x \in Nat /\ y \in Nat /\ UnlockedUsers(c) \subseteq {x, y}
      BY CallTypes, ConversationAssumption DEF IInv, UnlockedUsers, Pair
    <3>2. \E v \in UnlockedUsers(c) : \A w \in UnlockedUsers(c) : v <= w
      BY <1>1, <3>1
    <3> QED
      BY <3>2 DEF Min, UnlockedUsers
  <2> QED
    BY <1>1, <2>1, LockRows DEF Asking, IInv
<1>2. CASE pc[c] = "lockCursor" /\ UnlockedCursor(c) # {}
  <2>1. a = <<CursorLocks(c)[Min(UnlockedCursor(c))], "X">>
    BY <1>2 DEF Asking
  <2>2. input[c].from \in Users
    BY CallTypes DEF IInv
  <2> QED
    BY <1>2, <2>1, <2>2, NextCursor, LockRows DEF IInv
<1>3. CASE ~ (pc[c] = "lockUsers" /\ UnlockedUsers(c) # {})
           /\ ~ (pc[c] = "lockCursor" /\ UnlockedCursor(c) # {})
  <2>1. pc[c] = "insertMessage" => input[c].kind = "send"
    BY DEF IInv, CallOK, KindOK, SendOnly
  <2>2. input[c].from \in Pair(c) /\ input[c].to \in Pair(c) /\ input[c].to \in Users
    BY CallTypes DEF IInv, Pair
  <2> QED
    BY <1>3, <2>1, <2>2, LockRows DEF Asking, IInv
<1> QED
  BY <1>1, <1>2, <1>3

\* A call that holds nothing keeps nobody waiting, so a cycle of waits has no
\* reader: without it, the others would still be stuck.
THEOREM ReadersStayOutOfDeadlocks == Spec => []ReadersNeverDeadlock
<1>1. IInv => ReadersNeverDeadlock
  <2> SUFFICES ASSUME IInv, NEW W \in Waits, NEW c \in W, input[c].kind # "send"
               PROVE  FALSE
    BY DEF ReadersNeverDeadlock
  <2> DEFINE asking == [e \in Calls |-> Asking(e)]
             V == W \ {c}
  <2>1. /\ W \subseteq Calls /\ c \in Calls
        /\ \A e \in W : \E d \in W : WaitsFor(asking, e, d)
        /\ \A U \in (SUBSET W) \ {{}, W} : ~ Stuck(asking, U)
    BY DEF Waits, Cycles, Stuck
  <2>2. input[c].kind = "read"
    BY <2>1, CallTypes DEF IInv
  <2>3. PICK d \in W : WaitsFor(asking, c, d)
    BY <2>1
  <2>4. HoldsNothing(c) /\ d # c
    BY <2>1, <2>2, <2>3, ReadersHoldNothing
  <2>5. \A e \in Calls : ~ WaitsFor(asking, e, c)
    <3> SUFFICES ASSUME NEW e \in Calls, NEW a \in Asking(e), c \in Blockers(e, a[1], a[2])
                 PROVE  FALSE
      BY DEF WaitsFor
    <3>1. a[1] \in Rows
      BY AskedRows
    <3>2. Holds(c, a[1], "X") \/ Holds(c, a[1], "S")
      BY DEF Blockers
    <3> QED
      BY <2>4, <3>1, <3>2 DEF HoldsNothing
  <2>6. Stuck(asking, V)
    BY <2>1, <2>5 DEF Stuck
  <2>7. V \in (SUBSET W) \ {{}, W}
    BY <2>3, <2>4
  <2> QED
    BY <2>1, <2>6, <2>7
<1> QED
  BY <1>1, IInvStays, PTL

\* A read cursor never goes back, whatever order read markers and messages are
\* committed in (setReadMessage).
THEOREM CursorsOnlyAdvance == Spec => CursorsAdvance
<1> DEFINE Advance == \A k \in Existing : \A u \in Users :
                        conversation'[k].cursor[u] >= conversation[k].cursor[u]
<1>1. IInv /\ [Next]_vars => Advance \/ UNCHANGED conversation
  <2> SUFFICES ASSUME IInv, [Next]_vars
               PROVE  Advance \/ UNCHANGED conversation
    OBVIOUS
  <2>1. CASE \E c \in Calls : (CommitSend(c) \/ CommitMark(c)) /\ UNCHANGED input
    BY <2>1, CommitSendKeeps, CommitMarkKeeps
  <2>2. CASE ~ \E c \in Calls : (CommitSend(c) \/ CommitMark(c)) /\ UNCHANGED input
    <3>1. UNCHANGED rows
      BY <2>2 DEF Next, Step, DeadlockVictim, Crash, CheckBlock, FindMessage, FindConversation,
         LockUsers, LockConversation, FindAgain, AnswerExisting, InsertMessage, ReferSender,
         CountUnread, ReferReceiver, Resolve, LockCursor, Mark, Push, Look, LookUp, Lock, End, vars
    <3> QED
      BY <3>1 DEF rows
  <2> QED
    BY <2>1, <2>2
<1> QED
  BY <1>1, IInvStays, PTL DEF Spec, CursorsAdvance
-----------------------------------------------------------------------------
(***************************************************************************)
(* The inbox.  Its letters, cursors and numbers of unread letters are what *)
(* the invariant says of the rows (ViewsOK); so a step needs only to be    *)
(* found the one of the inbox that its commit, its answer or its push is.  *)
(***************************************************************************)
ViewsOK ==
  /\ \A k \in Existing : conversation[k].users \in Pairs /\ RowOf(conversation[k].users) = conversation[k]
  /\ \A p \in Pairs \ Talking : RowOf(p) = NewConversation(p)
  /\ Counts = [p \in Pairs |-> [u \in p |-> InboxView!Waiting(p, u)]]

LEMMA RowOfExisting ==
  ASSUME IInv, NEW k \in Existing
  PROVE  /\ conversation[k].users \in Pairs
         /\ RowOf(conversation[k].users) = conversation[k]
<1>1. /\ \E u, v \in Users : u # v /\ conversation[k].users = {u, v}
      /\ \A j \in Existing : conversation[j].users = conversation[k].users => j = k
  BY DEF IInv, ConversationsOK, RowOK
<1>2. (CHOOSE j \in Existing : conversation[j].users = conversation[k].users) = k
  BY <1>1
<1>3. conversation[k].users \in Talking
  BY DEF Talking
<1> QED
  BY <1>1, <1>2, <1>3 DEF RowOf, Pairs

LEMMA CountedAlike ==
  ASSUME IInv, NEW p \in Pairs, NEW u \in p
  PROVE  RowOf(p).unread[u] = InboxView!Waiting(p, u)
<1> DEFINE S == {n \in DOMAIN Letters : Letters[n].pair = p /\ Letters[n].from # u /\ n > Cursors[p][u]}
<1>1. InboxView!Waiting(p, u) = Cardinality(S)
  <2>1. InboxView!Waiting(p, u) = InboxView!Cardinality(S)
    BY DEF InboxView!Waiting
  <2> HIDE DEF S
  <2>2. InboxView!Cardinality(S) = Cardinality(S)
    BY DEF InboxView!Cardinality, Cardinality
  <2> QED
    BY <2>1, <2>2
<1>2. Cursors[p][u] = RowOf(p).cursor[u] /\ u \in Users
  BY DEF Cursors, Pairs
<1>3. /\ DOMAIN Letters = DOMAIN message
      /\ \A n \in DOMAIN message : /\ Letters[n].pair = conversation[message[n].conversation].users
                                   /\ Letters[n].from = message[n].sender
                                   /\ message[n].conversation \in Existing
  BY DEF Letters, IInv, MessagesOK
<1>4. CASE p \in Talking
  <2>1. PICK k \in Existing : conversation[k].users = p
    BY <1>4 DEF Talking
  <2>2. /\ RowOf(p) = conversation[k]
        /\ \A j \in Existing : conversation[j].users = p => j = k
        /\ conversation[k].unread[u] = Unread(u, k, conversation[k].cursor[u])
    BY <2>1, RowOfExisting DEF IInv, ConversationsOK, RowOK
  <2>3. S = {n \in Messages(k) : n > conversation[k].cursor[u] /\ message[n].sender # u}
    BY <1>2, <1>3, <2>1, <2>2 DEF Messages
  <2> QED
    BY <1>1, <2>2, <2>3 DEF Unread
<1>5. CASE p \notin Talking
  <2>1. S = {}
    BY <1>3, <1>5 DEF Talking
  <2>2. RowOf(p).unread[u] = 0
    BY <1>2, <1>5 DEF RowOf, NewConversation
  <2> QED
    BY <1>1, <2>1, <2>2, FS_EmptySet
<1> QED
  BY <1>4, <1>5

LEMMA ViewsFollow == IInv => ViewsOK
<1> SUFFICES ASSUME IInv
             PROVE  ViewsOK
  OBVIOUS
<1>1. Counts = [p \in Pairs |-> [u \in p |-> InboxView!Waiting(p, u)]]
  BY CountedAlike DEF Counts
<1>2. \A p \in Pairs \ Talking : RowOf(p) = NewConversation(p)
  BY DEF RowOf
<1> QED
  BY <1>1, <1>2, RowOfExisting DEF ViewsOK

-----------------------------------------------------------------------------
LEMMA SameLetters ==
  ASSUME UNCHANGED rows
  PROVE  UNCHANGED <<Letters, Cursors, Counts>>
BY DEF rows, Letters, Cursors, Counts, RowOf, Talking, Existing, NewConversation

LEMMA OneAnswer ==
  ASSUME IInv, NEW c \in Calls, NEW label, Goto(c, label)
  PROVE  /\ Answers' = [Answers EXCEPT ![c] = AnswerOf(label)]
         /\ Answers[c] = AnswerOf(pc[c])
BY DEF IInv, TypeOK, Goto, Answers

\* What c finds under its client id is what it asks for, or something else.
LEMMA MineIsSameKey ==
  ASSUME IInv, NEW c \in Calls, input[c].kind = "send"
  PROVE  /\ InboxView!Mine(c) = SameKey(c)
         /\ \A m \in SameKey(c) : Letters[m] = InboxView!Asked(c) <=> Own(c, m)
<1>1. \A m \in DOMAIN message :
        Letters[m] = [from |-> message[m].sender, pair |-> conversation[message[m].conversation].users,
                      client |-> message[m].client, text |-> message[m].text]
  BY DEF Letters
<1>2. DOMAIN Letters = DOMAIN message
  BY DEF Letters
<1>3. InboxView!Mine(c) = SameKey(c)
  BY <1>1, <1>2 DEF InboxView!Mine, SameKey
<1>4. InboxView!Asked(c) = [from |-> input[c].from, pair |-> Pair(c), client |-> input[c].client,
                            text |-> input[c].text]
  BY DEF InboxView!Asked, InboxView!PairOf, Pair
<1>5. ASSUME NEW m \in SameKey(c)
      PROVE  Letters[m] = InboxView!Asked(c) <=> Own(c, m)
  <2>1. /\ m \in DOMAIN message /\ message[m].sender = input[c].from
        /\ message[m].client = input[c].client
    BY DEF SameKey
  <2>2. Letters[m] = [from |-> input[c].from, pair |-> conversation[message[m].conversation].users,
                      client |-> input[c].client, text |-> message[m].text]
    BY <1>1, <2>1
  <2>3. \A a, b, p, q, t, s :
          [from |-> a, pair |-> p, client |-> b, text |-> t] = [from |-> a, pair |-> q, client |-> b, text |-> s]
            <=> p = q /\ t = s
    <3> TAKE a, b, p, q, t, s
    <3>1. PICK x, y : /\ x = [from |-> a, pair |-> p, client |-> b, text |-> t]
                      /\ y = [from |-> a, pair |-> q, client |-> b, text |-> s]
      OBVIOUS
    <3>2. x.pair = p /\ y.pair = q /\ x.text = t /\ y.text = s
      BY <3>1
    <3> QED
      BY <3>1, <3>2
  <2> QED
    BY <1>4, <2>2, <2>3 DEF Own
<1> QED
  BY <1>3, <1>5

-----------------------------------------------------------------------------
\* What c may do but commit or tell: go on, fail or answer.
Quiet(c, label) ==
  \/ label \in Statements \ {"push"} /\ pc[c] \in Statements \ {"push"}
  \/ label \in {"refused", "deadlock"} /\ pc[c] \in Statements \ {"push"}
  \/ label = "crashed" /\ pc[c] \in Statements
  \/ label \in {"duplicate", "conflict"} /\ pc[c] \in Statements \ {"push"} /\ input[c].kind = "send"
  \/ label = "unchanged" /\ Mark(c)

LEMMA QuietCases ==
  ASSUME IInv, NEW c \in Calls, Step(c) \/ DeadlockVictim(c) \/ Crash(c), UNCHANGED input
  PROVE  \/ CommitSend(c) \/ CommitMark(c) \/ Push(c)
         \/ /\ UNCHANGED <<rows, pushed>>
            /\ \E label \in Statements \cup Outcomes : Goto(c, label) /\ Quiet(c, label)
<1> DEFINE Goal == /\ UNCHANGED <<rows, pushed>>
                   /\ \E label \in Statements \cup Outcomes : Goto(c, label) /\ Quiet(c, label)
<1>1. pc[c] \in Statements \cup Outcomes /\ KindOK(c)
  BY DEF IInv, TypeOK, CallOK
<1>2. ASSUME NEW from \in Statements \ {"push"}, NEW label \in Statements \ {"push"}, pc[c] = from,
             Goto(c, label), UNCHANGED <<rows, pushed>>
      PROVE  Goal
  BY <1>2 DEF Quiet
<1>3. ASSUME NEW label \in {"refused", "deadlock"}, pc[c] \in Statements \ {"push"}, End(c, label)
      PROVE  Goal
  BY <1>3 DEF Quiet, End, Outcomes
<1>4. ASSUME AnswerExisting(c), pc[c] \in {"findAgain", "insertMessage"}
      PROVE  Goal
  <2>1. input[c].kind = "send"
    BY <1>1, <1>4 DEF KindOK, SendOnly
  <2>2. PICK label \in {"duplicate", "conflict"} : End(c, label)
    BY <1>4 DEF AnswerExisting
  <2> QED
    BY <1>4, <2>1, <2>2 DEF End, Quiet, Statements, Outcomes
<1>5. CASE CheckBlock(c)
  BY <1>2, <1>3, <1>5 DEF CheckBlock, Look, Statements
<1>6. CASE FindMessage(c)
  <2>1. CASE SameKey(c) = {}
    BY <1>2, <1>6, <2>1 DEF FindMessage, Look, Statements
  <2>2. CASE SameKey(c) # {}
    <3>1. PICK label \in {"duplicate", "conflict"} : End(c, label)
      BY <1>6, <2>2 DEF FindMessage
    <3>2. pc[c] = "findMessage" /\ input[c].kind = "send"
      BY <1>1, <1>6 DEF FindMessage, KindOK, SendOnly
    <3> QED
      BY <3>1, <3>2 DEF End, Quiet, Statements, Outcomes
  <2> QED
    BY <2>1, <2>2
<1>7. CASE FindConversation(c)
  BY <1>2, <1>7 DEF FindConversation, Look, LookUp, Statements
<1>8. CASE LockUsers(c)
  BY <1>2, <1>3, <1>8 DEF LockUsers, Lock, LookUp, Statements
<1>9. CASE LockConversation(c)
  BY <1>2, <1>9 DEF LockConversation, Lock, Statements
<1>10. CASE FindAgain(c)
  BY <1>2, <1>4, <1>10 DEF FindAgain, Look, Statements
<1>11. CASE InsertMessage(c)
  BY <1>2, <1>4, <1>11 DEF InsertMessage, Statements
<1>12. CASE ReferSender(c) \/ CountUnread(c) \/ ReferReceiver(c)
  BY <1>2, <1>12 DEF ReferSender, CountUnread, ReferReceiver, Lock, Statements
<1>13. CASE Resolve(c)
  BY <1>2, <1>3, <1>13 DEF Resolve, Statements
<1>14. CASE LockCursor(c)
  BY <1>2, <1>14 DEF LockCursor, Look, Lock, Statements
<1>15. CASE Mark(c)
  <2>1. CASE draft[c].message <= conversation[draft[c].conversation].cursor[input[c].from]
    <3>1. End(c, "unchanged")
      BY <1>15, <2>1 DEF Mark
    <3> QED
      BY <1>15, <3>1 DEF End, Quiet, Outcomes
  <2>2. CASE ~ (draft[c].message <= conversation[draft[c].conversation].cursor[input[c].from])
    BY <1>2, <1>15, <2>2 DEF Mark, LookUp, Statements
  <2> QED
    BY <2>1, <2>2
<1>16. CASE DeadlockVictim(c)
  <2>1. PICK W \in Waits : c \in W
    BY <1>16 DEF DeadlockVictim
  <2>2. Asking(c) # {}
    BY <2>1, VictimsWait DEF WaitsFor
  <2>3. pc[c] \in Statements /\ pc[c] # "push"
    BY <2>2, AskingCalls, <1>1
  <2> QED
    BY <1>3, <1>16, <2>3 DEF DeadlockVictim
<1>17. CASE Crash(c)
  BY <1>17 DEF Crash, End, Quiet, Outcomes
<1> QED
  BY <1>5, <1>6, <1>7, <1>8, <1>9, <1>10, <1>11, <1>12, <1>13, <1>14, <1>15, <1>16, <1>17 DEF Step

\* The steps of the inbox that a call may be seen to take.
InboxStep(c) ==
  \/ InboxView!Send(c) \/ InboxView!Tell(c) \/ InboxView!Repeat(c)
  \/ \E n \in DOMAIN Letters : InboxView!ReadUpTo(c, n)
  \/ InboxView!Fail(c)

\* An answer tells what is stored.
LEMMA AnswerIsRepeat ==
  ASSUME IInv, IInv', NEW c \in Calls, UNCHANGED <<rows, pushed, input>>, input[c].kind = "send",
         NEW label \in {"duplicate", "conflict"}, Goto(c, label), pc[c] \in Statements \ {"push"}
  PROVE  InboxView!Repeat(c)
<1>1. pc'[c] = label
  BY DEF Goto, IInv, TypeOK
<1>2. Answered(c)'
  BY DEF IInv, CallOK
<1>3. /\ SameKey(c)' = SameKey(c)
      /\ \A m : Own(c, m)' <=> Own(c, m)
  BY DEF rows, SameKey, Own, Pair
<1>4. PICK m \in SameKey(c) : Own(c, m) <=> label = "duplicate"
  BY <1>1, <1>2, <1>3 DEF Answered
<1>5. m \in InboxView!Mine(c) /\ (Letters[m] = InboxView!Asked(c) <=> label = "duplicate")
  BY <1>4, MineIsSameKey
<1>6. AnswerOf(label) = label /\ AnswerOf(pc[c]) = "none"
  BY DEF AnswerOf, Statements
<1>7. /\ InboxView!Answer(c, IF Letters[m] = InboxView!Asked(c) THEN "duplicate" ELSE "conflict")
      /\ Answers[c] = "none"
  BY <1>5, <1>6, OneAnswer DEF InboxView!Answer
<1>8. UNCHANGED <<Letters, Cursors, Told>>
  BY SameLetters DEF Told
<1> QED
  BY <1>5, <1>7, <1>8 DEF InboxView!Repeat

\* A cursor that is far enough stays where it is.
LEMMA UnchangedIsRead ==
  ASSUME IInv, NEW c \in Calls, UNCHANGED <<rows, pushed, input>>, Goto(c, "unchanged"), Mark(c)
  PROVE  InboxView!ReadUpTo(c, draft[c].message) /\ draft[c].message \in DOMAIN Letters
<1> DEFINE k == draft[c].conversation
           u == input[c].from
           m == draft[c].message
<1>1. pc[c] = "mark" /\ input[c].kind = "read"
  BY DEF Mark, IInv, CallOK, KindOK, ReadOnly
<1>2. Found(c) /\ m \in Messages(k)
  BY <1>1 DEF IInv, CallOK, Reading, Reads
<1>3. m <= conversation[k].cursor[u]
  BY <1>1 DEF Mark, LookUp, Goto, IInv, TypeOK
<1>4. Cursors[Pair(c)][u] = conversation[k].cursor[u]
  BY <1>2, RowOfExisting DEF Found, Cursors, Pair
<1>5. m \in DOMAIN Letters /\ Letters[m].pair = Pair(c)
  BY <1>2 DEF Letters, Messages, Found
<1>6. AnswerOf("unchanged") = "unchanged" /\ AnswerOf(pc[c]) = "none"
  BY <1>1 DEF AnswerOf, Statements
<1>7. UNCHANGED <<Letters, Cursors, Told>>
  BY SameLetters DEF Told
<1>8. Answers[c] = "none" /\ InboxView!Answer(c, "unchanged")
  BY <1>6, OneAnswer DEF InboxView!Answer
<1> QED
  BY <1>1, <1>3, <1>4, <1>5, <1>7, <1>8 DEF InboxView!ReadUpTo, InboxView!PairOf, Pair

LEMMA QuietIsInboxStep ==
  ASSUME IInv, IInv', NEW c \in Calls, UNCHANGED <<rows, pushed, input>>,
         NEW label \in Statements \cup Outcomes, Goto(c, label), Quiet(c, label)
  PROVE  InboxStep(c) \/ UNCHANGED InboxView!inboxVars
<1>1. UNCHANGED <<Letters, Cursors, Counts, Told>>
  BY SameLetters DEF Told
<1>2. Answers' = [Answers EXCEPT ![c] = AnswerOf(label)] /\ Answers[c] = AnswerOf(pc[c])
  BY OneAnswer
<1>3. /\ pc[c] \in Statements \ {"push"} => AnswerOf(pc[c]) = "none"
      /\ pc[c] = "push" => AnswerOf(pc[c]) = "stored"
      /\ label \in Statements \ {"push"} => AnswerOf(label) = "none"
      /\ label \in {"refused", "deadlock", "crashed"} => AnswerOf(label) = label
  BY DEF AnswerOf, Statements
<1>4. CASE label \in Statements \ {"push"} /\ pc[c] \in Statements \ {"push"}
  <2>1. Answers' = Answers
    BY <1>2, <1>3, <1>4 DEF Answers
  <2> QED
    BY <1>1, <2>1 DEF InboxView!inboxVars
<1>5. CASE label \in {"refused", "deadlock", "crashed"} /\ pc[c] \in Statements \ {"push"}
  BY <1>1, <1>2, <1>3, <1>5 DEF InboxView!Fail, InboxView!Answer, InboxStep
<1>6. CASE label = "crashed" /\ pc[c] = "push"
  BY <1>1, <1>2, <1>3, <1>6 DEF InboxView!Fail, InboxView!Answer, InboxStep
<1>7. CASE label \in {"duplicate", "conflict"} /\ pc[c] \in Statements \ {"push"} /\ input[c].kind = "send"
  BY <1>7, AnswerIsRepeat DEF InboxStep
<1>8. CASE label = "unchanged" /\ Mark(c)
  BY <1>8, UnchangedIsRead DEF InboxStep
<1> QED
  BY <1>4, <1>5, <1>6, <1>7, <1>8 DEF Quiet

-----------------------------------------------------------------------------
LEMMA LettersOf ==
  ASSUME IInv, NEW n \in DOMAIN message
  PROVE  /\ n \in DOMAIN Letters
         /\ Letters[n].pair = conversation[message[n].conversation].users
         /\ message[n].conversation \in Existing
BY DEF Letters, IInv, MessagesOK

\* Only a conversation of both users holds their letters.
LEMMA LettersOfPair ==
  ASSUME IInv, NEW c \in Calls, Found(c) \/ Creates(c), NEW n \in DOMAIN Letters, Letters[n].pair = Pair(c)
  PROVE  n \in Messages(draft[c].conversation)
<1>1. /\ n \in DOMAIN message /\ message[n].conversation \in Existing
      /\ conversation[message[n].conversation].users = Pair(c)
  BY LettersOf DEF Letters
<1>2. message[n].conversation \in ConversationIds
  BY <1>1 DEF Existing
<1>3. CASE Found(c)
  <2>1. message[n].conversation = draft[c].conversation
    BY <1>1, <1>3 DEF Found, IInv, ConversationsOK
  <2> QED
    BY <1>1, <2>1 DEF Messages
<1>4. CASE Creates(c)
  BY <1>1, <1>2, <1>4 DEF Creates, Between
<1> QED
  BY <1>3, <1>4

\* Where the rows of a pair stay as they are, so does the reader's place.
LEMMA SamePlace ==
  ASSUME IInv, ViewsOK, ViewsOK', NEW p \in Pairs, NEW u \in p,
         \A k \in Existing : k \in Existing' /\ conversation'[k].users = conversation[k].users,
         \A k \in Existing : conversation[k].users = p => conversation'[k].cursor[u] = conversation[k].cursor[u],
         \A k \in Existing' \ Existing : conversation'[k].users = p => conversation'[k].cursor[u] = 0
  PROVE  Cursors'[p][u] = Cursors[p][u]
<1>1. /\ Cursors[p][u] = RowOf(p).cursor[u] /\ Cursors'[p][u] = RowOf(p)'.cursor[u] /\ u \in Users
  BY DEF Cursors, Pairs
<1>2. CASE p \in Talking
  <2>1. PICK k \in Existing : conversation[k].users = p
    BY <1>2 DEF Talking
  <2>2. RowOf(p) = conversation[k] /\ RowOf(p)' = conversation'[k]
    BY <2>1 DEF ViewsOK
  <2> QED
    BY <1>1, <2>1, <2>2
<1>3. CASE p \notin Talking
  <2>1. RowOf(p).cursor[u] = 0
    BY <1>1, <1>3 DEF ViewsOK, NewConversation
  <2>2. CASE p \in Talking'
    <3>1. PICK k \in Existing' : conversation'[k].users = p
      BY <2>2 DEF Talking
    <3>2. k \notin Existing
      BY <1>3, <3>1 DEF Talking
    <3>3. RowOf(p)' = conversation'[k]
      BY <3>1 DEF ViewsOK
    <3> QED
      BY <1>1, <2>1, <3>1, <3>2, <3>3
  <2>3. CASE p \notin Talking'
    <3>1. RowOf(p)'.cursor[u] = 0
      BY <1>1, <2>3 DEF ViewsOK, NewConversation
    <3> QED
      BY <1>1, <2>1, <3>1
  <2> QED
    BY <2>2, <2>3
<1> QED
  BY <1>2, <1>3

\* The commit of a message sends a letter, the newest one of its pair.
LEMMA CommitIsSend ==
  ASSUME IInv, IInv', ViewsOK, ViewsOK', NEW c \in Calls, CommitSend(c), UNCHANGED input
  PROVE  InboxView!Send(c)
<1> DEFINE k == draft[c].conversation
           m == draft[c].message
<1>1. /\ Inserting(c) /\ pc[c] = "commit" /\ input[c].kind = "send" /\ Goto(c, "push") /\ UNCHANGED pushed
      /\ DOMAIN message' = DOMAIN message \cup {m} /\ m \notin DOMAIN message
      /\ message'[m] = MessageOf(c)
      /\ \A n \in DOMAIN message : message'[n] = message[n]
      /\ conversation'[k] = Sent(c)
      /\ \A j \in ConversationIds \ {k} : conversation'[j] = conversation[j]
      /\ Existing' = Existing \cup {k}
  BY SendRows DEF CommitSend
<1>2. Found(c) \/ Creates(c)
  BY <1>1 DEF IInv, CallOK, Targeted
<1>3. SameKey(c) = {} /\ \A n \in Messages(k) : n < m
  BY <1>1 DEF IInv, CallOK, KeyHeld, Numbered
<1>4. /\ Sent(c).users = Pair(c)
      /\ \A u \in Users : Sent(c).cursor[u] = IF conversation[k] = NoConversation THEN 0 ELSE conversation[k].cursor[u]
      /\ k \in ConversationIds
  BY <1>1, SentRow, CallTypes DEF IInv
<1>5. /\ Existing \subseteq Existing' /\ Existing \subseteq ConversationIds
      /\ \A j \in Existing : conversation'[j].users = conversation[j].users
  BY <1>1, <1>2, <1>4 DEF Existing, Found, Creates
<1>6. InboxView!Mine(c) = {}
  BY <1>1, <1>3, MineIsSameKey
<1>7. \A n \in DOMAIN Letters : Letters[n].pair = Pair(c) => n < m
  BY <1>2, <1>3, LettersOfPair
<1>8. Letters' = [n \in DOMAIN Letters \cup {m} |-> IF n = m THEN InboxView!Asked(c) ELSE Letters[n]]
  <2>1. DOMAIN Letters' = DOMAIN message' /\ DOMAIN Letters = DOMAIN message
    BY DEF Letters
  <2>2. ASSUME NEW n \in DOMAIN message
        PROVE  Letters'[n] = Letters[n]
    <3>1. n \in DOMAIN message' /\ message'[n] = message[n] /\ message[n].conversation \in Existing
      BY <1>1, LettersOf
    <3> QED
      BY <1>5, <3>1 DEF Letters
  <2>3. Letters'[m] = InboxView!Asked(c)
    <3>1. m \in DOMAIN message' /\ message'[m] = MessageOf(c)
      BY <1>1
    <3>2. /\ MessageOf(c).sender = input[c].from /\ MessageOf(c).client = input[c].client
          /\ MessageOf(c).text = input[c].text /\ MessageOf(c).conversation = k
      BY DEF MessageOf
    <3>3. conversation'[k].users = Pair(c)
      BY <1>1, <1>4
    <3>4. Letters'[m] = [from |-> message'[m].sender, pair |-> conversation'[message'[m].conversation].users,
                         client |-> message'[m].client, text |-> message'[m].text]
      BY <3>1 DEF Letters
    <3> QED
      BY <3>1, <3>2, <3>3, <3>4 DEF InboxView!Asked, InboxView!PairOf, Pair
  <2>4. Letters' = [n \in DOMAIN message' |-> Letters'[n]]
    BY <2>1 DEF Letters
  <2> QED
    BY <1>1, <2>1, <2>2, <2>3, <2>4
<1>9. Cursors' = Cursors
  <2>1. ASSUME NEW p \in Pairs, NEW u \in p
        PROVE  Cursors'[p][u] = Cursors[p][u]
    <3>1. u \in Users
      BY DEF Pairs
    <3>2. \A j \in Existing : conversation[j].users = p => conversation'[j].cursor[u] = conversation[j].cursor[u]
      <4>1. ASSUME NEW j \in Existing
            PROVE  conversation'[j].cursor[u] = conversation[j].cursor[u]
        BY <1>1, <1>4, <3>1 DEF Existing
      <4> QED
        BY <4>1
    <3>3. \A j \in Existing' \ Existing : conversation'[j].users = p => conversation'[j].cursor[u] = 0
      <4>1. ASSUME NEW j \in Existing' \ Existing
            PROVE  conversation'[j].cursor[u] = 0
        BY <1>1, <1>4, <3>1 DEF Existing
      <4> QED
        BY <4>1
    <3> QED
      BY <1>5, <3>2, <3>3, SamePlace
  <2> QED
    BY <2>1 DEF Cursors
<1>10. Told' = Told
  BY <1>1 DEF Told
<1>11. AnswerOf("push") = "stored" /\ AnswerOf(pc[c]) = "none"
  BY <1>1 DEF AnswerOf, Statements
<1>12. Answers[c] = "none" /\ InboxView!Answer(c, "stored")
  BY <1>1, <1>11, OneAnswer DEF InboxView!Answer
<1>13. m \in DOMAIN Letters' \ DOMAIN Letters
  BY <1>1 DEF Letters
<1> HIDE DEF m, k
<1> QED
  BY <1>1, <1>6, <1>7, <1>8, <1>9, <1>10, <1>12, <1>13 DEF InboxView!Send, InboxView!PairOf, Pair

\* What the commit of a read marker does to the rows.
LEMMA MarkRows ==
  ASSUME IInv, NEW c \in Calls, CommitMark(c), UNCHANGED input
  PROVE  LET k == draft[c].conversation
             u == input[c].from
         IN  /\ Reads(c) /\ pc[c] = "commit" /\ input[c].kind = "read" /\ Goto(c, "marked")
             /\ UNCHANGED <<message, pushed>>
             /\ k \in Existing /\ Existing' = Existing /\ conversation[k].users = Pair(c)
             /\ conversation'[k].users = conversation[k].users
             /\ conversation'[k].cursor[u] = draft[c].message
             /\ \A v \in Users \ {u} : conversation'[k].cursor[v] = conversation[k].cursor[v]
             /\ \A j \in ConversationIds \ {k} : conversation'[j] = conversation[j]
<1> DEFINE k == draft[c].conversation
           u == input[c].from
           m == draft[c].message
<1>1. /\ pc[c] = "commit" /\ input[c].kind = "read" /\ Reads(c)
      /\ conversation' = [conversation EXCEPT ![k] = Marked(c)]
      /\ Goto(c, "marked")
      /\ UNCHANGED <<message, pushed>>
  BY DEF CommitMark, Reads
<1>2. Found(c)
  BY <1>1 DEF IInv, CallOK, Reading
<1>3. /\ k \in ConversationIds /\ conversation[k] \in ConversationRow /\ k \in Existing
      /\ u \in Users /\ m \in Nat
  BY <1>2, RowTypes, CallTypes DEF Found, IInv
<1>4. /\ conversation'[k] = Marked(c)
      /\ Marked(c).users = conversation[k].users
      /\ Marked(c).cursor[u] = m
      /\ \A v \in Users \ {u} : Marked(c).cursor[v] = conversation[k].cursor[v]
      /\ \A j \in ConversationIds \ {k} : conversation'[j] = conversation[j]
  BY <1>1, <1>3 DEF IInv, TypeOK, Marked, ConversationRow
<1>5. Existing' = Existing
  <2>1. Marked(c) # NoConversation
    BY <1>2, <1>4 DEF Found, NoConversation, Pair
  <2> QED
    BY <1>3, <1>4, <2>1 DEF Existing
<1> QED
  BY <1>1, <1>2, <1>3, <1>4, <1>5 DEF Found

\* The commit of a read marker moves the reader's place forward to its letter.
LEMMA CommitIsRead ==
  ASSUME IInv, IInv', ViewsOK, ViewsOK', NEW c \in Calls, CommitMark(c), UNCHANGED input
  PROVE  InboxView!ReadUpTo(c, draft[c].message) /\ draft[c].message \in DOMAIN Letters
<1> DEFINE k == draft[c].conversation
           u == input[c].from
           m == draft[c].message
<1>1. /\ Reads(c) /\ pc[c] = "commit" /\ input[c].kind = "read" /\ Goto(c, "marked")
      /\ UNCHANGED <<message, pushed>>
      /\ k \in Existing /\ Existing' = Existing /\ conversation[k].users = Pair(c)
      /\ conversation'[k].users = conversation[k].users
      /\ conversation'[k].cursor[u] = m
      /\ \A v \in Users \ {u} : conversation'[k].cursor[v] = conversation[k].cursor[v]
      /\ \A j \in ConversationIds \ {k} : conversation'[j] = conversation[j]
  BY MarkRows
<1>2. m \in Messages(k) /\ m > conversation[k].cursor[u]
  BY <1>1 DEF IInv, CallOK, Reading, Counted
<1>3. \A j \in Existing : conversation'[j].users = conversation[j].users
  BY <1>1 DEF Existing
<1>4. Letters' = Letters
  <2>1. ASSUME NEW n \in DOMAIN message
        PROVE  Letters'[n] = Letters[n]
    BY <1>1, <1>3, LettersOf DEF Letters
  <2> QED
    BY <1>1, <2>1 DEF Letters
<1>5. Pair(c) \in Pairs /\ u \in Pair(c) /\ u \in Users
  BY <1>1, RowOfExisting, CallTypes DEF Pair, IInv
<1>6. Cursors[Pair(c)][u] = conversation[k].cursor[u] /\ Cursors'[Pair(c)][u] = m
  BY <1>1, <1>5 DEF ViewsOK, Cursors
<1>7. ASSUME NEW p \in Pairs, NEW v \in p, p # Pair(c) \/ v # u
      PROVE  Cursors'[p][v] = Cursors[p][v]
  <2>1. v \in Users
    BY DEF Pairs
  <2>2. ASSUME NEW j \in Existing, conversation[j].users = p
        PROVE  conversation'[j].cursor[v] = conversation[j].cursor[v]
    BY <1>1, <1>7, <2>1, <2>2 DEF Existing
  <2> QED
    BY <1>1, <1>3, <2>2, SamePlace
<1>8. Cursors' = [Cursors EXCEPT ![Pair(c)][u] = m]
  <2>1. /\ DOMAIN Cursors = Pairs /\ DOMAIN Cursors' = Pairs
        /\ \A p \in Pairs : /\ Cursors[p] = [v \in p |-> Cursors[p][v]]
                            /\ Cursors'[p] = [v \in p |-> Cursors'[p][v]]
        /\ Cursors = [p \in Pairs |-> Cursors[p]] /\ Cursors' = [p \in Pairs |-> Cursors'[p]]
    BY DEF Cursors
  <2>2. ASSUME NEW p \in Pairs \ {Pair(c)}
        PROVE  Cursors'[p] = Cursors[p]
    BY <1>7, <2>1
  <2>3. Cursors'[Pair(c)] = [Cursors[Pair(c)] EXCEPT ![u] = m]
    BY <1>5, <1>6, <1>7, <2>1
  <2> QED
    BY <2>1, <2>2, <2>3
<1>9. m \in DOMAIN Letters /\ Letters[m].pair = Pair(c)
  BY <1>1, <1>2 DEF Letters, Messages
<1>10. AnswerOf("marked") = "marked" /\ AnswerOf(pc[c]) = "none"
  BY <1>1 DEF AnswerOf, Statements
<1>11. Answers[c] = "none" /\ InboxView!Answer(c, "marked")
  BY <1>1, <1>10, OneAnswer DEF InboxView!Answer
<1>12. Told' = Told
  BY <1>1 DEF Told
<1> QED
  BY <1>1, <1>2, <1>4, <1>6, <1>8, <1>9, <1>11, <1>12 DEF InboxView!ReadUpTo, InboxView!PairOf, Pair

LEMMA RangeOfAppend ==
  ASSUME NEW s \in Seq(Nat), NEW e \in Nat
  PROVE  Range(Append(s, e)) = Range(s) \cup {e}
<1>1. DOMAIN s = 1..Len(s) /\ Len(s) \in Nat
  OBVIOUS
<1>2. DOMAIN Append(s, e) = 1..(Len(s) + 1)
  OBVIOUS
<1>3. Append(s, e)[Len(s) + 1] = e /\ \A i \in 1..Len(s) : Append(s, e)[i] = s[i]
  OBVIOUS
<1>4. 1..(Len(s) + 1) = 1..Len(s) \cup {Len(s) + 1}
  BY <1>1
<1> QED
  BY <1>1, <1>2, <1>3, <1>4 DEF Range

\* Telling the receiver: nobody else tells of this message.
LEMMA PushIsTell ==
  ASSUME IInv, NEW c \in Calls, Push(c), UNCHANGED input
  PROVE  InboxView!Tell(c)
<1> DEFINE to == input[c].to
           m == draft[c].message
<1>1. /\ pc[c] = "push" /\ Goto(c, "sent") /\ UNCHANGED rows
      /\ pushed' = [pushed EXCEPT ![to] = Append(@, m)]
  BY DEF Push
<1>2. input[c].kind = "send" /\ to \in Users /\ m \in Nat
  BY <1>1, CallTypes DEF IInv, CallOK, KindOK, SendOnly
<1>3. m \in SameKey(c)
  BY <1>1 DEF IInv, CallOK, Stored, Own
<1>4. m \notin Told[to]
  <2>1. ASSUME NEW i \in DOMAIN pushed[to], pushed[to][i] = m
        PROVE  FALSE
    <3>1. PICK d \in Calls : pc[d] = "sent" /\ draft[d].message = m
      BY <1>2, <2>1 DEF IInv, PushedOK
    <3>2. d = c
      BY <1>1, <3>1 DEF IInv, Apart, HasMessage
    <3> QED
      BY <1>1, <3>1, <3>2
  <2> QED
    BY <1>2, <2>1 DEF Told, Range
<1>5. Told' = [Told EXCEPT ![to] = @ \cup {m}]
  <2>1. pushed[to] \in Seq(Nat)
    BY <1>2 DEF IInv, TypeOK
  <2>2. Range(Append(pushed[to], m)) = Range(pushed[to]) \cup {m}
    BY <1>2, <2>1, RangeOfAppend
  <2>3. pushed'[to] = Append(pushed[to], m) /\ \A u \in Users \ {to} : pushed'[u] = pushed[u]
    BY <1>1, <1>2 DEF IInv, TypeOK
  <2> QED
    BY <1>2, <2>2, <2>3 DEF Told
<1>6. m \in InboxView!Mine(c)
  BY <1>2, <1>3, MineIsSameKey
<1>7. AnswerOf("sent") = "sent" /\ AnswerOf(pc[c]) = "stored"
  BY <1>1 DEF AnswerOf, Statements
<1>8. Answers[c] = "stored" /\ InboxView!Answer(c, "sent")
  BY <1>1, <1>7, OneAnswer DEF InboxView!Answer
<1>9. UNCHANGED <<Letters, Cursors>>
  BY <1>1, SameLetters
<1> QED
  BY <1>4, <1>5, <1>6, <1>8, <1>9 DEF InboxView!Tell

LEMMA StepIsInboxStep ==
  ASSUME IInv, IInv', ViewsOK, ViewsOK', [Next]_vars
  PROVE  [InboxView!InboxNext]_(InboxView!inboxVars)
<1>1. ASSUME NEW c \in Calls, UNCHANGED input, InboxStep(c)
      PROVE  InboxView!InboxNext
  BY <1>1 DEF InboxStep, InboxView!InboxNext, ViewsOK
<1>2. ASSUME NEW c \in Calls, Step(c) \/ DeadlockVictim(c) \/ Crash(c), UNCHANGED input
      PROVE  InboxStep(c) \/ UNCHANGED InboxView!inboxVars
  BY <1>2, QuietCases, QuietIsInboxStep, CommitIsSend, CommitIsRead, PushIsTell DEF InboxStep
<1>3. CASE UNCHANGED vars
  <2>1. UNCHANGED <<rows, pushed, input, pc>>
    BY <1>3 DEF vars
  <2> QED
    BY <2>1, SameLetters DEF InboxView!inboxVars, Told, Answers
<1> QED
  BY <1>1, <1>2, <1>3 DEF Next

LEMMA InboxInitially ==
  ASSUME Init, IInv, ViewsOK
  PROVE  InboxView!InboxInit
<1>1. input \in Workloads
  BY DEF Init
<1>2. Answers = [c \in Calls |-> "none"]
  <2>1. \A c \in Calls : pc[c] \in {"checkBlock", "resolve"}
    BY DEF Init
  <2> QED
    BY <2>1 DEF Answers, AnswerOf, Statements
<1>3. ASSUME NEW n \in DOMAIN Letters
      PROVE  n \in Nat /\ Letters[n].pair \in Pairs /\ Letters[n].from \in Letters[n].pair
  <2>1. n \in DOMAIN message /\ n \in Nat
    BY DEF Letters, IInv, TypeOK
  <2>2. /\ Letters[n].pair = conversation[message[n].conversation].users
        /\ message[n].conversation \in Existing
    BY <2>1, LettersOf
  <2>3. Letters[n].from = message[n].sender
    BY <2>1 DEF Letters
  <2> QED
    BY <2>1, <2>2, <2>3, RowOfExisting DEF IInv, MessagesOK
<1>4. ASSUME NEW m \in DOMAIN Letters, NEW n \in DOMAIN Letters,
             Letters[m].from = Letters[n].from, Letters[m].client = Letters[n].client
      PROVE  m = n
  BY <1>4 DEF Letters, IInv, MessagesOK
<1>5. Cursors = [p \in Pairs |-> [u \in p |-> 0]]
  <2>1. ASSUME NEW p \in Pairs, NEW u \in p
        PROVE  RowOf(p).cursor[u] = 0
    <3>1. u \in Users
      BY DEF Pairs
    <3>2. CASE p \in Talking
      <4>1. PICK k \in Existing : conversation[k].users = p
        BY <3>2 DEF Talking
      <4>2. k = Old /\ k \in ConversationIds
        BY <4>1 DEF Init, Existing
      <4>3. conversation[k] = [NewConversation(OldPair) EXCEPT !.last = Len(message),
               !.unread = [v \in Users |-> IF v \in OldPair THEN Unread(v, Old, 0) ELSE 0]]
        BY <4>1, <4>2 DEF Init, Existing
      <4>4. conversation[k].cursor[u] = 0
        BY <3>1, <4>3 DEF NewConversation
      <4> QED
        BY <4>1, <4>4 DEF ViewsOK
    <3>3. CASE p \notin Talking
      BY <3>1, <3>3 DEF RowOf, NewConversation
    <3> QED
      BY <3>2, <3>3
  <2> QED
    BY <2>1 DEF Cursors
<1>6. Told = [u \in Users |-> {}]
  <2>1. \A u \in Users : pushed[u] = << >>
    BY DEF Init
  <2>2. Range(<< >>) = {}
    BY DEF Range
  <2> QED
    BY <2>1, <2>2 DEF Told
<1> QED
  BY <1>1, <1>2, <1>3, <1>4, <1>5, <1>6 DEF InboxView!InboxInit, ViewsOK

\* sendMessage and setReadMessage, statement by statement and all at once, are an
\* inbox: each call takes effect in one step, at its commit, or not at all; a
\* letter is sent once, a reader only moves forward and always knows how many
\* letters wait; the answers "duplicate" and "conflict" tell what is stored.
THEOREM ConversationsImplementInbox == Spec => ImplementsInbox
<1>1. Spec => [](IInv /\ ViewsOK)
  BY IInvStays, ViewsFollow, PTL
<1>2. IInv /\ IInv' /\ ViewsOK /\ ViewsOK' /\ [Next]_vars => [InboxView!InboxNext]_(InboxView!inboxVars)
  BY StepIsInboxStep
<1>3. Init /\ IInv /\ ViewsOK => InboxView!InboxInit
  BY InboxInitially
<1> QED
  BY <1>1, <1>2, <1>3, PTL DEF Spec, ImplementsInbox, InboxView!InboxSpec

=============================================================================
