-------------------------------- MODULE Inbox --------------------------------
(***************************************************************************)
(* What two users who write to each other are promised.  A letter that is  *)
(* sent again under its client id is not sent again, a reader only moves   *)
(* forward, and at every moment a reader knows how many letters of the     *)
(* other one are waiting.  Every call takes effect at once, at most once,  *)
(* and an answer says what there is.                                       *)
(*                                                                         *)
(* A call that fails may have sent its letter: then the letter is there,   *)
(* and is counted, but its receiver was not told.                          *)
(***************************************************************************)
EXTENDS Naturals, FiniteSets

CONSTANTS Users,
          Pairs,      \* sets of two users
          Calls,      \* requests: send a letter, or read up to one
          Workloads   \* what the calls may ask for

VARIABLES request,   \* what each call asks for
          answer,    \* its answer: "none" at first, and "stored" once a letter is sent
          letter,    \* the letters, by number
          read,      \* read[p][u]: the last letter of p that u has read
          waiting,   \* waiting[p][u]: how many letters of p wait for u
          told       \* the letters each user was told of

inboxVars == <<request, answer, letter, read, waiting, told>>

PairOf(c) == {request[c].from, request[c].to}

Asked(c) ==
  [from |-> request[c].from, pair |-> PairOf(c), client |-> request[c].client, text |-> request[c].text]

\* What the user of c has sent under the client id of c.
Mine(c) == {n \in DOMAIN letter : letter[n].from = request[c].from /\ letter[n].client = request[c].client}

Waiting(p, u) ==
  Cardinality({n \in DOMAIN letter : letter[n].pair = p /\ letter[n].from # u /\ n > read[p][u]})

InboxInit ==
  /\ request \in Workloads
  /\ answer = [c \in Calls |-> "none"]
  /\ \A n \in DOMAIN letter : n \in Nat /\ letter[n].pair \in Pairs /\ letter[n].from \in letter[n].pair
  /\ \A m, n \in DOMAIN letter : letter[m].from = letter[n].from /\ letter[m].client = letter[n].client => m = n
  /\ read = [p \in Pairs |-> [u \in p |-> 0]]
  /\ waiting = [p \in Pairs |-> [u \in p |-> Waiting(p, u)]]
  /\ told = [u \in Users |-> {}]

Answer(c, reply) == answer' = [answer EXCEPT ![c] = reply]

\* The letter is the newest one of its pair.
Send(c) ==
  /\ request[c].kind = "send" /\ answer[c] = "none"
  /\ Mine(c) = {}
  /\ \E n \in DOMAIN letter' \ DOMAIN letter :
       /\ \A m \in DOMAIN letter : letter[m].pair = PairOf(c) => m < n
       /\ letter' = [m \in DOMAIN letter \cup {n} |-> IF m = n THEN Asked(c) ELSE letter[m]]
  /\ Answer(c, "stored")
  /\ UNCHANGED <<read, told>>

Tell(c) ==
  /\ answer[c] = "stored"
  /\ \E n \in Mine(c) \ told[request[c].to] : told' = [told EXCEPT ![request[c].to] = @ \cup {n}]
  /\ Answer(c, "sent")
  /\ UNCHANGED <<letter, read>>

\* Asked again, or for something else under a client id in use.
Repeat(c) ==
  /\ request[c].kind = "send" /\ answer[c] = "none"
  /\ \E n \in Mine(c) : Answer(c, IF letter[n] = Asked(c) THEN "duplicate" ELSE "conflict")
  /\ UNCHANGED <<letter, read, told>>

ReadUpTo(c, n) ==
  LET p == PairOf(c)
      u == request[c].from
  IN  /\ request[c].kind = "read" /\ answer[c] = "none"
      /\ letter[n].pair = p
      /\ \/ n > read[p][u] /\ read' = [read EXCEPT ![p][u] = n] /\ Answer(c, "marked")
         \/ n <= read[p][u] /\ UNCHANGED read /\ Answer(c, "unchanged")
      /\ UNCHANGED <<letter, told>>

Fail(c) ==
  /\ \/ answer[c] = "none" /\ \E reply \in {"refused", "deadlock", "crashed"} : Answer(c, reply)
     \/ answer[c] = "stored" /\ Answer(c, "crashed")
  /\ UNCHANGED <<letter, read, told>>

InboxNext ==
  /\ \E c \in Calls : \/ Send(c)
                      \/ Tell(c)
                      \/ Repeat(c)
                      \/ \E n \in DOMAIN letter : ReadUpTo(c, n)
                      \/ Fail(c)
  /\ waiting' = [p \in Pairs |-> [u \in p |-> Waiting(p, u)']]
  /\ UNCHANGED request

InboxSpec == InboxInit /\ [][InboxNext]_inboxVars
=============================================================================
