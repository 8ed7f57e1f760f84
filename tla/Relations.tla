----------------------------- MODULE Relations ------------------------------
(***************************************************************************)
(* Who follows whom and who blocks whom (follow.service.ts,                *)
(* blocks.service.ts).  A row is known by the request that inserted it,    *)
(* because both services delete a row by the id that they have read.       *)
(***************************************************************************)
EXTENDS Requests

CONSTANTS Users

Earlier == "earlier"   \* what inserted the rows that were there before any request

VARIABLES blocks, follows,  \* user_blocks, user_follows
          found             \* found[c]: the row that c has read

relations == <<blocks, follows, found>>

Row == [from : Users, to : Users, by : Calls \cup {Earlier}]
Pair(c) == [from |-> request[c].from, to |-> request[c].to]
Of(rows, from, to) == {r \in rows : r.from = from /\ r.to = to}
Mine(c, rows) == Of(rows, request[c].from, request[c].to)
Theirs(c, rows) == Of(rows, request[c].to, request[c].from)
NewRow(c) == [from |-> request[c].from, to |-> request[c].to, by |-> c]

RelationsTypeOK ==
  /\ blocks \subseteq Row
  /\ follows \subseteq Row
  /\ \A c \in Calls : found[c] \subseteq Row

RelationsInit(B, F) ==
  /\ blocks = {[from |-> p[1], to |-> p[2], by |-> Earlier] : p \in B}
  /\ follows = {[from |-> p[1], to |-> p[2], by |-> Earlier] : p \in F}
  /\ found = [c \in Calls |-> {}]

-----------------------------------------------------------------------------
(* setUserBlock.                                                           *)

FindBlock(c) ==
  /\ Op(c) \in {"block", "unblock"}
  /\ found' = [found EXCEPT ![c] = Mine(c, blocks)]
  /\ \/ /\ Op(c) = "block" /\ Mine(c, blocks) # {}
        /\ Return(c, "idle", "ACTION_DONE_PREVIOUSLY")
     \/ /\ Op(c) = "block" /\ Mine(c, blocks) = {}
        /\ Go(c, "idle", "save block")
     \/ /\ Op(c) = "unblock" /\ Mine(c, blocks) = {}
        /\ Return(c, "idle", "ACTION_DONE_PREVIOUSLY")
     \/ /\ Op(c) = "unblock" /\ Mine(c, blocks) # {}
        /\ Go(c, "idle", "delete block")
  /\ UNCHANGED <<blocks, follows>>

\* The pair is unique; the error is answered as if the row had been read.
SaveBlock(c) ==
  /\ pc[c] = "save block"
  /\ \/ /\ Mine(c, blocks) # {}
        /\ Return(c, "save block", "ACTION_DONE_PREVIOUSLY")
        /\ UNCHANGED blocks
     \/ /\ Mine(c, blocks) = {}
        /\ Go(c, "save block", "delete follow")
        /\ blocks' = blocks \cup {NewRow(c)}
  /\ UNCHANGED <<follows, found>>

DeleteFollow(c) ==
  /\ Go(c, "delete follow", "delete follow back")
  /\ follows' = follows \ Mine(c, follows)
  /\ UNCHANGED <<blocks, found>>

DeleteFollowBack(c) ==
  /\ Return(c, "delete follow back", "OK")
  /\ follows' = follows \ Theirs(c, follows)
  /\ UNCHANGED <<blocks, found>>

DeleteBlock(c) ==
  /\ Return(c, "delete block", "OK")
  /\ blocks' = blocks \ found[c]
  /\ UNCHANGED <<follows, found>>

-----------------------------------------------------------------------------
(* setUserFollow.                                                          *)

\* Mutant of FindBlocked: the other user's blocks are not looked at.
FindBlockedOwn(c) ==
  /\ Op(c) \in {"follow", "unfollow"}
  /\ \/ Mine(c, blocks) # {} /\ Return(c, "idle", "NOT_ACCESS")
     \/ Mine(c, blocks) = {} /\ Go(c, "idle", "find follow")
  /\ UNCHANGED relations

FindBlocked(c) ==
  /\ Op(c) \in {"follow", "unfollow"}
  /\ \/ /\ Mine(c, blocks) \cup Theirs(c, blocks) # {}
        /\ Return(c, "idle", "NOT_ACCESS")
     \/ /\ Mine(c, blocks) \cup Theirs(c, blocks) = {}
        /\ Go(c, "idle", "find follow")
  /\ UNCHANGED relations

FindFollow(c) ==
  /\ pc[c] = "find follow"
  /\ found' = [found EXCEPT ![c] = Mine(c, follows)]
  /\ \/ /\ (Op(c) = "follow") = (Mine(c, follows) # {})
        /\ Return(c, "find follow", "ACTION_DONE_PREVIOUSLY")
     \/ /\ Op(c) = "follow" /\ Mine(c, follows) = {}
        /\ Go(c, "find follow", "save follow")
     \/ /\ Op(c) = "unfollow" /\ Mine(c, follows) # {}
        /\ Go(c, "find follow", "delete own follow")
  /\ UNCHANGED <<blocks, follows>>

\* The pair is unique; the service knows this error by another database's code.
SaveFollow(c) ==
  /\ pc[c] = "save follow"
  /\ \/ /\ Mine(c, follows) # {}
        /\ Return(c, "save follow", "EXCEPTION_ERROR")
        /\ UNCHANGED follows
     \/ /\ Mine(c, follows) = {}
        /\ Go(c, "save follow", "count follows")
        /\ follows' = follows \cup {NewRow(c)}
  /\ UNCHANGED <<blocks, found>>

DeleteOwnFollow(c) ==
  /\ Go(c, "delete own follow", "count follows")
  /\ follows' = follows \ found[c]
  /\ UNCHANGED <<blocks, found>>

CountFollows(c) ==
  /\ Return(c, "count follows", "OK")
  /\ UNCHANGED relations

RelationsStep(c) ==
  \/ FindBlock(c) \/ SaveBlock(c) \/ DeleteFollow(c) \/ DeleteFollowBack(c) \/ DeleteBlock(c)
  \/ FindBlocked(c) \/ FindFollow(c) \/ SaveFollow(c) \/ DeleteOwnFollow(c) \/ CountFollows(c)

-----------------------------------------------------------------------------
\* Once a block has been answered, there is a follow between the two users
\* only if the request that inserted it ran at the same time as the block: no
\* service looks again after it has inserted its row (blocks.service.ts,
\* follow.service.ts).
FollowsEndWithBlocks ==
  \A b \in blocks, f \in follows :
    /\ {f.from, f.to} = {b.from, b.to}
    /\ b.by = Earlier \/ answer[b.by] = "OK"
    => b.by \in Calls /\ f.by \in Calls /\ Met(b.by, f.by)
=============================================================================
