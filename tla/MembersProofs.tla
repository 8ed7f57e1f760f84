---------------------------- MODULE MembersProofs ----------------------------
(***************************************************************************)
(* Blocks end follows, a reset code is good for one reset, accounts are    *)
(* kept and pushes are wanted, for any users and any requests of theirs,   *)
(* with any number of requests lost.                                       *)
(*                                                                         *)
(* The services keep no lock.  What protects an answered block is an       *)
(* argument about time: whoever may still insert a follow has looked for   *)
(* blocks before the block was inserted, and was running then.             *)
(***************************************************************************)
EXTENDS Members, TLAPS

Deleting == {"delete follow", "delete follow back"}
Following == {"find follow", "save follow"}

Between(r, s) == {r.from, r.to} = {s.from, s.to}

Shape ==
  /\ pc = [c \in Calls |-> pc[c]]
  /\ answer = [c \in Calls |-> answer[c]]
  /\ before \in [Calls -> SUBSET Calls]

\* What ended before a request has ended, and what has not is not answered.
Clock ==
  \A c \in Calls :
    /\ \A d \in before[c] : Ended(d)
    /\ ~ Ended(c) => answer[c] = "none"

BlockRows ==
  \A b \in blocks :
    b.by = Earlier \/ (b.by \in Calls /\ b = NewRow(b.by) /\ pc[b.by] \in Deleting \cup {"ended"})

FollowRows == \A f \in follows : f.by = Earlier \/ (f.by \in Calls /\ Begun(f.by))

\* A block that is there while a follow is on its way came after its check.
FollowsOnTheirWay ==
  \A c \in Calls : pc[c] \in Following =>
    \A b \in blocks : Between(b, Pair(c)) => b.by \in Calls /\ Met(b.by, c)

\* A block has dealt with what it had to delete so far.
DealtWith(b, f) ==
  \/ answer[b.by] = "OK"
  \/ pc[b.by] = "delete follow back" /\ f.from = request[b.by].from /\ f.to = request[b.by].to

BlockedFollows ==
  \A b \in blocks, f \in follows : Between(b, f) =>
    /\ b.by \in Calls
    /\ DealtWith(b, f) => f.by \in Calls /\ Met(b.by, f.by)

IInv == Shape /\ Clock /\ BlockRows /\ FollowRows /\ FollowsOnTheirWay /\ BlockedFollows

-----------------------------------------------------------------------------
\* A statement of c, or its loss, as far as the clock is concerned.
Stepped(c) ==
  /\ pc[c] # "ended" /\ pc'[c] # "idle"
  /\ pc' = [d \in Calls |-> pc'[d]]
  /\ answer' = [d \in Calls |-> answer'[d]]
  /\ \A d \in Calls \ {c} : pc'[d] = pc[d] /\ answer'[d] = answer[d]
  /\ answer'[c] = answer[c] \/ pc'[c] = "ended"
  /\ Timed(c)
  /\ request' = request

\* A statement after which c is not about to insert a follow or to delete one,
\* and which neither inserts a row nor finishes a block.
Quiet(c) ==
  /\ Stepped(c)
  /\ pc'[c] \notin {"delete follow", "delete follow back", "find follow", "save follow"}
  /\ pc[c] \in {"delete follow", "delete follow back"} => pc'[c] = "ended" /\ answer'[c] # "OK"
  /\ blocks' \subseteq blocks
  /\ follows' \subseteq follows

\* What happens beside the requests.
Aside == UNCHANGED <<request, pc, answer, before, relations>>

LEMMA EarlierIsNoRequest == Earlier \notin Calls
BY WorkloadsAssumption

LEMMA AccountsAreQuiet ==
  ASSUME Shape, NEW c \in Calls, AccountsStep(c), UNCHANGED <<relations, notifications>>
  PROVE  Quiet(c)
<1> USE DEF Shape, relations, Quiet, Stepped, Go, Return, Move
<1>1. CASE FindPhone(c)  BY <1>1 DEF FindPhone
<1>2. CASE SaveUser(c)  BY <1>2 DEF SaveUser
<1>3. CASE FindForLogin(c)  BY <1>3 DEF FindForLogin
<1>4. CASE Rehash(c)  BY <1>4 DEF Rehash
<1>5. CASE FindForChange(c)  BY <1>5 DEF FindForChange
<1>6. CASE ChangePassword(c)  BY <1>6 DEF ChangePassword
<1>7. CASE FindForCode(c)  BY <1>7 DEF FindForCode
<1>8. CASE GetCooldown(c)  BY <1>8 DEF GetCooldown
<1>9. CASE SetCode(c)  BY <1>9 DEF SetCode
<1>10. CASE SetCooldown(c)  BY <1>10 DEF SetCooldown
<1>11. CASE GetCode(c)  BY <1>11 DEF GetCode
<1>12. CASE DeleteCode(c)  BY <1>12 DEF DeleteCode
<1>13. CASE SetVerified(c)  BY <1>13 DEF SetVerified
<1>14. CASE FindForReset(c)  BY <1>14 DEF FindForReset
<1>15. CASE GetVerified(c)  BY <1>15 DEF GetVerified
<1>16. CASE ResetPassword(c)  BY <1>16 DEF ResetPassword
<1>17. CASE DeleteVerified(c)  BY <1>17 DEF DeleteVerified
<1>18. CASE FindForInfo(c)  BY <1>18 DEF FindForInfo
<1>19. CASE UpdateInfo(c)  BY <1>19 DEF UpdateInfo
<1>20. CASE SetUserInfo(c)  BY <1>20 DEF SetUserInfo
<1> QED
  BY <1>1, <1>2, <1>3, <1>4, <1>5, <1>6, <1>7, <1>8, <1>9, <1>10, <1>11, <1>12, <1>13, <1>14,
     <1>15, <1>16, <1>17, <1>18, <1>19, <1>20 DEF AccountsStep

LEMMA NoticesAreQuiet ==
  ASSUME Shape, NEW c \in Calls, NoticesStep(c), UNCHANGED <<relations, accounts>>
  PROVE  Quiet(c) \/ Aside
<1> USE DEF Shape, relations, Quiet, Stepped, Go, Return, Move
<1>1. CASE FindLike(c)  BY <1>1 DEF FindLike
<1>2. CASE RemoveLike(c)  BY <1>2 DEF RemoveLike
<1>3. CASE SaveLike(c)  BY <1>3 DEF SaveLike
<1>4. CASE NotifySeller(c)  BY <1>4 DEF NotifySeller
<1>5. CASE InsertNotice(c)  BY <1>5 DEF InsertNotice
<1>6. CASE Count(c)  BY <1>6 DEF Count
<1>7. CASE FindNotice(c)  BY <1>7 DEF FindNotice
<1>8. CASE MarkRead(c)  BY <1>8 DEF MarkRead
<1>9. CASE FindSetting(c)  BY <1>9 DEF FindSetting
<1>10. CASE CreateSetting(c)  BY <1>10 DEF CreateSetting
<1>11. CASE LoadSetting(c)  BY <1>11 DEF LoadSetting
<1>12. CASE WriteSetting(c)  BY <1>12 DEF WriteSetting
<1>13. CASE FindDevice(c)  BY <1>13 DEF FindDevice
<1>14. CASE InsertDevice(c)  BY <1>14 DEF InsertDevice
<1>15. CASE LoadDevice(c)  BY <1>15 DEF LoadDevice
<1>16. CASE WriteDevice(c)  BY <1>16 DEF WriteDevice
<1>17. CASE ReadPreference(c) \/ ReadTokens(c) \/ Send(c) \/ Deactivate(c)
  BY <1>17 DEF ReadPreference, ReadTokens, Send, Deactivate, Push, Aside, requests
<1>18. CASE LosePush(c)  BY <1>18 DEF LosePush, Aside
<1> QED
  BY <1>1, <1>2, <1>3, <1>4, <1>5, <1>6, <1>7, <1>8, <1>9, <1>10, <1>11, <1>12, <1>13, <1>14,
     <1>15, <1>16, <1>17, <1>18 DEF NoticesStep
-----------------------------------------------------------------------------
LEMMA ClockRuns ==
  ASSUME Shape, Clock, NEW c \in Calls, Stepped(c)
  PROVE  /\ Shape' /\ Clock'
         /\ \A d \in Calls : Begun(d) => Begun(d)' /\ before'[d] = before[d]
<1> USE DEF Shape, Stepped, Begun, Ended
<1>1. before' \in [Calls -> SUBSET Calls]
  BY DEF Timed
<1>2. \A d \in Calls : pc[d] # "idle" => before'[d] = before[d]
  BY DEF Timed
<1>3. \A d \in Calls : pc[d] = "ended" => pc'[d] = "ended"
  OBVIOUS
<1>4. \A d \in Calls : \A e \in before'[d] : pc[e] = "ended" /\ e \in Calls
  BY DEF Timed, Clock
<1>5. Clock'
  BY <1>3, <1>4, <1>1 DEF Clock
<1> QED
  BY <1>1, <1>2, <1>5

LEMMA Ends ==
  ASSUME NEW a, NEW b, NEW c, NEW d
  PROVE  {a, b} = {c, d} <=> (a = c /\ b = d) \/ (a = d /\ b = c)
OBVIOUS

\* What a step of c keeps of the invariant, as long as it does not touch it.
LEMMA Kept ==
  ASSUME IInv, NEW c \in Calls, Stepped(c)
  PROVE  /\ \A d \in Calls : pc[d] \in Following =>
              \A b \in blocks : Between(b, Pair(d)') => b.by \in Calls /\ Met(b.by, d)'
         /\ \A b \in blocks, f \in follows : Between(b, f) =>
              /\ b.by \in Calls
              /\ DealtWith(b, f) => f.by \in Calls /\ Met(b.by, f.by)'
              /\ b.by # c => (DealtWith(b, f)' <=> DealtWith(b, f))
         /\ \A b \in blocks :
              \/ b.by = Earlier
              \/ b.by \in Calls /\ b = NewRow(b.by)' /\ pc[b.by] \in Deleting \cup {"ended"}
         /\ \A f \in follows : f.by = Earlier \/ (f.by \in Calls /\ Begun(f.by)')
<1> USE DEF IInv
<1>1. \A d \in Calls : Begun(d) => Begun(d)' /\ before'[d] = before[d]
  BY ClockRuns
<1>2. \A b \in blocks : b.by = Earlier \/ (b.by \in Calls /\ Begun(b.by))
  BY DEF BlockRows, Deleting, Begun
<1>3. ASSUME NEW d \in Calls, pc[d] \in Following, NEW b \in blocks, Between(b, Pair(d)')
      PROVE  b.by \in Calls /\ Met(b.by, d)'
  <2>1. Begun(d) /\ Between(b, Pair(d))
    BY <1>3 DEF Stepped, Following, Begun, Pair, Between
  <2>2. b.by \in Calls /\ Met(b.by, d)
    BY <1>3, <2>1 DEF FollowsOnTheirWay
  <2> QED
    BY <2>1, <2>2, <1>1, <1>2, EarlierIsNoRequest DEF Met
<1>4. ASSUME NEW b \in blocks, NEW f \in follows, Between(b, f)
      PROVE  /\ b.by \in Calls
             /\ DealtWith(b, f) => f.by \in Calls /\ Met(b.by, f.by)'
             /\ b.by # c => (DealtWith(b, f)' <=> DealtWith(b, f))
  <2>1. b.by \in Calls /\ (DealtWith(b, f) => f.by \in Calls /\ Met(b.by, f.by))
    BY <1>4 DEF BlockedFollows
  <2>2. ASSUME f.by \in Calls, Met(b.by, f.by) PROVE Met(b.by, f.by)'
    BY <2>1, <2>2, <1>1, <1>2, EarlierIsNoRequest DEF Met, FollowRows
  <2>3. b.by # c => (DealtWith(b, f)' <=> DealtWith(b, f))
    BY <2>1 DEF DealtWith, Stepped
  <2> QED
    BY <2>1, <2>2, <2>3
<1>5. \A b \in blocks :
        \/ b.by = Earlier
        \/ b.by \in Calls /\ b = NewRow(b.by)' /\ pc[b.by] \in Deleting \cup {"ended"}
  BY DEF BlockRows, Stepped, NewRow
<1>6. \A f \in follows : f.by = Earlier \/ (f.by \in Calls /\ Begun(f.by)')
  BY <1>1 DEF FollowRows
<1> QED
  BY <1>3, <1>4, <1>5, <1>6

LEMMA QuietKeeps ==
  ASSUME IInv, NEW c \in Calls, Quiet(c)
  PROVE  IInv'
<1>1. Stepped(c)
  BY DEF Quiet
<1>2. Shape' /\ Clock'
  BY <1>1, ClockRuns DEF IInv
<1>3. BlockRows'
  BY <1>1, Kept DEF BlockRows, Quiet, Stepped, Deleting
<1>4. FollowRows'
  BY <1>1, Kept DEF FollowRows, Quiet
<1>5. FollowsOnTheirWay'
  BY <1>1, Kept DEF FollowsOnTheirWay, Quiet, Stepped, Following, Between
<1>6. BlockedFollows'
  <2> SUFFICES ASSUME NEW b \in blocks', NEW f \in follows', Between(b, f)
               PROVE  b.by \in Calls /\ (DealtWith(b, f)' => f.by \in Calls /\ Met(b.by, f.by)')
    BY DEF BlockedFollows, Between
  <2>1. b \in blocks /\ f \in follows
    BY DEF Quiet
  <2>2. b.by = c => ~ DealtWith(b, f)'
    BY <2>1, <1>1, EarlierIsNoRequest DEF IInv, BlockRows, DealtWith, Quiet, Stepped, Deleting
  <2> QED
    BY <2>1, <2>2, <1>1, Kept
<1> QED
  BY <1>2, <1>3, <1>4, <1>5, <1>6 DEF IInv

-----------------------------------------------------------------------------
LEMMA BlockKeeps ==
  ASSUME IInv, NEW c \in Calls,
         FindBlock(c) \/ SaveBlock(c) \/ DeleteFollow(c) \/ DeleteFollowBack(c) \/ DeleteBlock(c)
  PROVE  IInv'
<1> USE DEF IInv, Shape
<1>1. CASE FindBlock(c)
  <2>1. Quiet(c)
    BY <1>1 DEF FindBlock, Go, Return, Move, Quiet, Stepped
  <2> QED
    BY <2>1, QuietKeeps
<1>2. CASE DeleteBlock(c)
  <2>1. Quiet(c)
    BY <1>2 DEF DeleteBlock, Return, Move, Quiet, Stepped
  <2> QED
    BY <2>1, QuietKeeps
<1>3. CASE SaveBlock(c) /\ pc'[c] = "ended"
  <2>1. Quiet(c)
    BY <1>3 DEF SaveBlock, Go, Return, Move, Quiet, Stepped
  <2> QED
    BY <2>1, QuietKeeps
<1>4. CASE SaveBlock(c) /\ pc'[c] # "ended"
  <2>1. /\ Stepped(c) /\ pc[c] = "save block" /\ pc'[c] = "delete follow" /\ answer' = answer
        /\ blocks' = blocks \cup {NewRow(c)} /\ UNCHANGED <<follows, request>>
    BY <1>4 DEF SaveBlock, Go, Return, Move, Stepped
  <2>2. Shape' /\ Clock' /\ before'[c] = before[c]
    BY <2>1, ClockRuns DEF Begun
  <2>3. NewRow(c)' = NewRow(c) /\ NewRow(c).by = c /\ answer[c] = "none"
    BY <2>1 DEF NewRow, Clock, Ended
  <2>4. \A b \in blocks : b.by # c
    BY <2>1, EarlierIsNoRequest DEF BlockRows, Deleting
  <2>5. BlockRows'
    BY <2>1, <2>3, <2>4, Kept DEF BlockRows, Stepped, Deleting
  <2>6. FollowRows'
    BY <2>1, Kept DEF FollowRows
  <2>7. FollowsOnTheirWay'
    <3> SUFFICES ASSUME NEW d \in Calls, pc'[d] \in Following, NEW b \in blocks', Between(b, Pair(d)')
                 PROVE  b.by \in Calls /\ Met(b.by, d)'
      BY DEF FollowsOnTheirWay, Between
    <3>1. d # c /\ pc[d] \in Following
      BY <2>1 DEF Stepped, Following
    <3>2. Met(c, d)'
      BY <2>2, <2>1, <3>1 DEF Clock, Met, Ended, Following
    <3> QED
      BY <3>1, <3>2, <2>1, <2>3, Kept
  <2>8. BlockedFollows'
    <3> SUFFICES ASSUME NEW b \in blocks', NEW f \in follows', Between(b, f)
                 PROVE  b.by \in Calls /\ (DealtWith(b, f)' => f.by \in Calls /\ Met(b.by, f.by)')
      BY DEF BlockedFollows, Between
    <3>1. CASE b = NewRow(c)
      BY <3>1, <2>1, <2>3 DEF DealtWith
    <3>2. CASE b \in blocks
      BY <3>2, <2>1, <2>4, Kept
    <3> QED
      BY <3>1, <3>2, <2>1
  <2> QED
    BY <2>2, <2>5, <2>6, <2>7, <2>8
<1>5. CASE DeleteFollow(c)
  <2>1. /\ Stepped(c) /\ pc[c] = "delete follow" /\ pc'[c] = "delete follow back" /\ answer' = answer
        /\ follows' = follows \ Mine(c, follows) /\ UNCHANGED <<blocks, request>>
    BY <1>5 DEF DeleteFollow, Go, Move, Stepped
  <2>2. Shape' /\ Clock' /\ answer[c] = "none"
    BY <2>1, ClockRuns DEF Clock, Ended
  <2>3. BlockRows'
    BY <2>1, Kept DEF BlockRows, Stepped, Deleting
  <2>4. FollowRows'
    BY <2>1, Kept DEF FollowRows
  <2>5. FollowsOnTheirWay'
    BY <2>1, Kept DEF FollowsOnTheirWay, Stepped, Following, Between
  <2>6. BlockedFollows'
    <3> SUFFICES ASSUME NEW b \in blocks', NEW f \in follows', Between(b, f)
                 PROVE  b.by \in Calls /\ (DealtWith(b, f)' => f.by \in Calls /\ Met(b.by, f.by)')
      BY DEF BlockedFollows, Between
    <3>1. b \in blocks /\ f \in follows /\ f \notin Mine(c, follows)
      BY <2>1
    <3>2. b.by = c => ~ DealtWith(b, f)'
      BY <3>1, <2>1, <2>2 DEF DealtWith, Mine, Of
    <3> QED
      BY <3>1, <3>2, <2>1, Kept
  <2> QED
    BY <2>2, <2>3, <2>4, <2>5, <2>6
<1>6. CASE DeleteFollowBack(c)
  <2>1. /\ Stepped(c) /\ pc[c] = "delete follow back" /\ pc'[c] = "ended" /\ request' = request
        /\ follows' = follows \ Theirs(c, follows) /\ blocks' = blocks
    BY <1>6 DEF DeleteFollowBack, Return, Move, Stepped
  <2>2. Shape' /\ Clock'
    BY <2>1, ClockRuns
  <2>3. BlockRows'
    BY <2>1, Kept DEF BlockRows, Stepped, Deleting
  <2>4. FollowRows'
    BY <2>1, Kept DEF FollowRows
  <2>5. FollowsOnTheirWay'
    BY <2>1, Kept DEF FollowsOnTheirWay, Stepped, Following, Between
  <2>6. BlockedFollows'
    <3> SUFFICES ASSUME NEW b \in blocks', NEW f \in follows', Between(b, f)
                 PROVE  b.by \in Calls /\ (DealtWith(b, f)' => f.by \in Calls /\ Met(b.by, f.by)')
      BY DEF BlockedFollows, Between
    <3>1. b \in blocks /\ f \in follows /\ f \notin Theirs(c, follows)
      BY <2>1
    <3>2. ASSUME b.by = c PROVE DealtWith(b, f)
      <4>1. b.from = request[c].from /\ b.to = request[c].to
        BY <3>1, <3>2, EarlierIsNoRequest DEF BlockRows, NewRow
      <4>2. ~ (f.from = b.to /\ f.to = b.from)
        BY <3>1, <4>1 DEF Theirs, Of
      <4>3. f.from = b.from /\ f.to = b.to
        BY <4>2, Ends DEF Between
      <4> QED
        BY <4>1, <4>3, <3>2, <2>1 DEF DealtWith
    <3> QED
      BY <3>1, <3>2, <2>1, Kept
  <2> QED
    BY <2>2, <2>3, <2>4, <2>5, <2>6
<1> QED
  BY <1>1, <1>2, <1>3, <1>4, <1>5, <1>6

LEMMA FollowingSteps ==
  ASSUME NEW c \in Calls, SaveFollow(c) \/ DeleteOwnFollow(c) \/ CountFollows(c), Shape
  PROVE  pc'[c] \notin Following
BY DEF Shape, SaveFollow, DeleteOwnFollow, CountFollows, Go, Return, Move, Following

LEMMA FollowKeeps ==
  ASSUME IInv, NEW c \in Calls,
         FindBlocked(c) \/ FindFollow(c) \/ SaveFollow(c) \/ DeleteOwnFollow(c) \/ CountFollows(c)
  PROVE  IInv'
<1> USE DEF IInv, Shape
<1>1. CASE pc'[c] \notin Following /\ ~ (SaveFollow(c) /\ pc'[c] = "count follows")
  <2>1. Quiet(c)
    <3>1. CASE FindBlocked(c)
      BY <1>1, <3>1 DEF FindBlocked, relations, Following, Go, Return, Move, Quiet, Stepped
    <3>2. CASE FindFollow(c)
      BY <1>1, <3>2 DEF FindFollow, Following, Go, Return, Move, Quiet, Stepped
    <3>3. CASE SaveFollow(c)
      BY <1>1, <3>3 DEF SaveFollow, Following, Go, Return, Move, Quiet, Stepped
    <3>4. CASE DeleteOwnFollow(c)
      BY <1>1, <3>4 DEF DeleteOwnFollow, Following, Go, Return, Move, Quiet, Stepped
    <3>5. CASE CountFollows(c)
      BY <1>1, <3>5 DEF CountFollows, relations, Following, Go, Return, Move, Quiet, Stepped
    <3> QED
      BY <3>1, <3>2, <3>3, <3>4, <3>5
  <2> QED
    BY <2>1, QuietKeeps
<1>2. CASE (FindBlocked(c) \/ FindFollow(c)) /\ pc'[c] \in Following
  <2>1. /\ Stepped(c) /\ answer' = answer /\ UNCHANGED <<blocks, follows, request>>
        /\ \/ pc[c] \in Following
           \/ pc[c] = "idle" /\ Mine(c, blocks) \cup Theirs(c, blocks) = {}
    BY <1>2 DEF FindBlocked, FindFollow, relations, Go, Return, Move, Stepped, Following
  <2>2. Shape' /\ Clock'
    BY <2>1, ClockRuns
  <2>3. \A b \in blocks : b.by # c
    BY <2>1, EarlierIsNoRequest DEF BlockRows, Deleting, Following
  <2>4. BlockRows'
    BY <2>1, <2>3, Kept DEF BlockRows, Stepped
  <2>5. FollowRows'
    BY <2>1, Kept DEF FollowRows
  <2>6. FollowsOnTheirWay'
    <3> SUFFICES ASSUME NEW d \in Calls, pc'[d] \in Following, NEW b \in blocks, Between(b, Pair(d)')
                 PROVE  b.by \in Calls /\ Met(b.by, d)'
      BY <2>1 DEF FollowsOnTheirWay, Between
    <3>1. pc[d] \in Following
      <4>1. CASE d # c
        BY <4>1, <2>1 DEF Stepped
      <4>2. CASE d = c
        <5>1. b \in Mine(c, blocks) \cup Theirs(c, blocks)
          BY <4>2, <2>1, Ends DEF Between, Pair, Mine, Theirs, Of
        <5> QED
          BY <5>1, <4>2, <2>1
      <4> QED
        BY <4>1, <4>2
    <3> QED
      BY <3>1, <2>1, Kept
  <2>7. BlockedFollows'
    BY <2>1, <2>3, Kept DEF BlockedFollows, Between
  <2> QED
    BY <2>2, <2>4, <2>5, <2>6, <2>7
<1>3. CASE SaveFollow(c) /\ pc'[c] = "count follows"
  <2>1. /\ Stepped(c) /\ answer' = answer /\ UNCHANGED <<blocks, request>>
        /\ pc[c] \in Following /\ pc'[c] = "count follows" /\ follows' = follows \cup {NewRow(c)}
    BY <1>3 DEF SaveFollow, Go, Return, Move, Stepped, Following
  <2>2. Shape' /\ Clock'
    BY <2>1, ClockRuns
  <2>3. \A b \in blocks : b.by # c
    BY <2>1, EarlierIsNoRequest DEF BlockRows, Deleting, Following
  <2>4. BlockRows'
    BY <2>1, <2>3, Kept DEF BlockRows, Stepped
  <2>5. FollowRows'
    <3>1. NewRow(c).by = c /\ Begun(c)'
      BY <2>1 DEF NewRow, Begun
    <3>2. \A f \in follows' : f \in follows \/ f.by = c
      BY <2>1, <3>1
    <3> QED
      BY <3>1, <3>2, <2>1, Kept DEF FollowRows
  <2>6. FollowsOnTheirWay'
    BY <2>1, Kept DEF FollowsOnTheirWay, Stepped, Following, Between
  <2>7. BlockedFollows'
    <3> SUFFICES ASSUME NEW b \in blocks, NEW f \in follows', Between(b, f)
                 PROVE  b.by \in Calls /\ (DealtWith(b, f)' => f.by \in Calls /\ Met(b.by, f.by)')
      BY <2>1 DEF BlockedFollows, Between
    <3>1. CASE f \in follows
      BY <3>1, <2>1, <2>3, Kept
    <3>2. CASE f = NewRow(c)
      <4>1. Between(b, Pair(c)') /\ f.by = c
        BY <3>2, <2>1 DEF Between, NewRow, Pair
      <4> QED
        BY <4>1, <2>1, Kept
    <3> QED
      BY <3>1, <3>2, <2>1
  <2> QED
    BY <2>2, <2>4, <2>5, <2>6, <2>7
<1> QED
  BY <1>1, <1>2, <1>3, FollowingSteps

-----------------------------------------------------------------------------
LEMMA InitIInv == Init => IInv
<1> SUFFICES ASSUME NEW w \in Workloads, RequestsInit, RelationsInit(w.blocks, w.follows)
             PROVE  IInv
  BY DEF Init
<1>1. Shape /\ Clock /\ \A c \in Calls : pc[c] = "idle"
  BY DEF RequestsInit, Shape, Clock, Ended
<1>2. BlockRows /\ FollowRows
  BY DEF RelationsInit, BlockRows, FollowRows
<1>3. FollowsOnTheirWay
  BY <1>1 DEF FollowsOnTheirWay, Following
<1>4. \A b \in blocks, f \in follows : ~ Between(b, f)
  <2>1. \A p \in w.blocks, q \in w.follows : {p[1], p[2]} # {q[1], q[2]}
    BY WorkloadsAssumption
  <2>2. SUFFICES ASSUME NEW b \in blocks, NEW f \in follows PROVE {b.from, b.to} # {f.from, f.to}
    BY DEF Between
  <2>3. PICK p \in w.blocks : b = [from |-> p[1], to |-> p[2], by |-> Earlier]
    BY DEF RelationsInit
  <2>4. PICK q \in w.follows : f = [from |-> q[1], to |-> q[2], by |-> Earlier]
    BY DEF RelationsInit
  <2>5. b.from = p[1] /\ b.to = p[2] /\ f.from = q[1] /\ f.to = q[2]
    BY <2>3, <2>4
  <2> QED
    BY <2>1, <2>5
<1> QED
  BY <1>1, <1>2, <1>3, <1>4 DEF IInv, BlockedFollows

LEMMA AsideKeeps == ASSUME IInv, Aside PROVE IInv'
BY DEF IInv, Aside, Shape, Clock, BlockRows, FollowRows, FollowsOnTheirWay, BlockedFollows, relations,
       Ended, Begun, DealtWith, Met, NewRow, Pair, Between

LEMMA NextKeeps == IInv /\ [Next]_vars => IInv'
<1> SUFFICES ASSUME IInv, [Next]_vars PROVE IInv'
  OBVIOUS
<1>1. ASSUME NEW c \in Calls, RelationsStep(c) PROVE IInv'
  BY <1>1, BlockKeeps, FollowKeeps DEF RelationsStep
<1>2. ASSUME NEW c \in Calls, AccountsStep(c), UNCHANGED <<relations, notifications>> PROVE IInv'
  BY <1>2, AccountsAreQuiet, QuietKeeps DEF IInv
<1>3. ASSUME NEW c \in Calls, NoticesStep(c), UNCHANGED <<relations, accounts>> PROVE IInv'
  BY <1>3, NoticesAreQuiet, QuietKeeps, AsideKeeps DEF IInv
<1>4. ASSUME NEW c \in Calls, Lose(c), UNCHANGED relations PROVE IInv'
  <2>1. Quiet(c)
    BY <1>4 DEF IInv, Shape, Lose, Quiet, Stepped, Timed, Ended, relations
  <2> QED
    BY <2>1, QuietKeeps
<1>5. ASSUME UNCHANGED <<requests, relations>> PROVE IInv'
  BY <1>5, AsideKeeps DEF Aside, requests
<1> QED
  BY <1>1, <1>2, <1>3, <1>4, <1>5 DEF Next, vars

\* Once a block has been answered, no follow between the two users is left, or
\* comes, except from requests that overlapped the block.
THEOREM BlocksEndFollows == Spec => []FollowsEndWithBlocks
<1>1. IInv => FollowsEndWithBlocks
  BY EarlierIsNoRequest
     DEF IInv, FollowsEndWithBlocks, BlockRows, BlockedFollows, Between, DealtWith
<1> QED
  BY <1>1, InitIInv, NextKeeps, PTL DEF Spec

-----------------------------------------------------------------------------
(***************************************************************************)
(* Reset codes.  Redis is read and written without a transaction, so the   *)
(* argument is about time again: a code or a verification that has been    *)
(* deleted is never set again, because each is set by its own request,     *)
(* which is over.                                                          *)
(***************************************************************************)
Coding == {"get cooldown", "set code", "set cooldown"}
Checking == {"delete code", "set verified"}
Resetting == {"get verified", "reset password", "delete verified"}

\* The three kinds of requests on reset codes, and their statements.
StepsOf(c) ==
  /\ Op(c) = "create code" => pc[c] \in Coding \cup {"idle", "ended"}
  /\ Op(c) = "check code" => pc[c] \in Checking \cup {"idle", "ended"}
  /\ Op(c) = "reset" => pc[c] \in Resetting \cup {"idle", "ended"}
  /\ pc[c] \in Coding => Op(c) = "create code"
  /\ pc[c] \in Checking => Op(c) = "check code"
  /\ pc[c] \in Resetting => Op(c) = "reset"
Steps == \A c \in Calls : StepsOf(c)

KnownRequests ==
  \A c \in Calls :
    /\ Op(c) \in {"create code", "check code", "reset"} => Phone(c) \in Phones
    /\ Op(c) = "check code" => request[c].code \in Calls

\* How far a request has come, unless it was refused or lost.
Made(d) == Op(d) = "create code" /\ (pc[d] = "set cooldown" \/ answer[d] = "OK")
Passed(k) == Op(k) = "check code" /\ (pc[k] \in {"delete code", "set verified"} \/ answer[k] = "OK")
Deleted(k) == Op(k) = "check code" /\ (pc[k] = "set verified" \/ answer[k] = "OK")
Granted(r) == Op(r) = "reset" /\ (pc[r] \in {"reset password", "delete verified"} \/ answer[r] = "OK")
Done(s) == Op(s) = "reset" /\ answer[s] = "OK"

\* What can be made a code, or a verification, has been.
MadeBy(c, p) == c \in Calls /\ Phone(c) = p /\ pc[c] \in {"set cooldown", "ended"}
VerifiedBy(k, p) == k \in Calls /\ Op(k) = "check code" /\ Phone(k) = p /\ Ended(k)

Keys ==
  /\ code = [p \in Phones |-> code[p]] /\ verified = [p \in Phones |-> verified[p]]
  /\ grant = [c \in Calls |-> grant[c]]
  /\ \A p \in Phones :
       /\ code[p] = NoKey \/ (MadeBy(code[p], p) /\ Op(code[p]) = "create code")
       /\ verified[p] = NoKey \/ VerifiedBy(verified[p], p)

\* A code is overwritten by the next one, and gone once it has been used.
Overwritten == \A d \in Calls : Made(d) => \A c \in before[d] : code[Phone(d)] # c
Used == \A k \in Calls : Deleted(k) => code[Phone(k)] # request[k].code
Spent == \A s \in Calls : Done(s) => verified[Phone(s)] # grant[s]

Fresh ==
  \A k \in Calls : Passed(k) =>
    /\ MadeBy(request[k].code, Phone(k))
    /\ \A d \in before[k] :
         /\ Op(d) = "create code" /\ answer[d] = "OK" /\ Phone(d) = Phone(k) => request[k].code \notin before[d]
         /\ Op(d) = "check code" /\ answer[d] = "OK" => request[d].code # request[k].code

Grants ==
  \A r \in Calls : Granted(r) =>
    /\ VerifiedBy(grant[r], Phone(r))
    /\ \A s \in before[r] : Done(s) => grant[s] # grant[r]

AInv == Shape /\ Clock /\ Steps /\ KnownRequests /\ Keys /\ Overwritten /\ Used /\ Spent /\ Fresh /\ Grants

-----------------------------------------------------------------------------
\* A statement of c as far as the keys are concerned: how they change, and what
\* has been found in them by a request that comes further.
Handled(c) ==
  /\ Stepped(c)
  /\ StepsOf(c)'
  /\ code' = [p \in Phones |-> code'[p]] /\ verified' = [p \in Phones |-> verified'[p]]
  /\ grant' = [d \in Calls |-> grant'[d]]
  /\ \A d \in Calls \ {c} : grant'[d] = grant[d]
  /\ \A p \in Phones :
       /\ \/ code'[p] \in {code[p], NoKey}
          \/ code'[p] = c /\ p = Phone(c) /\ Op(c) = "create code" /\ pc[c] = "set code" /\ pc'[c] = "set cooldown"
       /\ \/ verified'[p] \in {verified[p], NoKey}
          \/ verified'[p] = c /\ p = Phone(c) /\ Op(c) = "check code" /\ pc'[c] = "ended"
  /\ pc[c] = "set cooldown" => pc'[c] = "ended"
  /\ Made(c)' => Made(c) \/ code'[Phone(c)] = c
  /\ Passed(c)' => Passed(c) \/ code[Phone(c)] = request[c].code
  /\ Deleted(c)' => Deleted(c) \/ code'[Phone(c)] = NoKey
  /\ Granted(c)' => \/ Granted(c) /\ grant'[c] = grant[c]
                    \/ verified[Phone(c)] # NoKey /\ grant'[c] = verified[Phone(c)]
  /\ Done(c)' => Granted(c) /\ grant'[c] = grant[c] /\ verified'[Phone(c)] = NoKey

LEMMA InitAInv == Init => AInv
<1> SUFFICES ASSUME NEW w \in Workloads, request = w.requests, RequestsInit, AccountsInit(w.users)
             PROVE  AInv
  BY DEF Init
<1>1. Shape /\ Clock /\ \A c \in Calls : pc[c] = "idle" /\ answer[c] = "none"
  BY DEF RequestsInit, Shape, Clock, Ended
<1>2. Steps /\ KnownRequests
  BY <1>1, WorkloadsAssumption
     DEF Steps, StepsOf, Coding, Checking, Resetting, KnownRequests, Op, Phone, AccountOps, PasswordOps
<1>3. Keys
  BY DEF AccountsInit, Keys
<1>4. \A c \in Calls : ~ Made(c) /\ ~ Passed(c) /\ ~ Deleted(c) /\ ~ Granted(c) /\ ~ Done(c)
  BY <1>1 DEF Made, Passed, Deleted, Granted, Done
<1> QED
  BY <1>1, <1>2, <1>3, <1>4 DEF AInv, Overwritten, Used, Spent, Fresh, Grants

\* What every step of c keeps of the other requests, and of what has ended.
LEMMA StepFacts ==
  ASSUME Shape, Clock, NEW c \in Calls, Stepped(c)
  PROVE  /\ Shape' /\ Clock' /\ (KnownRequests => KnownRequests')
         /\ \A d \in Calls : Op(d)' = Op(d) /\ Phone(d)' = Phone(d) /\ request'[d] = request[d]
         /\ \A d \in Calls : Begun(d) => before'[d] = before[d]
         /\ \A d \in Calls : \A e \in before'[d] : e \in Calls /\ e # c
         /\ \A d \in Calls \ {c} :
              /\ (Made(d)' <=> Made(d)) /\ (Passed(d)' <=> Passed(d)) /\ (Deleted(d)' <=> Deleted(d))
              /\ (Granted(d)' <=> Granted(d)) /\ (Done(d)' <=> Done(d)) /\ answer'[d] = answer[d]
         /\ \A d \in Calls, p \in Phones :
              /\ VerifiedBy(d, p) => VerifiedBy(d, p)'
              /\ MadeBy(d, p) /\ (d = c /\ pc[c] = "set cooldown" => pc'[c] = "ended") => MadeBy(d, p)'
<1>1. Shape' /\ Clock' /\ \A d \in Calls : Begun(d) => before'[d] = before[d]
  BY ClockRuns
<1>2. \A d \in Calls : Op(d)' = Op(d) /\ Phone(d)' = Phone(d) /\ request'[d] = request[d]
  BY DEF Stepped, Op, Phone
<1>3. KnownRequests => KnownRequests'
  BY <1>2 DEF KnownRequests
<1>4. \A d \in Calls : \A e \in before'[d] : e \in Calls /\ e # c
  BY <1>1 DEF Shape, Clock, Stepped, Timed, Ended
<1>5. \A d \in Calls \ {c} : pc'[d] = pc[d] /\ answer'[d] = answer[d]
  BY DEF Stepped
<1>6. \A d \in Calls \ {c} :
        /\ (Made(d)' <=> Made(d)) /\ (Passed(d)' <=> Passed(d)) /\ (Deleted(d)' <=> Deleted(d))
        /\ (Granted(d)' <=> Granted(d)) /\ (Done(d)' <=> Done(d))
  BY <1>2, <1>5 DEF Made, Passed, Deleted, Granted, Done
<1>7. \A d \in Calls : Ended(d) => Ended(d)'
  BY DEF Stepped, Ended
<1>8. \A d \in Calls, p \in Phones : VerifiedBy(d, p) => VerifiedBy(d, p)'
  BY <1>2, <1>7 DEF VerifiedBy
<1>9. \A d \in Calls, p \in Phones :
        MadeBy(d, p) /\ (d = c /\ pc[c] = "set cooldown" => pc'[c] = "ended") => MadeBy(d, p)'
  BY <1>2, <1>5, <1>7 DEF MadeBy, Stepped, Ended
<1> QED
  BY <1>1, <1>2, <1>3, <1>4, <1>5, <1>6, <1>8, <1>9

LEMMA HandledKeeps ==
  ASSUME AInv, NEW c \in Calls, Handled(c)
  PROVE  AInv'
<1> USE DEF AInv
<1>1. Stepped(c) /\ request' = request /\ pc[c] # "ended" /\ NoKey \notin Calls
  BY AccountsAssumption DEF Handled, Stepped
<1>2. Shape' /\ Clock' /\ Steps' /\ KnownRequests'
  <2>1. \A d \in Calls \ {c} : StepsOf(d)'
    BY <1>1 DEF Steps, StepsOf, Stepped, Op
  <2> QED
    BY <1>1, <2>1, StepFacts DEF Handled, Steps
<1>3. \A d \in Calls, p \in Phones :
        (MadeBy(d, p) => MadeBy(d, p)') /\ (VerifiedBy(d, p) => VerifiedBy(d, p)')
  BY <1>1, StepFacts DEF Handled
<1>4. \A d \in Calls :
        /\ Made(d)' => Made(d) \/ (d = c /\ code'[Phone(d)] = c)
        /\ Passed(d)' => Passed(d) \/ (d = c /\ code[Phone(d)] = request[d].code)
        /\ Deleted(d)' => Deleted(d) \/ (d = c /\ code'[Phone(d)] = NoKey)
        /\ Granted(d)' => \/ Granted(d) /\ grant'[d] = grant[d]
                          \/ d = c /\ verified[Phone(d)] # NoKey /\ grant'[d] = verified[Phone(d)]
        /\ Done(d)' => /\ grant'[d] = grant[d]
                       /\ (d # c /\ Done(d)) \/ (d = c /\ Granted(d) /\ verified'[Phone(d)] = NoKey)
  BY <1>1, StepFacts DEF Handled
<1>5. \A d \in Calls : Made(d) \/ Passed(d) \/ Granted(d) \/ Deleted(d) \/ Done(d) => before'[d] = before[d]
  <2>1. \A d \in Calls : Made(d) \/ Passed(d) \/ Granted(d) \/ Deleted(d) \/ Done(d) => pc[d] # "idle"
    BY DEF Made, Passed, Granted, Deleted, Done, Clock, Ended
  <2> QED
    BY <1>1, <2>1, StepFacts DEF Begun
<1>6. \A d \in Calls : \A e \in before'[d] :
        /\ e \in Calls /\ e # c /\ answer'[e] = answer[e] /\ before'[e] = before[e]
        /\ Done(e)' => Done(e) /\ grant'[e] = grant[e]
  <2> SUFFICES ASSUME NEW d \in Calls, NEW e \in before'[d]
               PROVE  /\ e \in Calls /\ e # c /\ answer'[e] = answer[e] /\ before'[e] = before[e]
                      /\ Done(e)' => Done(e) /\ grant'[e] = grant[e]
    OBVIOUS
  <2>1. e \in Calls /\ e # c
    BY <1>1, StepFacts
  <2>2. Ended(e)' /\ pc'[e] = pc[e] /\ answer'[e] = answer[e]
    BY <1>1, <1>2, <2>1 DEF Clock, Stepped
  <2>3. before'[e] = before[e]
    BY <1>1, <2>1, <2>2, StepFacts DEF Begun, Ended
  <2> QED
    BY <1>4, <2>1, <2>2, <2>3
<1>7. \A d \in Calls : Phone(d)' = Phone(d) /\ Op(d)' = Op(d)
  BY <1>1 DEF Phone, Op
<1>8. \A k \in Calls : Passed(k) => request[k].code \in Calls /\ Phone(k) \in Phones /\ Phone(request[k].code) = Phone(k)
  BY DEF Fresh, MadeBy, KnownRequests, Passed
<1>9. \A r \in Calls : Granted(r) => grant[r] \in Calls /\ Phone(r) \in Phones /\ Phone(grant[r]) = Phone(r) /\ Ended(grant[r])
  BY DEF Grants, VerifiedBy, KnownRequests, Granted
<1>10. Keys'
  <2>1. ASSUME NEW p \in Phones
        PROVE  /\ code'[p] = NoKey \/ (MadeBy(code[p], p)' /\ Op(code[p])' = "create code")
               /\ verified'[p] = NoKey \/ VerifiedBy(verified[p], p)'
    <3>1. ASSUME NEW x \in Calls, x = code'[p], MadeBy(x, p)', Op(x) = "create code"
          PROVE  MadeBy(code[p], p)' /\ Op(code[p])' = "create code"
      BY <1>1, <3>1 DEF MadeBy, Op, Phone
    <3>2. ASSUME NEW x \in Calls, x = verified'[p], VerifiedBy(x, p)'
          PROVE  VerifiedBy(verified[p], p)'
      BY <1>1, <3>2 DEF VerifiedBy, Op, Phone, Ended
    <3>3. code[p] = NoKey \/ (MadeBy(code[p], p) /\ Op(code[p]) = "create code" /\ code[p] \in Calls)
      BY DEF Keys, MadeBy
    <3>4. verified[p] = NoKey \/ (VerifiedBy(verified[p], p) /\ verified[p] \in Calls)
      BY DEF Keys, VerifiedBy
    <3>5. p = Phone(c) /\ pc'[c] = "set cooldown" => MadeBy(c, p)'
      BY <1>1 DEF MadeBy, Phone
    <3>6. p = Phone(c) /\ pc'[c] = "ended" /\ Op(c) = "check code" => VerifiedBy(c, p)'
      BY <1>1 DEF VerifiedBy, Phone, Op, Ended
    <3>7. code'[p] = NoKey \/ \E x \in Calls : x = code'[p] /\ MadeBy(x, p)' /\ Op(x) = "create code"
      <4>1. CASE code'[p] = code[p]
        <5>1. CASE code[p] = NoKey
          BY <4>1, <5>1
        <5>2. ASSUME NEW x \in Calls, x = code[p], MadeBy(x, p), Op(x) = "create code"
              PROVE  x = code'[p] /\ MadeBy(x, p)' /\ Op(x) = "create code"
          BY <1>3, <4>1, <5>2
        <5> QED
          BY <3>3, <5>1, <5>2
      <4>2. CASE code'[p] = c /\ p = Phone(c) /\ Op(c) = "create code" /\ pc'[c] = "set cooldown"
        <5>1. MadeBy(c, p)'
          BY <3>5, <4>2
        <5> QED
          BY <4>2, <5>1
      <4> QED
        BY <4>1, <4>2 DEF Handled
    <3>8. verified'[p] = NoKey \/ \E x \in Calls : x = verified'[p] /\ VerifiedBy(x, p)'
      <4>1. CASE verified'[p] = verified[p]
        <5>1. CASE verified[p] = NoKey
          BY <4>1, <5>1
        <5>2. ASSUME NEW x \in Calls, x = verified[p], VerifiedBy(x, p)
              PROVE  x = verified'[p] /\ VerifiedBy(x, p)'
          BY <1>3, <4>1, <5>2
        <5> QED
          BY <3>4, <5>1, <5>2
      <4>2. CASE verified'[p] = c /\ p = Phone(c) /\ Op(c) = "check code" /\ pc'[c] = "ended"
        <5>1. VerifiedBy(c, p)'
          BY <3>6, <4>2
        <5> QED
          BY <4>2, <5>1
      <4> QED
        BY <4>1, <4>2 DEF Handled
    <3> QED
      BY <3>1, <3>2, <3>7, <3>8
  <2> QED
    BY <2>1 DEF Keys, Handled
<1>11. Overwritten'
  <2> SUFFICES ASSUME NEW d \in Calls, Made(d)', NEW e \in before'[d] PROVE code'[Phone(d)'] # e
    BY DEF Overwritten
  <2>1. e \in Calls /\ e # c
    BY <1>6
  <2>2. CASE Made(d)
    <3>1. Phone(d) \in Phones /\ code[Phone(d)] # e
      BY <1>5, <2>2 DEF Overwritten, KnownRequests, Made
    <3> QED
      BY <1>1, <1>7, <2>1, <3>1 DEF Handled
  <2>3. CASE code'[Phone(d)] = c
    BY <1>7, <2>1, <2>3
  <2> QED
    BY <1>4, <2>2, <2>3
<1>12. Used'
  <2> SUFFICES ASSUME NEW k \in Calls, Deleted(k)' PROVE code'[Phone(k)'] # request'[k].code
    BY DEF Used
  <2>1. CASE Deleted(k)
    <3>1. Passed(k) /\ code[Phone(k)] # request[k].code
      BY <2>1 DEF Used, Deleted, Passed
    <3>2. request[k].code # c \/ pc[c] # "set code"
      BY <3>1 DEF Fresh, MadeBy
    <3> QED
      BY <1>1, <1>7, <1>8, <3>1, <3>2 DEF Handled
  <2>2. CASE k = c /\ code'[Phone(k)] = NoKey
    <3>1. request[k].code \in Calls
      BY <1>7 DEF KnownRequests, Deleted
    <3> QED
      BY <1>1, <1>7, <2>2, <3>1
  <2> QED
    BY <1>4, <2>1, <2>2
<1>13. Spent'
  <2> SUFFICES ASSUME NEW s \in Calls, Done(s)' PROVE verified'[Phone(s)'] # grant'[s]
    BY DEF Spent
  <2>1. Granted(s) /\ grant'[s] = grant[s]
    BY <1>4 DEF Done, Granted
  <2>2. CASE Done(s)
    <3>1. verified[Phone(s)] # grant[s]
      BY <2>2 DEF Spent
    <3> QED
      BY <1>1, <1>7, <1>9, <2>1, <3>1 DEF Handled, Ended
  <2>3. CASE verified'[Phone(s)] = NoKey
    BY <1>1, <1>7, <1>9, <2>1, <2>3
  <2> QED
    BY <1>4, <2>2, <2>3
<1>14. Fresh'
  <2> SUFFICES ASSUME NEW k \in Calls, Passed(k)'
               PROVE  /\ MadeBy(request[k].code, Phone(k))'
                      /\ \A d \in before'[k] :
                           /\ Op(d)' = "create code" /\ answer'[d] = "OK" /\ Phone(d)' = Phone(k)' => request'[k].code \notin before'[d]
                           /\ Op(d)' = "check code" /\ answer'[d] = "OK" => request'[d].code # request'[k].code
    BY DEF Fresh
  <2> DEFINE x == request[k].code
  <2>1. x \in Calls /\ Phone(k) \in Phones
    BY <1>7 DEF KnownRequests, Passed
  <2>2. MadeBy(x, Phone(k))
    <3>1. CASE Passed(k)
      BY <3>1 DEF Fresh
    <3>2. CASE code[Phone(k)] = x
      BY <1>1, <2>1, <3>2 DEF Keys
    <3> QED
      BY <1>4, <3>1, <3>2
  <2>3. MadeBy(request[k].code, Phone(k))'
    <3>1. ASSUME NEW y \in Calls, NEW p \in Phones, y = x, p = Phone(k), MadeBy(y, p)
          PROVE  MadeBy(request[k].code, Phone(k))'
      <4>1. MadeBy(y, p)'
        BY <1>3, <3>1
      <4> QED
        BY <1>1, <3>1, <4>1 DEF MadeBy, Phone, Op
    <3> QED
      BY <2>1, <2>2, <3>1
  <2>4. ASSUME NEW d \in before'[k]
        PROVE  /\ Op(d) = "create code" /\ answer[d] = "OK" /\ Phone(d) = Phone(k) => x \notin before[d]
               /\ Op(d) = "check code" /\ answer[d] = "OK" => request[d].code # x
    <3>1. d \in Calls
      BY <1>6
    <3>2. CASE Passed(k)
      BY <1>5, <3>2 DEF Fresh
    <3>3. CASE code[Phone(k)] = x
      <4>1. Op(d) = "create code" /\ answer[d] = "OK" /\ Phone(d) = Phone(k) => x \notin before[d]
        BY <3>1, <3>3 DEF Overwritten, Made
      <4>2. ASSUME Op(d) = "check code", answer[d] = "OK", request[d].code = x
            PROVE  FALSE
        <5>1. Passed(d) /\ Deleted(d)
          BY <4>2 DEF Passed, Deleted
        <5>2. Phone(d) = Phone(k)
          BY <1>8, <2>2, <3>1, <4>2, <5>1 DEF MadeBy
        <5> QED
          BY <3>1, <3>3, <4>2, <5>1, <5>2 DEF Used
      <4> QED
        BY <4>1, <4>2
    <3> QED
      BY <1>4, <3>2, <3>3
  <2>5. \A d \in before'[k] : answer'[d] = answer[d] /\ before'[d] = before[d] /\ Op(d)' = Op(d) /\ Phone(d)' = Phone(d)
    BY <1>6, <1>7
  <2> QED
    BY <1>1, <1>7, <2>3, <2>4, <2>5
<1>15. Grants'
  <2> SUFFICES ASSUME NEW r \in Calls, Granted(r)'
               PROVE  /\ VerifiedBy(grant[r], Phone(r))'
                      /\ \A s \in before'[r] : Done(s)' => grant'[s] # grant'[r]
    BY DEF Grants
  <2> DEFINE g == grant'[r]
  <2>1. Phone(r) \in Phones
    BY <1>7 DEF KnownRequests, Granted
  <2>2. VerifiedBy(g, Phone(r)) /\ g \in Calls
    <3>1. CASE Granted(r) /\ g = grant[r]
      BY <3>1 DEF Grants, VerifiedBy
    <3>2. CASE verified[Phone(r)] # NoKey /\ g = verified[Phone(r)]
      BY <2>1, <3>2 DEF Keys, VerifiedBy
    <3> QED
      BY <1>4, <3>1, <3>2
  <2>3. VerifiedBy(grant[r], Phone(r))'
    <3>1. ASSUME NEW x \in Calls, NEW p \in Phones, x = g, p = Phone(r), VerifiedBy(x, p)
          PROVE  VerifiedBy(grant[r], Phone(r))'
      <4>1. VerifiedBy(x, p)'
        BY <1>3, <3>1
      <4> QED
        BY <1>1, <3>1, <4>1 DEF VerifiedBy, Phone, Op, Ended
    <3> QED
      BY <2>1, <2>2, <3>1
  <2>4. ASSUME NEW s \in before'[r], Done(s)'
        PROVE  grant'[s] # g
    <3>1. s \in Calls /\ Done(s) /\ grant'[s] = grant[s]
      BY <1>6, <2>4
    <3>2. CASE Granted(r) /\ g = grant[r]
      BY <1>5, <3>1, <3>2 DEF Grants
    <3>3. CASE verified[Phone(r)] = g
      <4>1. grant[s] = g => Phone(s) = Phone(r)
        BY <1>9, <2>2, <3>1 DEF VerifiedBy, Done, Granted
      <4> QED
        BY <3>1, <3>3, <4>1 DEF Spent
    <3> QED
      BY <1>4, <3>2, <3>3
  <2> QED
    BY <2>3, <2>4
<1> QED
  BY <1>2, <1>10, <1>11, <1>12, <1>13, <1>14, <1>15

-----------------------------------------------------------------------------
\* A statement of a request of another kind.
Foreign(c) ==
  /\ Stepped(c)
  /\ Op(c) \notin {"create code", "check code", "reset"}
  /\ pc[c] # "set cooldown" /\ pc'[c] \notin Coding \cup Checking \cup Resetting
  /\ UNCHANGED <<keys, grant>>

\* What happens beside the requests, and the end of a key's time to live.
Forgotten ==
  /\ UNCHANGED <<request, pc, answer, before, grant>>
  /\ code' = [p \in Phones |-> code'[p]] /\ verified' = [p \in Phones |-> verified'[p]]
  /\ \A p \in Phones : code'[p] \in {code[p], NoKey} /\ verified'[p] \in {verified[p], NoKey}

LEMMA ForeignIsHandled ==
  ASSUME AInv, NEW c \in Calls, Foreign(c)
  PROVE  Handled(c)
<1>1. StepsOf(c)'
  BY DEF Foreign, Stepped, Op, StepsOf
<1>2. ~ Made(c)' /\ ~ Passed(c)' /\ ~ Deleted(c)' /\ ~ Granted(c)' /\ ~ Done(c)'
  BY DEF Foreign, Stepped, Op, Made, Passed, Deleted, Granted, Done
<1> QED
  BY <1>1, <1>2 DEF Foreign, Handled, AInv, Keys, keys

LEMMA ForgottenKeeps ==
  ASSUME AInv, Forgotten
  PROVE  AInv'
<1> USE DEF AInv, Forgotten
<1>1. Shape' /\ Clock' /\ Steps' /\ KnownRequests'
  BY DEF Shape, Clock, Ended, Steps, StepsOf, KnownRequests, Op, Phone
<1>2. \A d \in Calls : /\ (Made(d)' <=> Made(d)) /\ (Passed(d)' <=> Passed(d)) /\ (Deleted(d)' <=> Deleted(d))
                       /\ (Granted(d)' <=> Granted(d)) /\ (Done(d)' <=> Done(d))
  BY DEF Made, Passed, Deleted, Granted, Done, Op
<1>3. NoKey \notin Calls /\ \A k \in Calls : Passed(k) => request[k].code \in Calls /\ Phone(k) \in Phones
  BY AccountsAssumption DEF Passed, KnownRequests
<1>4. Keys'
  <2>1. ASSUME NEW p \in Phones
        PROVE  /\ code'[p] = NoKey \/ (MadeBy(code[p], p)' /\ Op(code[p])' = "create code")
               /\ verified'[p] = NoKey \/ VerifiedBy(verified[p], p)'
    <3>1. code'[p] = NoKey \/ (code'[p] = code[p] /\ MadeBy(code[p], p) /\ Op(code[p]) = "create code")
      BY DEF Keys
    <3>2. verified'[p] = NoKey \/ (verified'[p] = verified[p] /\ VerifiedBy(verified[p], p))
      BY DEF Keys
    <3> QED
      BY <3>1, <3>2 DEF MadeBy, VerifiedBy, Op, Phone, Ended
  <2> QED
    BY <2>1 DEF Keys
<1>5. Overwritten'
  <2> SUFFICES ASSUME NEW d \in Calls, Made(d), NEW e \in before[d] PROVE code'[Phone(d)] # e
    BY <1>2 DEF Overwritten, Phone
  <2>1. Phone(d) \in Phones /\ code[Phone(d)] # e /\ e \in Calls
    BY DEF Overwritten, KnownRequests, Made, Shape
  <2> QED
    BY <1>3, <2>1
<1>6. Used'
  <2> SUFFICES ASSUME NEW k \in Calls, Deleted(k) PROVE code'[Phone(k)] # request[k].code
    BY <1>2 DEF Used, Phone
  <2>1. Passed(k) /\ code[Phone(k)] # request[k].code
    BY DEF Used, Deleted, Passed
  <2> QED
    BY <1>3, <2>1
<1>7. Spent'
  <2> SUFFICES ASSUME NEW s \in Calls, Done(s) PROVE verified'[Phone(s)] # grant[s]
    BY <1>2 DEF Spent, Phone
  <2>1. Granted(s) /\ Phone(s) \in Phones /\ verified[Phone(s)] # grant[s]
    BY DEF Spent, Done, Granted, KnownRequests
  <2>2. grant[s] \in Calls
    BY <2>1 DEF Grants, VerifiedBy
  <2> QED
    BY <1>3, <2>1, <2>2
<1>8. Fresh'
  <2> SUFFICES ASSUME NEW k \in Calls, Passed(k)
               PROVE  /\ MadeBy(request[k].code, Phone(k))
                      /\ \A d \in before[k] :
                           /\ Op(d) = "create code" /\ answer[d] = "OK" /\ Phone(d) = Phone(k) => request[k].code \notin before[d]
                           /\ Op(d) = "check code" /\ answer[d] = "OK" => request[d].code # request[k].code
    BY <1>2 DEF Fresh, MadeBy, Phone, Op
  <2> QED
    BY DEF Fresh
<1>9. Grants'
  <2> SUFFICES ASSUME NEW r \in Calls, Granted(r)
               PROVE  /\ VerifiedBy(grant[r], Phone(r))
                      /\ \A s \in before[r] : Done(s)' => grant[s] # grant[r]
    BY <1>2 DEF Grants, VerifiedBy, Phone, Op, Ended
  <2>1. \A s \in before[r] : s \in Calls
    BY DEF Shape
  <2> QED
    BY <1>2, <2>1 DEF Grants
<1> QED
  BY <1>1, <1>4, <1>5, <1>6, <1>7, <1>8, <1>9

-----------------------------------------------------------------------------
LEMMA RelationsAreForeign ==
  ASSUME AInv, NEW c \in Calls, RelationsStep(c), UNCHANGED <<accounts, notifications>>
  PROVE  Foreign(c)
<1> USE DEF Foreign, Stepped, Go, Return, Move, accounts, keys
<1>1. Shape /\ StepsOf(c)
  BY DEF AInv, Steps
<1> USE <1>1 DEF Shape, StepsOf, Coding, Checking, Resetting
<1>2. CASE FindBlock(c)  BY <1>2 DEF FindBlock
<1>3. CASE SaveBlock(c)  BY <1>3 DEF SaveBlock
<1>4. CASE DeleteFollow(c)  BY <1>4 DEF DeleteFollow
<1>5. CASE DeleteFollowBack(c)  BY <1>5 DEF DeleteFollowBack
<1>6. CASE DeleteBlock(c)  BY <1>6 DEF DeleteBlock
<1>7. CASE FindBlocked(c)  BY <1>7 DEF FindBlocked
<1>8. CASE FindFollow(c)  BY <1>8 DEF FindFollow
<1>9. CASE SaveFollow(c)  BY <1>9 DEF SaveFollow
<1>10. CASE DeleteOwnFollow(c)  BY <1>10 DEF DeleteOwnFollow
<1>11. CASE CountFollows(c)  BY <1>11 DEF CountFollows
<1> QED
  BY <1>2, <1>3, <1>4, <1>5, <1>6, <1>7, <1>8, <1>9, <1>10, <1>11 DEF RelationsStep

LEMMA NoticesAreForeign ==
  ASSUME AInv, NEW c \in Calls, NoticesStep(c), UNCHANGED <<relations, accounts>>
  PROVE  Foreign(c) \/ Forgotten
<1> USE DEF Foreign, Stepped, Go, Return, Move, accounts, keys
<1>1. Shape /\ StepsOf(c) /\ Keys
  BY DEF AInv, Steps
<1> USE <1>1 DEF Shape, StepsOf, Coding, Checking, Resetting
<1>2. CASE FindLike(c)  BY <1>2 DEF FindLike
<1>3. CASE RemoveLike(c)  BY <1>3 DEF RemoveLike
<1>4. CASE SaveLike(c)  BY <1>4 DEF SaveLike
<1>5. CASE NotifySeller(c)  BY <1>5 DEF NotifySeller
<1>6. CASE InsertNotice(c)  BY <1>6 DEF InsertNotice
<1>7. CASE Count(c)  BY <1>7 DEF Count
<1>8. CASE FindNotice(c)  BY <1>8 DEF FindNotice
<1>9. CASE MarkRead(c)  BY <1>9 DEF MarkRead
<1>10. CASE FindSetting(c)  BY <1>10 DEF FindSetting
<1>11. CASE CreateSetting(c)  BY <1>11 DEF CreateSetting
<1>12. CASE LoadSetting(c)  BY <1>12 DEF LoadSetting
<1>13. CASE WriteSetting(c)  BY <1>13 DEF WriteSetting
<1>14. CASE FindDevice(c)  BY <1>14 DEF FindDevice
<1>15. CASE InsertDevice(c)  BY <1>15 DEF InsertDevice
<1>16. CASE LoadDevice(c)  BY <1>16 DEF LoadDevice
<1>17. CASE WriteDevice(c)  BY <1>17 DEF WriteDevice
<1>18. CASE ReadPreference(c) \/ ReadTokens(c) \/ Send(c) \/ Deactivate(c)
  BY <1>18 DEF ReadPreference, ReadTokens, Send, Deactivate, Push, requests, Forgotten, Keys
<1>19. CASE LosePush(c)  BY <1>19 DEF LosePush, Forgotten, Keys
<1> QED
  BY <1>2, <1>3, <1>4, <1>5, <1>6, <1>7, <1>8, <1>9, <1>10, <1>11, <1>12, <1>13, <1>14,
     <1>15, <1>16, <1>17, <1>18, <1>19 DEF NoticesStep

LEMMA AccountsAreHandled ==
  ASSUME AInv, NEW c \in Calls, AccountsStep(c), UNCHANGED <<relations, notifications>>
  PROVE  Handled(c)
<1>1. Shape /\ Clock /\ StepsOf(c) /\ KnownRequests /\ Keys /\ Stepped(c)
  BY AccountsAreQuiet DEF AInv, Steps, Quiet
<1> DEFINE Others == \/ FindPhone(c) \/ SaveUser(c) \/ FindForLogin(c) \/ Rehash(c) \/ FindForChange(c)
                     \/ ChangePassword(c) \/ FindForInfo(c) \/ UpdateInfo(c) \/ SetUserInfo(c)
<1>2. CASE Others
  <2> SUFFICES Foreign(c)
    BY ForeignIsHandled
  <2> USE <1>1 DEF Foreign, Go, Return, Move, keys, Shape, StepsOf, Coding, Checking, Resetting
  <2>1. CASE FindPhone(c)  BY <2>1 DEF FindPhone
  <2>2. CASE SaveUser(c)  BY <2>2 DEF SaveUser
  <2>3. CASE FindForLogin(c)  BY <2>3 DEF FindForLogin
  <2>4. CASE Rehash(c)  BY <2>4 DEF Rehash
  <2>5. CASE FindForChange(c)  BY <2>5 DEF FindForChange
  <2>6. CASE ChangePassword(c)  BY <2>6 DEF ChangePassword
  <2>7. CASE FindForInfo(c)  BY <2>7 DEF FindForInfo
  <2>8. CASE UpdateInfo(c)  BY <2>8 DEF UpdateInfo
  <2>9. CASE SetUserInfo(c)  BY <2>9 DEF SetUserInfo
  <2> QED
    BY <1>2, <2>1, <2>2, <2>3, <2>4, <2>5, <2>6, <2>7, <2>8, <2>9
<1>3. ~ Ended(c) /\ answer[c] = "none" /\ Op(c)' = Op(c) /\ Phone(c)' = Phone(c)
  BY <1>1 DEF Clock, Stepped, Ended, Op, Phone
<1> USE <1>1, <1>3 DEF Handled, Made, Passed, Deleted, Granted, Done, Go, Return, Move, keys, Shape, Keys,
                       KnownRequests, StepsOf, Coding, Checking, Resetting, Ended
<1>4. CASE FindForCode(c)  BY <1>4 DEF FindForCode
<1>5. CASE GetCooldown(c)  BY <1>5 DEF GetCooldown
<1>6. CASE SetCode(c)  BY <1>6 DEF SetCode
<1>7. CASE SetCooldown(c)  BY <1>7 DEF SetCooldown
<1>8. CASE GetCode(c)  BY <1>8 DEF GetCode
<1>9. CASE DeleteCode(c)  BY <1>9 DEF DeleteCode
<1>10. CASE SetVerified(c)  BY <1>10 DEF SetVerified
<1>11. CASE FindForReset(c)  BY <1>11 DEF FindForReset
<1>12. CASE GetVerified(c)  BY <1>12 DEF GetVerified
<1>13. CASE ResetPassword(c)  BY <1>13 DEF ResetPassword
<1>14. CASE DeleteVerified(c)  BY <1>14 DEF DeleteVerified
<1> QED
  BY <1>2, <1>4, <1>5, <1>6, <1>7, <1>8, <1>9, <1>10, <1>11, <1>12, <1>13, <1>14 DEF AccountsStep

LEMMA NextKeepsAInv == AInv /\ [Next]_vars => AInv'
<1> SUFFICES ASSUME AInv, [Next]_vars PROVE AInv'
  OBVIOUS
<1>1. ASSUME NEW c \in Calls, RelationsStep(c), UNCHANGED <<accounts, notifications>> PROVE AInv'
  BY <1>1, RelationsAreForeign, ForeignIsHandled, HandledKeeps
<1>2. ASSUME NEW c \in Calls, AccountsStep(c), UNCHANGED <<relations, notifications>> PROVE AInv'
  BY <1>2, AccountsAreHandled, HandledKeeps
<1>3. ASSUME NEW c \in Calls, NoticesStep(c), UNCHANGED <<relations, accounts>> PROVE AInv'
  BY <1>3, NoticesAreForeign, ForeignIsHandled, ForgottenKeeps, HandledKeeps
<1>4. ASSUME NEW c \in Calls, Lose(c), UNCHANGED accounts PROVE AInv'
  <2>1. Handled(c)
    BY <1>4 DEF AInv, Shape, Lose, Handled, Stepped, Timed, Ended, accounts, keys, Keys, Steps, StepsOf, Op,
                Coding, Checking, Resetting, Made, Passed, Deleted, Granted, Done
  <2> QED
    BY <2>1, HandledKeeps
<1>5. ASSUME Expire, UNCHANGED requests PROVE AInv'
  <2>1. Forgotten
    BY <1>5 DEF AInv, Keys, Expire, Forgotten, requests
  <2> QED
    BY <2>1, ForgottenKeeps
<1>6. ASSUME UNCHANGED <<requests, accounts>> PROVE AInv'
  <2>1. Forgotten
    BY <1>6 DEF AInv, Keys, Forgotten, requests, accounts, keys
  <2> QED
    BY <2>1, ForgottenKeeps
<1> QED
  BY <1>1, <1>2, <1>3, <1>4, <1>5, <1>6 DEF Next, vars

\* A reset code is good for one reset, until the next one is sent: only checks,
\* or resets, that overlap can share it (auth.service.ts:255-345).
THEOREM CodesAreUsedOnce == Spec => []CodesWorkOnce
<1>1. ASSUME AInv PROVE CodesWorkOnce
  <2> USE <1>1 DEF AInv
  <2>1. ASSUME NEW k \in Succeeded("check code")
        PROVE  /\ \A d \in Succeeded("create code") :
                    Phone(d) = Phone(k) /\ request[k].code \in before[d] => d \notin before[k]
               /\ \A l \in Succeeded("check code") \ {k} : request[l].code = request[k].code => Met(k, l)
    BY DEF Succeeded, Fresh, Passed, Met
  <2>2. ASSUME NEW r \in Succeeded("reset")
        PROVE  /\ Op(grant[r]) = "check code" /\ Phone(grant[r]) = Phone(r)
               /\ \A s \in Succeeded("reset") \ {r} : grant[s] = grant[r] => Met(r, s)
    BY DEF Succeeded, Grants, Granted, Done, VerifiedBy, Met
  <2> QED
    BY <2>1, <2>2 DEF CodesWorkOnce
<1> QED
  BY <1>1, InitAInv, NextKeepsAInv, PTL DEF Spec

-----------------------------------------------------------------------------
(***************************************************************************)
(* Users.  A request that overlaps no other one finds, in its later        *)
(* statements, what its earlier ones have read or written.                 *)
(***************************************************************************)
UserSteps(c) ==
  /\ Op(c) = "signup" => pc[c] \in {"idle", "save user", "ended"}
  /\ Op(c) = "login" => pc[c] \in {"idle", "rehash", "ended"}
  /\ Op(c) = "change" => pc[c] \in {"idle", "change password", "ended"}
  /\ Op(c) = "reset" => pc[c] \in Resetting \cup {"idle", "ended"}
  /\ Op(c) = "change info" => pc[c] \in {"idle", "update info", "ended"}
  /\ Op(c) = "set info" => pc[c] \in {"idle", "ended"}
  /\ pc[c] = "save user" => Op(c) = "signup"
  /\ pc[c] = "rehash" => Op(c) = "login"
  /\ pc[c] = "change password" => Op(c) = "change"
  /\ pc[c] \in Resetting => Op(c) = "reset"
  /\ pc[c] = "update info" => Op(c) = "change info"

KnownUsers ==
  \A c \in Calls :
    /\ Op(c) \in PasswordOps \cup AvatarOps => Phone(c) \in Phones
    /\ Op(c) \in PasswordOps => request[c].password \in STRING /\ request[c].password # "none"
    /\ Op(c) \in AvatarOps => request[c].name \in STRING /\ request[c].avatar \in STRING

UsersOK ==
  /\ user \in [Phones -> UserRows]
  /\ read \in [Calls -> UserRows]
  /\ \A p \in Phones : user[p].password = "none" => user[p] = NoUser
  /\ \A p \in Phones : user[p] # NoUser => p \in wallets

\* Statements that come after the user has been found.
Finding == {"rehash", "change password", "update info"} \cup Resetting
Found == \A c \in Calls : pc[c] \in Finding => user[Phone(c)] # NoUser

SignedUp ==
  \A c \in Succeeded("signup") :
    /\ user[Phone(c)] # NoUser
    /\ \A d \in Succeeded("signup") : Phone(d) = Phone(c) => d = c

Alone(c) ==
  \A d \in Calls \ {c} : Op(d) \in PasswordOps /\ Phone(d) = Phone(c) /\ Begun(d) => d \in before[c]

HasSet(c) == Op(c) \in PasswordOps /\ (answer[c] = "OK" \/ pc[c] = "delete verified")
PasswordIsOf(c) == user[Phone(c)].hashed /\ user[Phone(c)].password = request[c].password
Passwords == \A c \in Calls : HasSet(c) /\ Alone(c) => PasswordIsOf(c)

\* The last avatar that was given, by a request that overlapped no other one.
GivesLast(c) ==
  /\ c \in Succeeded("change info") \cup Succeeded("set info")
  /\ request[c].avatar # "none"
  /\ \A d \in Calls \ {c} : Op(d) \in AvatarOps /\ Phone(d) = Phone(c) /\ Begun(d) =>
       d \in before[c] \/ (request[d].avatar = "none" /\ c \in before[d])

Avatars ==
  \A c \in Calls : GivesLast(c) =>
    /\ user[Phone(c)].avatar = request[c].avatar
    /\ \A d \in Calls : pc[d] = "update info" /\ Phone(d) = Phone(c) => read[d].avatar = request[c].avatar

UInv ==
  /\ Shape /\ Clock
  /\ \A c \in Calls : UserSteps(c)
  /\ KnownUsers /\ UsersOK /\ Found /\ SignedUp /\ Passwords /\ Avatars

-----------------------------------------------------------------------------
\* A statement of c as far as users are concerned.
Recorded(c) ==
  /\ Stepped(c)
  /\ UserSteps(c)'
  /\ user' \in [Phones -> UserRows] /\ read' \in [Calls -> UserRows]
  /\ \A d \in Calls \ {c} : read'[d] = read[d]
  /\ \A p \in Phones :
       /\ user'[p].password = "none" => user'[p] = NoUser
       /\ user'[p] # NoUser => p \in wallets'
       /\ user[p] # NoUser => user'[p] # NoUser
       /\ user'[p].password # user[p].password \/ user'[p].hashed # user[p].hashed =>
            Op(c) \in PasswordOps /\ p = Phone(c)
       /\ user'[p].avatar # user[p].avatar =>
            /\ Op(c) \in AvatarOps /\ p = Phone(c)
            /\ \/ request[c].avatar # "none"
               \/ pc[c] = "update info" /\ user'[p].avatar = read[c].avatar
  /\ pc'[c] \in Finding => user[Phone(c)] # NoUser
  /\ c \in Succeeded("signup")' => user[Phone(c)] = NoUser /\ user'[Phone(c)] # NoUser
  /\ HasSet(c)' => PasswordIsOf(c)' \/ (HasSet(c) /\ user' = user)
  /\ c \in (Succeeded("change info") \cup Succeeded("set info"))' /\ request[c].avatar # "none" =>
       user'[Phone(c)].avatar = request[c].avatar
  /\ pc'[c] = "update info" => pc[c] # "update info" /\ read'[c] = user[Phone(c)] /\ user' = user

LEMMA RecordedKeeps ==
  ASSUME UInv, NEW c \in Calls, Recorded(c)
  PROVE  UInv'
<1>1. Stepped(c) /\ Shape /\ Clock
  BY DEF Recorded, UInv
<1>2. /\ Shape' /\ Clock'
      /\ \A d \in Calls : Begun(d) => before'[d] = before[d] /\ Begun(d)'
  BY <1>1, ClockRuns
<1>3. /\ pc[c] # "ended" /\ answer[c] = "none" /\ request' = request
      /\ \A d \in Calls \ {c} : pc'[d] = pc[d] /\ answer'[d] = answer[d]
  BY <1>1 DEF Stepped, Clock, Ended
<1>4. \A d \in Calls : Op(d)' = Op(d) /\ Phone(d)' = Phone(d)
  BY <1>3 DEF Op, Phone
<1>5. \A d \in Calls : c \notin before[d] /\ \A e \in before'[d] : e # c /\ e \in Calls
  BY <1>1, <1>2, <1>3 DEF Shape, Clock, Ended, Stepped, Timed
<1>6. \A d \in Calls : UserSteps(d)'
  <2>1. UserSteps(c)'
    BY DEF Recorded
  <2>2. ASSUME NEW d \in Calls \ {c} PROVE UserSteps(d)'
    <3>1. UserSteps(d)
      BY DEF UInv
    <3> QED
      BY <3>1, <1>3, <1>4 DEF UserSteps
  <2> QED
    BY <2>1, <2>2
<1>7. KnownUsers' /\ UsersOK'
  BY <1>3, <1>4 DEF UInv, KnownUsers, UsersOK, Recorded
<1>8. Found'
  <2> SUFFICES ASSUME NEW d \in Calls, pc'[d] \in Finding PROVE user'[Phone(d)] # NoUser
    BY <1>4 DEF Found
  <2>1. UserSteps(d)' /\ (Op(d) \in PasswordOps \cup AvatarOps => Phone(d) \in Phones)
    BY <1>6 DEF UInv, KnownUsers
  <2>2. Phone(d) \in Phones
    BY <2>1, <1>4 DEF UserSteps, Finding, PasswordOps, AvatarOps
  <2>3. user[Phone(d)] # NoUser
    BY <1>3 DEF Recorded, UInv, Found
  <2> QED
    BY <2>2, <2>3 DEF Recorded
<1>9. SignedUp'
  <2>1. ASSUME NEW d \in Succeeded("signup")'
        PROVE  /\ d \in Calls /\ Phone(d) \in Phones /\ user'[Phone(d)] # NoUser
               /\ d # c => d \in Succeeded("signup") /\ user[Phone(d)] # NoUser
    <3>1. d \in Calls /\ Op(d) = "signup"
      BY <1>4 DEF Succeeded
    <3>2. Phone(d) \in Phones
      BY <3>1 DEF UInv, KnownUsers, PasswordOps
    <3>3. d # c => d \in Succeeded("signup")
      BY <3>1, <1>3 DEF Succeeded
    <3> QED
      BY <3>1, <3>2, <3>3 DEF Recorded, UInv, SignedUp
  <2>2. c \in Succeeded("signup")' => user[Phone(c)] = NoUser
    BY DEF Recorded
  <2>3. \A d, e \in Succeeded("signup")' : Phone(d) = Phone(e) => d = e
    BY <2>1, <2>2 DEF UInv, SignedUp
  <2>4. \A d \in Succeeded("signup")' : Phone(d)' = Phone(d)
    BY <2>1, <1>4
  <2> QED
    BY <2>1, <2>3, <2>4 DEF SignedUp
<1>10. Passwords'
  <2> SUFFICES ASSUME NEW d \in Calls, HasSet(d)', Alone(d)'
               PROVE  user'[Phone(d)].hashed /\ user'[Phone(d)].password = request[d].password
    BY <1>3, <1>4 DEF Passwords, PasswordIsOf
  <2>1. HasSet(d) => Alone(d) /\ PasswordIsOf(d)
    <3>1. HasSet(d) => Begun(d)
      BY <1>1 DEF HasSet, Clock, Begun, Ended
    <3> QED
      BY <3>1, <1>2, <1>4 DEF Alone, UInv, Passwords
  <2>2. CASE d = c
    <3>1. (HasSet(c) /\ user' = user) \/ PasswordIsOf(c)'
      BY <2>2 DEF Recorded
    <3> QED
      BY <3>1, <2>1, <2>2, <1>3, <1>4 DEF PasswordIsOf
  <2>3. CASE d # c
    <3>1. HasSet(d)
      BY <2>3, <1>3, <1>4 DEF HasSet
    <3>2. ~ (Op(c) \in PasswordOps /\ Phone(c) = Phone(d))
      BY <2>3, <1>1, <1>4, <1>5 DEF Alone, Begun, Stepped
    <3>3. Phone(d) \in Phones
      BY <3>1 DEF HasSet, UInv, KnownUsers
    <3> QED
      BY <2>1, <3>1, <3>2, <3>3 DEF Recorded, PasswordIsOf
  <2> QED
    BY <2>2, <2>3
<1>11. Avatars'
  <2> SUFFICES ASSUME NEW d \in Calls, GivesLast(d)'
               PROVE  /\ user'[Phone(d)].avatar = request[d].avatar
                      /\ \A e \in Calls : pc'[e] = "update info" /\ Phone(e) = Phone(d) =>
                           read'[e].avatar = request[d].avatar
    <3>1. request' = request
      BY <1>3
    <3> QED
      BY <3>1 DEF Avatars, Phone
  <2>1. /\ Op(d) \in AvatarOps /\ Phone(d) \in Phones /\ answer'[d] = "OK" /\ Ended(d)'
        /\ request[d].avatar # "none"
    <3>1. Op(d) \in AvatarOps /\ answer'[d] = "OK" /\ request[d].avatar # "none"
      BY <1>3, <1>4 DEF GivesLast, Succeeded, AvatarOps
    <3> QED
      BY <3>1, <1>2 DEF UInv, KnownUsers, Clock
  <2>2. ASSUME NEW e \in Calls \ {d}, Op(e) \in AvatarOps, Phone(e) = Phone(d), Begun(e)'
        PROVE  e \in before'[d] \/ (request[e].avatar = "none" /\ d \in before'[e])
    BY <2>2, <1>3, <1>4 DEF GivesLast
  <2>3. \A e \in Calls : pc'[e] = "update info" => Op(e) \in AvatarOps /\ Begun(e)'
    BY <1>6, <1>4 DEF UserSteps, AvatarOps, Begun
  <2>4. CASE d = c
    <3>1. user'[Phone(c)].avatar = request[c].avatar
      BY <2>1, <2>4, <1>3, <1>4 DEF Recorded, GivesLast
    <3>2. ASSUME NEW e \in Calls, pc'[e] = "update info", Phone(e) = Phone(d)
          PROVE  FALSE
      <4>1. e # d /\ ~ Ended(e)'
        BY <3>2, <2>1 DEF Ended
      <4>2. e \in before'[d] \/ d \in before'[e]
        BY <3>2, <4>1, <2>2, <2>3
      <4> QED
        BY <4>1, <4>2, <2>4, <1>2, <1>5 DEF Clock
    <3> QED
      BY <3>1, <3>2, <2>4
  <2>5. CASE d # c
    <3>1. GivesLast(d)
      <4>1. Begun(d) /\ d \in Succeeded("change info") \cup Succeeded("set info")
        BY <2>1, <2>5, <1>1, <1>3, <1>4 DEF GivesLast, Succeeded, Clock, Begun, Ended
      <4>2. ASSUME NEW e \in Calls \ {d}, Op(e) \in AvatarOps, Phone(e) = Phone(d), Begun(e)
            PROVE  e \in before[d] \/ (request[e].avatar = "none" /\ d \in before[e])
        BY <4>1, <4>2, <2>2, <1>2
      <4> QED
        BY <4>1, <4>2, <2>1 DEF GivesLast
    <3>2. /\ user[Phone(d)].avatar = request[d].avatar
          /\ \A e \in Calls : pc[e] = "update info" /\ Phone(e) = Phone(d) => read[e].avatar = request[d].avatar
      BY <3>1 DEF UInv, Avatars
    <3>3. user'[Phone(d)].avatar = request[d].avatar
      <4>1. CASE user'[Phone(d)].avatar # user[Phone(d)].avatar
        <5>1. /\ Op(c) \in AvatarOps /\ Phone(d) = Phone(c)
              /\ request[c].avatar # "none" \/ (pc[c] = "update info" /\ user'[Phone(d)].avatar = read[c].avatar)
          BY <4>1, <2>1 DEF Recorded
        <5>2. Begun(c)'
          BY <1>1 DEF Begun, Stepped
        <5>3. request[c].avatar = "none"
          BY <5>1, <5>2, <2>2, <2>5, <1>5
        <5> QED
          BY <5>1, <5>3, <3>2
      <4> QED
        BY <4>1, <3>2
    <3>4. ASSUME NEW e \in Calls, pc'[e] = "update info", Phone(e) = Phone(d)
          PROVE  read'[e].avatar = request[d].avatar
      <4>1. CASE e = c
        BY <3>4, <3>2, <4>1 DEF Recorded
      <4>2. CASE e # c
        <5>1. pc[e] = "update info" /\ read'[e] = read[e]
          BY <3>4, <4>2, <1>3 DEF Recorded
        <5> QED
          BY <5>1, <3>4, <3>2
      <4> QED
        BY <4>1, <4>2
    <3> QED
      BY <3>3, <3>4
  <2> QED
    BY <2>4, <2>5
<1> QED
  BY <1>2, <1>6, <1>7, <1>8, <1>9, <1>10, <1>11 DEF UInv

-----------------------------------------------------------------------------
\* A statement of another kind of request, or one that refuses or loses it.
Apart(c) ==
  /\ Stepped(c)
  /\ Op(c) \notin PasswordOps \cup AvatarOps \/ (pc'[c] = "ended" /\ answer'[c] # "OK")
  /\ pc'[c] \notin Finding \cup {"save user"}
  /\ UNCHANGED <<user, wallets, read>>

LEMMA ApartIsRecorded ==
  ASSUME UInv, NEW c \in Calls, Apart(c)
  PROVE  Recorded(c)
<1>1. Op(c)' = Op(c) /\ UserSteps(c)
  BY DEF Apart, Stepped, Op, UInv
<1>2. UserSteps(c)'
  BY <1>1 DEF Apart, UserSteps, PasswordOps, AvatarOps, Finding
<1>3. Op(c) \notin PasswordOps \cup AvatarOps \/ (pc'[c] # "delete verified" /\ answer'[c] # "OK")
  BY DEF Apart
<1>4. ~ HasSet(c)'
  BY <1>1, <1>3, <1>2 DEF HasSet
<1>5. c \notin (Succeeded("signup") \cup Succeeded("change info") \cup Succeeded("set info"))'
  BY <1>1, <1>3 DEF Succeeded, PasswordOps, AvatarOps
<1>6. Stepped(c) /\ pc'[c] \notin Finding /\ user' = user /\ wallets' = wallets /\ read' = read /\ UsersOK
  BY DEF Apart, UInv
<1>7. pc'[c] # "update info"
  BY <1>6 DEF Finding
<1> QED
  BY <1>2, <1>4, <1>5, <1>6, <1>7 DEF Recorded, UsersOK

LEMMA UsersStay ==
  ASSUME UInv, UNCHANGED <<request, pc, answer, before, user, wallets, read>>
  PROVE  UInv'
<1> USE DEF UInv
<1>1. Shape' /\ Clock'
  BY DEF Shape, Clock, Ended
<1>2. \A c \in Calls : Op(c)' = Op(c) /\ Phone(c)' = Phone(c)
  BY DEF Op, Phone
<1>3. \A c \in Calls : UserSteps(c)'
  <2>1. ASSUME NEW c \in Calls PROVE UserSteps(c)'
    BY <1>2 DEF UserSteps
  <2> QED
    BY <2>1
<1>4. KnownUsers' /\ UsersOK' /\ Found'
  BY <1>2 DEF KnownUsers, UsersOK, Found
<1>5. SignedUp'
  BY DEF SignedUp, Succeeded, Op, Phone
<1>6. Passwords'
  BY DEF Passwords, HasSet, Alone, PasswordIsOf, Op, Phone, Begun
<1>7. Avatars'
  BY DEF Avatars, GivesLast, Succeeded, Op, Phone, Begun
<1> QED
  BY <1>1, <1>3, <1>4, <1>5, <1>6, <1>7

LEMMA RelationsAreApart ==
  ASSUME UInv, NEW c \in Calls, RelationsStep(c), UNCHANGED <<accounts, notifications>>
  PROVE  Apart(c)
<1> USE DEF Apart, Stepped, Go, Return, Move, accounts
<1>1. Shape /\ UserSteps(c)
  BY DEF UInv
<1> USE <1>1 DEF Shape, UserSteps, Resetting, Finding, PasswordOps, AvatarOps
<1>2. CASE FindBlock(c)  BY <1>2 DEF FindBlock
<1>3. CASE SaveBlock(c)  BY <1>3 DEF SaveBlock
<1>4. CASE DeleteFollow(c)  BY <1>4 DEF DeleteFollow
<1>5. CASE DeleteFollowBack(c)  BY <1>5 DEF DeleteFollowBack
<1>6. CASE DeleteBlock(c)  BY <1>6 DEF DeleteBlock
<1>7. CASE FindBlocked(c)  BY <1>7 DEF FindBlocked
<1>8. CASE FindFollow(c)  BY <1>8 DEF FindFollow
<1>9. CASE SaveFollow(c)  BY <1>9 DEF SaveFollow
<1>10. CASE DeleteOwnFollow(c)  BY <1>10 DEF DeleteOwnFollow
<1>11. CASE CountFollows(c)  BY <1>11 DEF CountFollows
<1> QED
  BY <1>2, <1>3, <1>4, <1>5, <1>6, <1>7, <1>8, <1>9, <1>10, <1>11 DEF RelationsStep

LEMMA NoticesAreApart ==
  ASSUME UInv, NEW c \in Calls, NoticesStep(c), UNCHANGED <<relations, accounts>>
  PROVE  Apart(c) \/ UNCHANGED <<request, pc, answer, before, user, wallets, read>>
<1> USE DEF Apart, Stepped, Go, Return, Move, accounts
<1>1. Shape /\ UserSteps(c)
  BY DEF UInv
<1> USE <1>1 DEF Shape, UserSteps, Resetting, Finding, PasswordOps, AvatarOps
<1>2. CASE FindLike(c)  BY <1>2 DEF FindLike
<1>3. CASE RemoveLike(c)  BY <1>3 DEF RemoveLike
<1>4. CASE SaveLike(c)  BY <1>4 DEF SaveLike
<1>5. CASE NotifySeller(c)  BY <1>5 DEF NotifySeller
<1>6. CASE InsertNotice(c)  BY <1>6 DEF InsertNotice
<1>7. CASE Count(c)  BY <1>7 DEF Count
<1>8. CASE FindNotice(c)  BY <1>8 DEF FindNotice
<1>9. CASE MarkRead(c)  BY <1>9 DEF MarkRead
<1>10. CASE FindSetting(c)  BY <1>10 DEF FindSetting
<1>11. CASE CreateSetting(c)  BY <1>11 DEF CreateSetting
<1>12. CASE LoadSetting(c)  BY <1>12 DEF LoadSetting
<1>13. CASE WriteSetting(c)  BY <1>13 DEF WriteSetting
<1>14. CASE FindDevice(c)  BY <1>14 DEF FindDevice
<1>15. CASE InsertDevice(c)  BY <1>15 DEF InsertDevice
<1>16. CASE LoadDevice(c)  BY <1>16 DEF LoadDevice
<1>17. CASE WriteDevice(c)  BY <1>17 DEF WriteDevice
<1>18. CASE ReadPreference(c) \/ ReadTokens(c) \/ Send(c) \/ Deactivate(c)
  BY <1>18 DEF ReadPreference, ReadTokens, Send, Deactivate, Push, requests
<1>19. CASE LosePush(c)  BY <1>19 DEF LosePush
<1> QED
  BY <1>2, <1>3, <1>4, <1>5, <1>6, <1>7, <1>8, <1>9, <1>10, <1>11, <1>12, <1>13, <1>14,
     <1>15, <1>16, <1>17, <1>18, <1>19 DEF NoticesStep

LEMMA NoPassword == NoUser.password = "none" /\ NoUser.avatar = "none" /\ NoUser.hashed = FALSE
BY DEF NoUser

LEMMA NewUserRow ==
  ASSUME NEW p \in Phones, NEW x \in STRING
  PROVE  [name |-> p, avatar |-> "none", password |-> x, hashed |-> TRUE] \in UserRows
<1>1. p \in STRING /\ "none" \in STRING
  BY AccountsAssumption
<1> QED
  BY <1>1 DEF UserRows

LEMMA HashedRow ==
  ASSUME NEW u \in UserRows, NEW x \in STRING
  PROVE  /\ Hashed(u, x) \in UserRows
         /\ Hashed(u, x).password = x /\ Hashed(u, x).hashed = TRUE
         /\ Hashed(u, x).avatar = u.avatar
BY DEF Hashed, UserRows

LEMMA PasswordIsRecorded ==
  ASSUME UInv, NEW c \in Calls, Stepped(c), UserSteps(c)', Op(c) \in {"login", "change", "reset"},
         pc[c] \in Finding \ {"delete verified"}, pc'[c] \in {"delete verified", "ended"},
         user' = Updated(c, Hashed(UserOf(c), request[c].password)), UNCHANGED <<wallets, read>>
  PROVE  Recorded(c)
<1> DEFINE x == request[c].password
           u == Hashed(user[Phone(c)], x)
<1>1. Phone(c) \in Phones /\ x \in STRING /\ x # "none"
  BY DEF UInv, KnownUsers, PasswordOps
<1>2. user \in [Phones -> UserRows] /\ user[Phone(c)] # NoUser
  BY DEF UInv, UsersOK, Found
<1>3. u \in UserRows /\ u.password = x /\ u.hashed = TRUE /\ u.avatar = user[Phone(c)].avatar
  BY <1>1, <1>2, HashedRow
<1>4. u # NoUser
  <2> HIDE DEF u
  <2> QED
    BY <1>1, <1>3, NoPassword
<1>5. /\ user' \in [Phones -> UserRows] /\ user'[Phone(c)] = u
      /\ \A p \in Phones : p # Phone(c) => user'[p] = user[p]
  <2> HIDE DEF u
  <2> QED
    BY <1>1, <1>2, <1>3 DEF Updated, UserOf, u
<1>6. read' \in [Calls -> UserRows] /\ read' = read
  BY DEF UInv, UsersOK
<1>7. Op(c)' = Op(c) /\ Phone(c)' = Phone(c) /\ request' = request
  BY DEF Stepped, Op, Phone
<1>8. PasswordIsOf(c)'
  BY <1>1, <1>3, <1>5, <1>7 DEF PasswordIsOf
<1>9. c \notin (Succeeded("signup") \cup Succeeded("change info") \cup Succeeded("set info"))'
  BY <1>7 DEF Succeeded
<1>10. \A p \in Phones :
         /\ user'[p].password = "none" => user'[p] = NoUser
         /\ user'[p] # NoUser => p \in wallets'
         /\ user[p] # NoUser => user'[p] # NoUser
         /\ user'[p].password # user[p].password \/ user'[p].hashed # user[p].hashed => p = Phone(c)
         /\ user'[p].avatar = user[p].avatar
  <2> HIDE DEF u, x
  <2>1. \A p \in Phones : /\ user[p].password = "none" => user[p] = NoUser
                          /\ user[p] # NoUser => p \in wallets
    BY DEF UInv, UsersOK
  <2> QED
    BY <2>1, <1>1, <1>2, <1>3, <1>4, <1>5
<1>11. Op(c) \in PasswordOps /\ pc'[c] # "update info"
  BY DEF PasswordOps
<1> QED
  BY <1>2, <1>5, <1>6, <1>8, <1>9, <1>10, <1>11 DEF Recorded

LEMMA ProfileIsRecorded ==
  ASSUME UInv, NEW c \in Calls, Stepped(c), UserSteps(c)', Op(c) \in AvatarOps, pc'[c] = "ended",
         user[Phone(c)] # NoUser,
         NEW name \in STRING, NEW avatar \in STRING,
         user' = Updated(c, [UserOf(c) EXCEPT !.name = name, !.avatar = avatar]),
         request[c].avatar # "none" => avatar = request[c].avatar,
         request[c].avatar = "none" =>
           avatar = UserOf(c).avatar \/ (pc[c] = "update info" /\ avatar = read[c].avatar),
         UNCHANGED <<wallets, read>>
  PROVE  Recorded(c)
<1> DEFINE old == user[Phone(c)]
           u == [old EXCEPT !.name = name, !.avatar = avatar]
<1>1. Phone(c) \in Phones
  BY DEF UInv, KnownUsers
<1>2. user \in [Phones -> UserRows] /\ old \in UserRows /\ old # NoUser
  BY <1>1 DEF UInv, UsersOK
<1>3. u \in UserRows /\ u.password = old.password /\ u.hashed = old.hashed /\ u.avatar = avatar
  BY <1>2 DEF UserRows
<1>4. u # NoUser
  BY <1>1, <1>2, <1>3 DEF NoUser, UInv, UsersOK
<1>5. /\ user' \in [Phones -> UserRows] /\ user'[Phone(c)] = u
      /\ \A p \in Phones : p # Phone(c) => user'[p] = user[p]
  <2> HIDE DEF u
  <2> QED
    BY <1>1, <1>2, <1>3 DEF Updated, UserOf, u
<1>6. read' \in [Calls -> UserRows] /\ read' = read
  BY DEF UInv, UsersOK
<1>7. Op(c)' = Op(c) /\ Phone(c)' = Phone(c) /\ request' = request
  BY DEF Stepped, Op, Phone
<1>8. Op(c) \notin PasswordOps /\ pc'[c] # "update info" /\ pc'[c] \notin Finding
  BY DEF PasswordOps, AvatarOps, Finding, Resetting
<1>9. ~ HasSet(c)' /\ c \notin Succeeded("signup")'
  BY <1>7, <1>8 DEF HasSet, Succeeded, PasswordOps
<1>10. \A p \in Phones :
         /\ user'[p].password = "none" => user'[p] = NoUser
         /\ user'[p] # NoUser => p \in wallets'
         /\ user[p] # NoUser => user'[p] # NoUser
         /\ user'[p].password = user[p].password /\ user'[p].hashed = user[p].hashed
         /\ user'[p].avatar # user[p].avatar =>
              /\ p = Phone(c)
              /\ \/ request[c].avatar # "none"
                 \/ pc[c] = "update info" /\ user'[p].avatar = read[c].avatar
  <2> HIDE DEF u
  <2>1. \A p \in Phones : /\ user[p].password = "none" => user[p] = NoUser
                          /\ user[p] # NoUser => p \in wallets
    BY DEF UInv, UsersOK
  <2> QED
    BY <2>1, <1>1, <1>2, <1>3, <1>4, <1>5 DEF UserOf
<1>11. request[c].avatar # "none" => user'[Phone(c)].avatar = request[c].avatar
  <2> HIDE DEF u
  <2> QED
    BY <1>3, <1>5
<1> QED
  BY <1>5, <1>6, <1>8, <1>9, <1>10, <1>11 DEF Recorded

LEMMA AccountsAreRecorded ==
  ASSUME UInv, NEW c \in Calls, AccountsStep(c), UNCHANGED <<relations, notifications>>
  PROVE  Recorded(c)
<1>1. Shape /\ Clock /\ UserSteps(c) /\ KnownUsers /\ UsersOK /\ Found /\ SignedUp /\ Stepped(c)
  BY AccountsAreQuiet DEF UInv, Quiet
<1>2. ~ Ended(c) /\ answer[c] = "none" /\ Op(c)' = Op(c) /\ Phone(c)' = Phone(c) /\ request' = request
  BY <1>1 DEF Clock, Stepped, Ended, Op, Phone
<1> DEFINE OfCodes == \/ FindForCode(c) \/ GetCooldown(c) \/ SetCode(c) \/ SetCooldown(c)
                      \/ GetCode(c) \/ DeleteCode(c) \/ SetVerified(c)
<1>3. CASE OfCodes
  <2> SUFFICES Apart(c)
    BY ApartIsRecorded
  <2> USE <1>1 DEF Apart, Go, Return, Move, Shape, UserSteps, Resetting, Finding, PasswordOps, AvatarOps
  <2>1. CASE FindForCode(c)  BY <2>1 DEF FindForCode
  <2>2. CASE GetCooldown(c)  BY <2>2 DEF GetCooldown
  <2>3. CASE SetCode(c)  BY <2>3 DEF SetCode
  <2>4. CASE SetCooldown(c)  BY <2>4 DEF SetCooldown
  <2>5. CASE GetCode(c)  BY <2>5 DEF GetCode
  <2>6. CASE DeleteCode(c)  BY <2>6 DEF DeleteCode
  <2>7. CASE SetVerified(c)  BY <2>7 DEF SetVerified
  <2> QED
    BY <1>3, <2>1, <2>2, <2>3, <2>4, <2>5, <2>6, <2>7
<1> USE <1>1, <1>2 DEF Go, Return, Move, Shape, UserSteps, Resetting, Finding, PasswordOps, AvatarOps, Ended
<1>4. CASE FindPhone(c) \/ FindForLogin(c) \/ FindForChange(c) \/ GetVerified(c)
  <2>1. CASE FindPhone(c)
    BY <2>1 DEF FindPhone, Recorded, KnownUsers, UsersOK, Found, Succeeded, HasSet, UserOf
  <2>2. CASE FindForLogin(c)
    <3>1. user[Phone(c)] # NoUser \/ (pc'[c] = "ended" /\ answer'[c] # "OK")
      <4>1. request[c].password # "none"
        BY <2>2 DEF FindForLogin, KnownUsers
      <4> QED
        BY <2>2, <4>1, NoPassword DEF FindForLogin, UserOf
    <3>2. HasSet(c)' => PasswordIsOf(c)'
      BY <2>2 DEF FindForLogin, HasSet, PasswordIsOf, UserOf
    <3> QED
      BY <2>2, <3>1, <3>2 DEF FindForLogin, Recorded, UsersOK, Succeeded
  <2>3. CASE FindForChange(c)
    BY <2>3 DEF FindForChange, Recorded, KnownUsers, UsersOK, Found, Succeeded, HasSet, UserOf
  <2>4. CASE GetVerified(c)
    BY <2>4 DEF GetVerified, Recorded, KnownUsers, UsersOK, Found, Succeeded, HasSet, UserOf
  <2> QED
    BY <1>4, <2>1, <2>2, <2>3, <2>4
<1>5. CASE SaveUser(c)
  <2>1. CASE answer'[c] # "OK"
    <3>1. Apart(c)
      BY <1>5, <2>1 DEF SaveUser, Apart
    <3> QED
      BY <3>1, ApartIsRecorded
  <2>2. CASE answer'[c] = "OK"
    <3> DEFINE u == [name |-> Phone(c), avatar |-> "none", password |-> request[c].password, hashed |-> TRUE]
    <3>1. /\ pc[c] = "save user" /\ pc'[c] = "ended" /\ user[Phone(c)] = NoUser
          /\ user' = [user EXCEPT ![Phone(c)] = u] /\ wallets' = wallets \cup {Phone(c)} /\ read' = read
      BY <1>5, <2>2 DEF SaveUser, UserOf, Updated
    <3>2. Op(c) = "signup" /\ Phone(c) \in Phones /\ request[c].password \in STRING /\ request[c].password # "none"
      BY <3>1 DEF KnownUsers
    <3>3. u \in UserRows /\ u.avatar = "none" /\ u.hashed /\ u.password = request[c].password
      <4>1. u \in UserRows
        BY <3>2, NewUserRow
      <4> QED
        BY <4>1
    <3> HIDE DEF u
    <3>7. u # NoUser
      BY <3>2, <3>3, NoPassword
    <3>4. /\ user' \in [Phones -> UserRows] /\ user'[Phone(c)] = u
          /\ \A p \in Phones : p # Phone(c) => user'[p] = user[p]
      BY <3>1, <3>2, <3>3 DEF UsersOK
    <3>5. \A p \in Phones :
            /\ user'[p].password = "none" => user'[p] = NoUser
            /\ user'[p] # NoUser => p \in wallets'
            /\ user[p] # NoUser => user'[p] # NoUser
            /\ user'[p].password # user[p].password \/ user'[p].hashed # user[p].hashed => p = Phone(c)
            /\ user'[p].avatar = user[p].avatar
      BY <3>1, <3>2, <3>3, <3>7, <3>4, NoPassword DEF UsersOK
    <3>6. PasswordIsOf(c)' /\ c \notin (Succeeded("change info") \cup Succeeded("set info"))'
      BY <3>2, <3>3, <3>4 DEF PasswordIsOf, Succeeded
    <3> QED
      BY <3>1, <3>2, <3>3, <3>7, <3>4, <3>5, <3>6 DEF Recorded, UsersOK
  <2> QED
    BY <2>1, <2>2
<1>6. CASE Rehash(c)
  BY <1>6, PasswordIsRecorded DEF Rehash
<1>7. CASE ChangePassword(c)
  BY <1>7, PasswordIsRecorded DEF ChangePassword
<1>8. CASE ResetPassword(c)
  BY <1>8, PasswordIsRecorded DEF ResetPassword
<1>9. CASE FindForReset(c) \/ FindForInfo(c)
  BY <1>9 DEF FindForReset, FindForInfo, Recorded, KnownUsers, UsersOK, Found, Succeeded, HasSet, UserOf
<1>10. CASE DeleteVerified(c)
  BY <1>10 DEF DeleteVerified, Recorded, UsersOK, Succeeded, HasSet
<1>11. CASE UpdateInfo(c)
  <2>1. CASE answer'[c] # "OK"
    <3>1. Apart(c)
      BY <1>11, <2>1 DEF UpdateInfo, Apart
    <3> QED
      BY <3>1, ApartIsRecorded
  <2>2. CASE answer'[c] = "OK"
    <3> DEFINE avatar == IF request[c].avatar = "none" THEN read[c].avatar ELSE request[c].avatar
    <3>1. /\ pc[c] = "update info" /\ pc'[c] = "ended"
          /\ user' = Updated(c, [UserOf(c) EXCEPT !.name = request[c].name, !.avatar = avatar])
          /\ UNCHANGED <<wallets, read>>
      BY <1>11, <2>2 DEF UpdateInfo
    <3>2. request[c].name \in STRING /\ avatar \in STRING /\ Op(c) \in AvatarOps /\ user[Phone(c)] # NoUser
      BY <3>1 DEF KnownUsers, UsersOK, UserRows, Found
    <3> QED
      BY <3>1, <3>2, ProfileIsRecorded
  <2> QED
    BY <2>1, <2>2
<1>12. CASE SetUserInfo(c)
  <2>1. CASE answer'[c] # "OK"
    <3>1. Apart(c)
      BY <1>12, <2>1 DEF SetUserInfo, Apart
    <3> QED
      BY <3>1, ApartIsRecorded
  <2>2. CASE answer'[c] = "OK"
    <3> DEFINE name == IF request[c].name = "none" THEN UserOf(c).name ELSE request[c].name
               avatar == IF request[c].avatar = "none" THEN UserOf(c).avatar ELSE request[c].avatar
    <3>1. Op(c) \in AvatarOps /\ Phone(c) \in Phones /\ user[Phone(c)] # NoUser /\ UserOf(c) \in UserRows
      BY <1>12 DEF SetUserInfo, KnownUsers, UsersOK, UserOf
    <3>2. /\ pc'[c] = "ended" /\ UNCHANGED <<wallets, read>>
          /\ user' = Updated(c, [UserOf(c) EXCEPT !.name = name, !.avatar = avatar])
      BY <1>12, <2>2, <3>1 DEF SetUserInfo, UserRows
    <3>3. name \in STRING /\ avatar \in STRING
      BY <3>1 DEF KnownUsers, UserRows
    <3> QED
      BY <3>1, <3>2, <3>3, ProfileIsRecorded
  <2> QED
    BY <2>1, <2>2
<1> QED
  BY <1>3, <1>4, <1>5, <1>6, <1>7, <1>8, <1>9, <1>10, <1>11, <1>12 DEF AccountsStep

LEMMA InitUInv == Init => UInv
<1> SUFFICES ASSUME NEW w \in Workloads, request = w.requests, RequestsInit, AccountsInit(w.users)
             PROVE  UInv
  BY DEF Init
<1>1. Shape /\ Clock /\ \A c \in Calls : pc[c] = "idle" /\ answer[c] = "none"
  BY DEF RequestsInit, Shape, Clock, Ended
<1>2. \A c \in Calls : UserSteps(c)
  BY <1>1 DEF UserSteps, Resetting
<1>3. KnownUsers
  BY WorkloadsAssumption DEF KnownUsers, Op, Phone, AccountOps
<1>4. w.users \in [Phones -> UserRows] /\ \A p \in Phones : w.users[p] = NoUser \/ w.users[p].password # "none"
  BY WorkloadsAssumption
<1>5. NoUser \in UserRows
  BY AccountsAssumption DEF NoUser, UserRows
<1>6. UsersOK
  BY <1>4, <1>5 DEF AccountsInit, UsersOK
<1>7. Found /\ SignedUp /\ Passwords /\ Avatars
  BY <1>1 DEF Found, Finding, Resetting, SignedUp, Succeeded, Passwords, HasSet, Avatars, GivesLast
<1> QED
  BY <1>1, <1>2, <1>3, <1>6, <1>7 DEF UInv

LEMMA NextKeepsUInv == UInv /\ [Next]_vars => UInv'
<1> SUFFICES ASSUME UInv, [Next]_vars PROVE UInv'
  OBVIOUS
<1>1. ASSUME NEW c \in Calls, RelationsStep(c), UNCHANGED <<accounts, notifications>> PROVE UInv'
  BY <1>1, RelationsAreApart, ApartIsRecorded, RecordedKeeps
<1>2. ASSUME NEW c \in Calls, AccountsStep(c), UNCHANGED <<relations, notifications>> PROVE UInv'
  BY <1>2, AccountsAreRecorded, RecordedKeeps
<1>3. ASSUME NEW c \in Calls, NoticesStep(c), UNCHANGED <<relations, accounts>> PROVE UInv'
  BY <1>3, NoticesAreApart, ApartIsRecorded, RecordedKeeps, UsersStay
<1>4. ASSUME NEW c \in Calls, Lose(c), UNCHANGED accounts PROVE UInv'
  <2>1. Apart(c)
    BY <1>4 DEF UInv, Shape, Lose, Apart, Stepped, Timed, Ended, accounts, Finding, Resetting
  <2> QED
    BY <2>1, ApartIsRecorded, RecordedKeeps
<1>5. ASSUME Expire, UNCHANGED requests PROVE UInv'
  BY <1>5, UsersStay DEF Expire, requests
<1>6. ASSUME UNCHANGED <<requests, accounts>> PROVE UInv'
  BY <1>6, UsersStay DEF requests, accounts
<1> QED
  BY <1>1, <1>2, <1>3, <1>4, <1>5, <1>6 DEF Next, vars

\* Who signed up did so once and has a wallet; the last password, and the last
\* avatar, given by a request that overlapped no other one is kept
\* (auth.service.ts, users.service.ts).
THEOREM AccountsStayKept == Spec => []AccountsAreKept
<1>1. ASSUME UInv PROVE AccountsAreKept
  <2> USE <1>1 DEF UInv
  <2> SUFFICES ASSUME NEW p \in Phones
               PROVE  /\ user[p] # NoUser => p \in wallets
                      /\ \A c, d \in Succeeded("signup") : Phone(c) = p /\ Phone(d) = p => c = d
                      /\ \A c \in PasswordRequests(p) :
                           answer[c] = "OK" /\ PasswordRequests(p) \ {c} \subseteq before[c] =>
                             user[p].hashed /\ user[p].password = request[c].password
                      /\ \A c \in AvatarRequests(p) :
                           /\ answer[c] = "OK" /\ request[c].avatar # "none"
                           /\ \A d \in AvatarRequests(p) \ {c} :
                                d \in before[c] \/ (request[d].avatar = "none" /\ c \in before[d])
                           => user[p].avatar = request[c].avatar
    BY DEF AccountsAreKept
  <2>1. user[p] # NoUser => p \in wallets
    BY DEF UsersOK
  <2>2. \A c, d \in Succeeded("signup") : Phone(c) = p /\ Phone(d) = p => c = d
    BY DEF SignedUp
  <2>3. ASSUME NEW c \in PasswordRequests(p), answer[c] = "OK", PasswordRequests(p) \ {c} \subseteq before[c]
        PROVE  user[p].hashed /\ user[p].password = request[c].password
    <3>1. c \in Calls /\ HasSet(c) /\ Alone(c) /\ Phone(c) = p
      BY <2>3 DEF PasswordRequests, HasSet, Alone
    <3> QED
      BY <3>1 DEF Passwords, PasswordIsOf
  <2>4. ASSUME NEW c \in AvatarRequests(p), answer[c] = "OK", request[c].avatar # "none",
               \A d \in AvatarRequests(p) \ {c} :
                 d \in before[c] \/ (request[d].avatar = "none" /\ c \in before[d])
        PROVE  user[p].avatar = request[c].avatar
    <3>1. c \in Calls /\ GivesLast(c) /\ Phone(c) = p
      BY <2>4 DEF AvatarRequests, GivesLast, Succeeded, AvatarOps
    <3> QED
      BY <3>1 DEF Avatars
  <2> QED
    BY <2>1, <2>2, <2>3, <2>4
<1> QED
  BY <1>1, InitUInv, NextKeepsUInv, PTL DEF Spec

-----------------------------------------------------------------------------
(***************************************************************************)
(* Notifications.  A push reads the preference and the devices when its    *)
(* request has begun: what was settled before that, nobody changes.        *)
(***************************************************************************)
NoticeSteps(c) ==
  /\ Op(c) = "set setting" => pc[c] \in {"idle", "create setting", "load setting", "write setting", "ended"}
  /\ Op(c) = "set device" => pc[c] \in {"idle", "insert device", "load device", "write device", "ended"}
  /\ pc[c] = "create setting" => Op(c) \in {"get setting", "set setting"}
  /\ pc[c] \in {"load setting", "write setting"} => Op(c) = "set setting"
  /\ pc[c] \in {"insert device", "load device", "write device"} => Op(c) = "set device"
  /\ pc[c] \in {"save like", "insert notice"} => Op(c) \in Kinds

KnownNotices ==
  \A c \in Calls :
    /\ Op(c) \in {"get setting", "set setting"} => User(c) \in Users
    /\ Op(c) = "set setting" => request[c].kind \in Kinds /\ request[c].value \in {0, 1}
    /\ Op(c) = "set device" => User(c) \in STRING /\ Token(c) \in Devices

Preferences == [Kinds -> {0, 1}]

SettingsOK ==
  /\ setting \in [Users -> Preferences \cup {NoSetting}]
  /\ entity = [c \in Calls |-> entity[c]] /\ loaded = [c \in Calls |-> loaded[c]]
  /\ \A c \in Calls : pc[c] \in {"load setting", "write setting"} =>
       /\ setting[User(c)] \in Preferences
       /\ entity[c] \in Preferences /\ entity[c][request[c].kind] = request[c].value

DevicesOK == device \in [Devices -> DeviceRows] /\ registered \in [Calls -> DeviceRows]

\* The request is the last one about the owner's preferences, or about a device.
SetsLast(s) ==
  /\ Op(s) = "set setting" /\ User(s) = Owner
  /\ \A d \in Calls \ {s} : Op(d) = "set setting" /\ User(d) = Owner /\ Begun(d) => d \in before[s]
RegistersLast(s) ==
  /\ Op(s) = "set device"
  /\ \A d \in Calls \ {s} : Op(d) = "set device" /\ Token(d) = Token(s) /\ Begun(d) => d \in before[s]

Settings ==
  \A s \in Calls : SetsLast(s) =>
    /\ answer[s] = "OK" => setting[Owner][request[s].kind] = request[s].value
    /\ pc[s] = "write setting" => loaded[s] = setting[Owner]
Registered ==
  \A s \in Calls : RegistersLast(s) =>
    /\ answer[s] = "OK" => device[Token(s)].user = User(s)
    /\ pc[s] = "write device" => registered[s].user = device[Token(s)].user

\* What the last requests before c have left allows c's notification, and allows
\* it on the device d.
Wanted(c) ==
  \A s \in before[c] : SetsLast(s) /\ answer[s] = "OK" /\ request[s].kind = Op(c) => request[s].value = 1
OwnersFor(c, d) ==
  \A s \in before[c] : RegistersLast(s) /\ answer[s] = "OK" /\ Token(s) = d => User(s) = Owner

PushStages == {"none", "settings", "tokens", "send", "deactivate", "done"}
Pushes ==
  /\ push \in [Calls -> [at : PushStages, to : SUBSET Devices]]
  /\ pushed \in [Calls -> SUBSET Devices]
  /\ \A c \in Calls :
       /\ push[c].at # "none" => Op(c) \in Kinds /\ Begun(c)
       /\ push[c].at \in {"tokens", "send"} => Wanted(c)
       /\ push[c].at = "send" => \A d \in push[c].to : OwnersFor(c, d)
       /\ \A d \in pushed[c] : Begun(c) /\ Wanted(c) /\ OwnersFor(c, d)

NInv ==
  /\ Shape /\ Clock
  /\ \A c \in Calls : NoticeSteps(c)
  /\ KnownNotices /\ SettingsOK /\ DevicesOK /\ Settings /\ Registered /\ Pushes

-----------------------------------------------------------------------------
\* A statement of c, as far as settings, devices and pushes are concerned.
Noted(c) ==
  /\ Stepped(c)
  /\ NoticeSteps(c)'
  /\ setting' \in [Users -> Preferences \cup {NoSetting}]
  /\ entity' = [d \in Calls |-> entity'[d]] /\ loaded' = [d \in Calls |-> loaded'[d]]
  /\ device' \in [Devices -> DeviceRows] /\ registered' \in [Calls -> DeviceRows]
  /\ \A d \in Calls \ {c} : entity'[d] = entity[d] /\ loaded'[d] = loaded[d] /\ registered'[d] = registered[d]
  /\ \A u \in Users :
       /\ setting'[u] # setting[u] => u = User(c) /\ (Op(c) = "set setting" \/ setting[u] = NoSetting)
       /\ setting[u] \in Preferences => setting'[u] \in Preferences
  /\ pc'[c] \in {"load setting", "write setting"} =>
       /\ setting'[User(c)] \in Preferences
       /\ entity'[c] \in Preferences /\ entity'[c][request[c].kind] = request[c].value
  /\ pc'[c] = "write setting" => loaded'[c] = setting'[User(c)]
  /\ Op(c) = "set setting" /\ answer'[c] = "OK" =>
       /\ pc[c] = "write setting"
       /\ loaded[c] = setting[User(c)] => setting'[User(c)][request[c].kind] = request[c].value
  /\ \A t \in Devices : device'[t].user # device[t].user => t = Token(c) /\ Op(c) = "set device"
  /\ pc'[c] = "write device" => registered'[c].user = device'[Token(c)].user
  /\ Op(c) = "set device" /\ answer'[c] = "OK" =>
       \/ pc[c] = "write device" /\ registered[c].user # device[Token(c)].user
       \/ device'[Token(c)].user = User(c)
  /\ push' \in [Calls -> [at : PushStages, to : SUBSET Devices]]
  /\ \A d \in Calls \ {c} : push'[d] = push[d]
  /\ push'[c] = push[c] \/ (push'[c].at = "settings" /\ Op(c) \in Kinds)
  /\ pushed' = pushed

LEMMA NotSetting == NoSetting \notin Preferences
<1>1. \A f \in Preferences : f["like"] # 2
  BY DEF Preferences, Kinds
<1>2. NoSetting["like"] = 2
  BY DEF NoSetting, Kinds
<1> QED
  BY <1>1, <1>2

\* Who comes later, or is running, was not the last one.
LEMMA LastStays ==
  ASSUME NInv, NEW c \in Calls, Stepped(c), NEW s \in Calls
  PROVE  /\ SetsLast(s)' /\ Begun(s) => SetsLast(s)
         /\ RegistersLast(s)' /\ Begun(s) => RegistersLast(s)
         /\ SetsLast(s)' /\ Begun(s) /\ s # c => ~ (Op(c) = "set setting" /\ User(c) = Owner)
         /\ RegistersLast(s)' /\ Begun(s) /\ s # c => ~ (Op(c) = "set device" /\ Token(c) = Token(s))
         /\ s = c /\ SetsLast(c)' => \A d \in Calls \ {c} : ~ (SetsLast(d)' /\ Begun(d) /\ ~ Ended(d))
<1>1. \A d \in Calls : Begun(d) => Begun(d)' /\ before'[d] = before[d]
  BY ClockRuns DEF NInv
<1>2. \A d \in Calls : Op(d)' = Op(d) /\ User(d)' = User(d) /\ Token(d)' = Token(d)
  BY DEF Stepped, Op, User, Token
<1>3. Begun(c)' /\ \A d \in Calls : c \notin before[d]
  BY DEF Stepped, Begun, NInv, Clock, Ended
<1>4. SetsLast(s)' /\ Begun(s) => SetsLast(s)
  BY <1>1, <1>2 DEF SetsLast
<1>5. RegistersLast(s)' /\ Begun(s) => RegistersLast(s)
  BY <1>1, <1>2 DEF RegistersLast
<1>6. SetsLast(s)' /\ Begun(s) /\ s # c => ~ (Op(c) = "set setting" /\ User(c) = Owner)
  BY <1>1, <1>2, <1>3 DEF SetsLast
<1>7. RegistersLast(s)' /\ Begun(s) /\ s # c => ~ (Op(c) = "set device" /\ Token(c) = Token(s))
  BY <1>1, <1>2, <1>3 DEF RegistersLast
<1>8. s = c /\ SetsLast(c)' => \A d \in Calls \ {c} : ~ (SetsLast(d)' /\ Begun(d) /\ ~ Ended(d))
  BY <1>1, <1>2, <1>3 DEF SetsLast
<1> QED
  BY <1>4, <1>5, <1>6, <1>7, <1>8

LEMMA NotedKeeps ==
  ASSUME NInv, NEW c \in Calls, Noted(c)
  PROVE  NInv'
<1>1. Stepped(c) /\ Shape /\ Clock
  BY DEF Noted, NInv
<1>2. /\ Shape' /\ Clock'
      /\ \A d \in Calls : Begun(d) => before'[d] = before[d] /\ Begun(d)'
  BY <1>1, ClockRuns
<1>3. /\ pc[c] # "ended" /\ answer[c] = "none" /\ request' = request
      /\ \A d \in Calls \ {c} : pc'[d] = pc[d] /\ answer'[d] = answer[d]
  BY <1>1 DEF Stepped, Clock, Ended
<1>4. \A d \in Calls : Op(d)' = Op(d) /\ User(d)' = User(d) /\ Token(d)' = Token(d)
  BY <1>3 DEF Op, User, Token
<1>5. \A d \in Calls : \A e \in before[d] : e \in Calls /\ e # c /\ Begun(e)
  BY <1>1, <1>3 DEF Shape, Clock, Ended, Begun
<1>6. \A d \in Calls : NoticeSteps(d)'
  <2>1. NoticeSteps(c)'
    BY DEF Noted
  <2>2. ASSUME NEW d \in Calls \ {c} PROVE NoticeSteps(d)'
    <3>1. NoticeSteps(d)
      BY DEF NInv
    <3> QED
      BY <3>1, <1>3, <1>4 DEF NoticeSteps
  <2> QED
    BY <2>1, <2>2
<1>7. KnownNotices'
  BY <1>3, <1>4 DEF NInv, KnownNotices
<1>8. \A d \in Calls : pc[d] \in {"load setting", "write setting"} => Op(d) = "set setting" /\ User(d) \in Users
  BY DEF NInv, NoticeSteps, KnownNotices
<1>9. SettingsOK'
  <2>1. ASSUME NEW d \in Calls, pc'[d] \in {"load setting", "write setting"}
        PROVE  /\ setting'[User(d)] \in Preferences
               /\ entity'[d] \in Preferences /\ entity'[d][request[d].kind] = request[d].value
    <3>1. CASE d = c
      BY <2>1, <3>1 DEF Noted
    <3>2. CASE d # c
      <4>1. /\ pc[d] \in {"load setting", "write setting"} /\ User(d) \in Users
            /\ entity'[d] = entity[d]
        BY <2>1, <3>2, <1>3, <1>8 DEF Noted
      <4>2. /\ setting[User(d)] \in Preferences
            /\ entity[d] \in Preferences /\ entity[d][request[d].kind] = request[d].value
        BY <4>1 DEF NInv, SettingsOK
      <4>3. setting'[User(d)] \in Preferences
        BY <4>1, <4>2 DEF Noted
      <4> QED
        BY <4>1, <4>2, <4>3
    <3> QED
      BY <3>1, <3>2
  <2>2. /\ setting' \in [Users -> Preferences \cup {NoSetting}]
        /\ entity' = [d \in Calls |-> entity'[d]] /\ loaded' = [d \in Calls |-> loaded'[d]]
    BY DEF Noted
  <2> QED
    BY <2>1, <2>2, <1>3, <1>4 DEF SettingsOK
<1>10. DevicesOK'
  BY DEF Noted, DevicesOK
<1>11. \A d \in Calls : answer'[d] = "OK" => (d # c => Begun(d) /\ answer[d] = "OK")
  BY <1>1, <1>3 DEF Clock, Begun, Ended
<1>12. Settings'
  <2> SUFFICES ASSUME NEW s \in Calls, SetsLast(s)'
               PROVE  /\ answer'[s] = "OK" => setting'[Owner][request[s].kind] = request[s].value
                      /\ pc'[s] = "write setting" => loaded'[s] = setting'[Owner]
    BY <1>3 DEF Settings
  <2>1. Op(s) = "set setting" /\ User(s) = Owner /\ Owner \in Users /\ request[s].kind \in Kinds /\ request[s].value \in {0, 1}
    BY <1>4, WorkloadsAssumption DEF SetsLast, NInv, KnownNotices
  <2>2. CASE s = c
    <3>1. pc'[s] = "write setting" => loaded'[s] = setting'[Owner]
      BY <2>1, <2>2 DEF Noted
    <3>2. ASSUME answer'[s] = "OK" PROVE setting'[Owner][request[s].kind] = request[s].value
      <4>1. pc[c] = "write setting"
        BY <2>1, <2>2, <3>2 DEF Noted
      <4>2. SetsLast(c)
        BY <4>1, <2>2, <1>1, LastStays DEF Begun
      <4>3. loaded[c] = setting[Owner]
        BY <4>1, <4>2 DEF NInv, Settings
      <4> QED
        BY <4>3, <2>1, <2>2, <3>2 DEF Noted
    <3> QED
      BY <3>1, <3>2
  <2>3. CASE s # c /\ (answer'[s] = "OK" \/ pc'[s] = "write setting")
    <3>1. Begun(s) /\ (answer'[s] = "OK" => answer[s] = "OK") /\ pc'[s] = pc[s]
      BY <2>3, <1>3, <1>11 DEF Begun
    <3>2. SetsLast(s) /\ ~ (Op(c) = "set setting" /\ User(c) = Owner)
      BY <2>3, <3>1, <1>1, LastStays
    <3>3. /\ answer[s] = "OK" => setting[Owner][request[s].kind] = request[s].value
          /\ pc[s] = "write setting" => loaded[s] = setting[Owner] /\ setting[Owner] \in Preferences
      BY <3>2, <2>1 DEF NInv, Settings, SettingsOK
    <3>4. setting[Owner] # NoSetting
      <4>1. CASE answer[s] = "OK"
        <5>1. NoSetting[request[s].kind] = 2
          BY <2>1 DEF NoSetting
        <5>2. setting[Owner][request[s].kind] = request[s].value
          BY <4>1, <3>3
        <5>3. request[s].value # 2
          <6>1. request[s].value \in {0, 1}
            BY <2>1
          <6> QED
            BY <6>1
        <5> QED
          BY <5>1, <5>2, <5>3
      <4>2. CASE pc[s] = "write setting"
        BY <4>2, <3>3, NotSetting
      <4> QED
        BY <4>1, <4>2, <2>3, <3>1
    <3>5. setting'[Owner] = setting[Owner]
      BY <2>1, <3>2, <3>4 DEF Noted
    <3>6. loaded'[s] = loaded[s]
      BY <2>3 DEF Noted
    <3> QED
      BY <3>1, <3>3, <3>5, <3>6
  <2> QED
    BY <2>2, <2>3
<1>13. Registered'
  <2> SUFFICES ASSUME NEW s \in Calls, RegistersLast(s)'
               PROVE  /\ answer'[s] = "OK" => device'[Token(s)].user = User(s)
                      /\ pc'[s] = "write device" => registered'[s].user = device'[Token(s)].user
    BY <1>3 DEF Registered, Token, User
  <2>1. Op(s) = "set device" /\ Token(s) \in Devices
    BY <1>4 DEF RegistersLast, NInv, KnownNotices
  <2>2. CASE s = c
    <3>1. pc'[s] = "write device" => registered'[s].user = device'[Token(s)].user
      BY <2>2 DEF Noted
    <3>2. ASSUME answer'[s] = "OK" PROVE device'[Token(s)].user = User(s)
      <4>1. CASE pc[c] = "write device"
        <5>1. RegistersLast(c)
          BY <4>1, <2>2, <1>1, LastStays DEF Begun
        <5>2. registered[c].user = device[Token(c)].user
          BY <4>1, <5>1 DEF NInv, Registered
        <5> QED
          BY <5>2, <2>1, <2>2, <3>2 DEF Noted
      <4>2. CASE pc[c] # "write device"
        BY <4>2, <2>1, <2>2, <3>2 DEF Noted
      <4> QED
        BY <4>1, <4>2
    <3> QED
      BY <3>1, <3>2
  <2>3. CASE s # c /\ (answer'[s] = "OK" \/ pc'[s] = "write device")
    <3>1. Begun(s) /\ (answer'[s] = "OK" => answer[s] = "OK") /\ pc'[s] = pc[s]
      BY <2>3, <1>3, <1>11 DEF Begun
    <3>2. RegistersLast(s) /\ ~ (Op(c) = "set device" /\ Token(c) = Token(s))
      BY <2>3, <3>1, <1>1, LastStays
    <3>3. /\ answer[s] = "OK" => device[Token(s)].user = User(s)
          /\ pc[s] = "write device" => registered[s].user = device[Token(s)].user
      BY <3>2 DEF NInv, Registered
    <3>4. device'[Token(s)].user = device[Token(s)].user
      BY <2>1, <3>2 DEF Noted
    <3>5. registered'[s] = registered[s]
      BY <2>3 DEF Noted
    <3> QED
      BY <3>1, <3>3, <3>4, <3>5
  <2> QED
    BY <2>2, <2>3
<1>14. \A d \in Calls : Begun(d) =>
         /\ Begun(d)'
         /\ Wanted(d) => Wanted(d)'
         /\ \A t \in Devices : OwnersFor(d, t) => OwnersFor(d, t)'
  <2>1. ASSUME NEW d \in Calls, Begun(d)
        PROVE  /\ Begun(d)'
               /\ Wanted(d) => Wanted(d)'
               /\ \A t \in Devices : OwnersFor(d, t) => OwnersFor(d, t)'
    <3>1. \A s \in before'[d] : /\ s \in before[d] /\ s \in Calls /\ answer'[s] = answer[s]
                                /\ SetsLast(s)' => SetsLast(s)
                                /\ RegistersLast(s)' => RegistersLast(s)
      BY <2>1, <1>1, <1>2, <1>3, <1>5, LastStays
    <3>2. \A s \in before'[d] : User(s)' = User(s) /\ Token(s)' = Token(s)
      BY <3>1, <1>4
    <3>3. Wanted(d) => Wanted(d)'
      BY <2>1, <3>1, <1>3, <1>4 DEF Wanted
    <3>4. \A t \in Devices : OwnersFor(d, t) => OwnersFor(d, t)'
      BY <3>1, <3>2 DEF OwnersFor
    <3> QED
      BY <2>1, <1>2, <3>3, <3>4
  <2> QED
    BY <2>1
<1>15. Pushes'
  <2>1. ASSUME NEW d \in Calls
        PROVE  /\ push'[d].at # "none" => Op(d)' \in Kinds /\ Begun(d)'
               /\ push'[d].at \in {"tokens", "send"} => Wanted(d)'
               /\ push'[d].at = "send" => \A t \in push'[d].to : OwnersFor(d, t)'
               /\ \A t \in pushed'[d] : Begun(d)' /\ Wanted(d)' /\ OwnersFor(d, t)'
    <3>1. /\ push[d].at # "none" => Op(d) \in Kinds /\ Begun(d)
          /\ push[d].at \in {"tokens", "send"} => Wanted(d)
          /\ push[d].at = "send" => \A t \in push[d].to : OwnersFor(d, t)
          /\ \A t \in pushed[d] : Begun(d) /\ Wanted(d) /\ OwnersFor(d, t)
          /\ push[d].to \subseteq Devices /\ pushed[d] \subseteq Devices
      BY DEF NInv, Pushes
    <3>2. pushed'[d] = pushed[d]
      BY DEF Noted
    <3>3. \A t \in pushed'[d] : Begun(d)' /\ Wanted(d)' /\ OwnersFor(d, t)'
      BY <3>1, <3>2, <1>14
    <3>4. CASE push'[d] = push[d]
      <4>1. push'[d].at # "none" => Op(d)' \in Kinds /\ Begun(d)'
        BY <3>1, <3>4, <1>2, <1>4
      <4>2. push'[d].at \in {"tokens", "send"} => Wanted(d)' /\ Begun(d)
        <5>1. ASSUME push[d].at \in {"tokens", "send"} PROVE Wanted(d) /\ Begun(d)
          BY <3>1, <5>1
        <5> QED
          BY <5>1, <3>4, <1>14
      <4>3. push'[d].at = "send" => \A t \in push'[d].to : OwnersFor(d, t)'
        BY <3>1, <3>4, <1>14
      <4> QED
        BY <4>1, <4>2, <4>3, <3>3
    <3>5. CASE push'[d] # push[d]
      <4>1. d = c /\ push'[d].at = "settings" /\ Op(c) \in Kinds
        BY <3>5 DEF Noted
      <4>2. Begun(c)'
        BY <1>1 DEF Stepped, Begun
      <4> QED
        BY <4>1, <4>2, <3>3, <1>4
    <3> QED
      BY <3>4, <3>5
  <2>2. push' \in [Calls -> [at : PushStages, to : SUBSET Devices]] /\ pushed' \in [Calls -> SUBSET Devices]
    BY DEF Noted, NInv, Pushes
  <2> QED
    BY <2>1, <2>2 DEF Pushes
<1> QED
  BY <1>2, <1>6, <1>7, <1>9, <1>10, <1>12, <1>13, <1>15 DEF NInv

\* A statement of the push of c's notification, or its loss.
Pushing(c) ==
  /\ UNCHANGED <<request, pc, answer, before, setting, entity, loaded, registered>>
  /\ device' \in [Devices -> DeviceRows]
  /\ \A t \in Devices : device'[t].user = device[t].user
  /\ push[c].at # "none"
  /\ push' \in [Calls -> [at : PushStages, to : SUBSET Devices]]
  /\ pushed' \in [Calls -> SUBSET Devices]
  /\ \A d \in Calls \ {c} : push'[d] = push[d] /\ pushed'[d] = pushed[d]
  /\ push'[c].at \in {"tokens", "send"} =>
       push[c].at = "tokens" \/ setting[Owner][Op(c)] # 0
  /\ push'[c].at = "send" => \A t \in push'[c].to : device[t].user = Owner
  /\ pushed'[c] = pushed[c] \/ (push[c].at = "send" /\ pushed'[c] = push[c].to)

LEMMA SameRequests ==
  ASSUME UNCHANGED <<request, pc, answer, before>>
  PROVE  /\ Shape => Shape'
         /\ Clock => Clock'
         /\ KnownNotices => KnownNotices'
         /\ \A c \in Calls : /\ NoticeSteps(c) => NoticeSteps(c)'
                             /\ Wanted(c) => Wanted(c)'
                             /\ Begun(c)' = Begun(c) /\ Op(c)' = Op(c)
                             /\ SetsLast(c)' => SetsLast(c)
                             /\ RegistersLast(c)' => RegistersLast(c)
                             /\ \A t : OwnersFor(c, t) => OwnersFor(c, t)'
<1>1. \A c : Op(c)' = Op(c) /\ User(c)' = User(c) /\ Token(c)' = Token(c) /\ Begun(c)' = Begun(c) /\ Ended(c)' = Ended(c)
  BY DEF Op, User, Token, Begun, Ended
<1>2. (Shape => Shape') /\ (Clock => Clock') /\ (KnownNotices => KnownNotices')
  BY <1>1 DEF Shape, Clock, KnownNotices
<1>3. ASSUME NEW c \in Calls
      PROVE  /\ NoticeSteps(c) => NoticeSteps(c)'
             /\ Wanted(c) => Wanted(c)'
             /\ SetsLast(c)' => SetsLast(c)
             /\ RegistersLast(c)' => RegistersLast(c)
             /\ \A t : OwnersFor(c, t) => OwnersFor(c, t)'
  <2>1. NoticeSteps(c) => NoticeSteps(c)'
    BY <1>1 DEF NoticeSteps
  <2>2. \A s : (SetsLast(s)' => SetsLast(s)) /\ (RegistersLast(s)' => RegistersLast(s))
    BY <1>1 DEF SetsLast, RegistersLast
  <2>3. Wanted(c) => Wanted(c)'
    BY <1>1, <2>2 DEF Wanted
  <2>4. ASSUME NEW t, OwnersFor(c, t) PROVE OwnersFor(c, t)'
    BY <1>1, <2>2, <2>4 DEF OwnersFor
  <2> QED
    BY <2>1, <2>2, <2>3, <2>4
<1> QED
  BY <1>1, <1>2, <1>3

LEMMA PushingKeeps ==
  ASSUME NInv, NEW c \in Calls, Pushing(c)
  PROVE  NInv'
<1>1. UNCHANGED <<request, pc, answer, before>> /\ UNCHANGED <<setting, entity, loaded, registered>>
  BY DEF Pushing
<1>2. Shape' /\ Clock' /\ KnownNotices' /\ \A d \in Calls : NoticeSteps(d)'
  BY <1>1, SameRequests DEF NInv
<1>3. \A d \in Calls : Op(d)' = Op(d) /\ User(d)' = User(d) /\ Token(d)' = Token(d)
  BY <1>1 DEF Op, User, Token
<1>4. SettingsOK' /\ DevicesOK'
  BY <1>1, <1>3 DEF NInv, SettingsOK, DevicesOK, Pushing
<1>5. Settings'
  BY <1>1, SameRequests DEF NInv, Settings
<1>6. Registered'
  <2> SUFFICES ASSUME NEW s \in Calls, RegistersLast(s)'
               PROVE  /\ answer[s] = "OK" => device'[Token(s)].user = User(s)
                      /\ pc[s] = "write device" => registered[s].user = device'[Token(s)].user
    BY <1>1, <1>3 DEF Registered
  <2>1. RegistersLast(s)
    BY <1>1, SameRequests
  <2>2. Token(s) \in Devices
    BY <2>1 DEF RegistersLast, NInv, KnownNotices
  <2> QED
    BY <2>1, <2>2 DEF NInv, Registered, Pushing
<1>7. /\ push[c].at # "none" => Op(c) \in Kinds /\ Begun(c)
      /\ push[c].at \in {"tokens", "send"} => Wanted(c)
      /\ push[c].at = "send" => \A t \in push[c].to : OwnersFor(c, t)
      /\ \A t \in pushed[c] : Begun(c) /\ Wanted(c) /\ OwnersFor(c, t)
      /\ push[c].to \subseteq Devices /\ pushed[c] \subseteq Devices
  BY DEF NInv, Pushes
<1>8. push[c].at # "none" /\ Op(c) \in Kinds /\ Begun(c)
  BY <1>7 DEF Pushing
<1>9. \A s \in before[c] : s \in Calls
  BY DEF NInv, Shape
<1>10. setting[Owner][Op(c)] # 0 => Wanted(c)
  <2> SUFFICES ASSUME setting[Owner][Op(c)] # 0, NEW s \in before[c],
                      SetsLast(s), answer[s] = "OK", request[s].kind = Op(c)
               PROVE  request[s].value = 1
    BY DEF Wanted
  <2>1. setting[Owner][Op(c)] = request[s].value
    BY <1>9 DEF NInv, Settings
  <2>2. request[s].value \in {0, 1}
    BY <1>9 DEF SetsLast, NInv, KnownNotices
  <2> QED
    BY <2>1, <2>2
<1>11. \A t \in Devices : device[t].user = Owner => OwnersFor(c, t)
  BY <1>9 DEF OwnersFor, NInv, Registered
<1>12. push'[c].at \in {"tokens", "send"} => Wanted(c)
  BY <1>7, <1>10 DEF Pushing
<1>13. push'[c].at = "send" => \A t \in push'[c].to : OwnersFor(c, t)
  <2>1. push'[c].to \subseteq Devices
    BY DEF Pushing
  <2> QED
    BY <2>1, <1>11 DEF Pushing
<1>14. \A t \in pushed'[c] : Wanted(c) /\ OwnersFor(c, t)
  BY <1>7 DEF Pushing
<1>15. Pushes'
  <2>1. push' \in [Calls -> [at : PushStages, to : SUBSET Devices]] /\ pushed' \in [Calls -> SUBSET Devices]
    BY DEF Pushing
  <2>2. ASSUME NEW d \in Calls
        PROVE  /\ push'[d].at # "none" => Op(d)' \in Kinds /\ Begun(d)'
               /\ push'[d].at \in {"tokens", "send"} => Wanted(d)'
               /\ push'[d].at = "send" => \A t \in push'[d].to : OwnersFor(d, t)'
               /\ \A t \in pushed'[d] : Begun(d)' /\ Wanted(d)' /\ OwnersFor(d, t)'
    <3>1. /\ push'[d].at # "none" => Op(d) \in Kinds /\ Begun(d)
          /\ push'[d].at \in {"tokens", "send"} => Wanted(d)
          /\ push'[d].at = "send" => \A t \in push'[d].to : OwnersFor(d, t)
          /\ \A t \in pushed'[d] : Begun(d) /\ Wanted(d) /\ OwnersFor(d, t)
      <4>1. CASE d = c
        BY <4>1, <1>8, <1>12, <1>13, <1>14
      <4>2. CASE d # c
        <5>1. push'[d] = push[d] /\ pushed'[d] = pushed[d]
          BY <4>2 DEF Pushing
        <5> QED
          BY <5>1 DEF NInv, Pushes
      <4> QED
        BY <4>1, <4>2
    <3> QED
      BY <3>1, <1>1, SameRequests
  <2> QED
    BY <2>1, <2>2 DEF Pushes
<1> QED
  BY <1>2, <1>4, <1>5, <1>6, <1>15 DEF NInv

LEMMA NoticesStay ==
  ASSUME NInv, UNCHANGED <<request, pc, answer, before, setting, entity, loaded, devices, pushes>>
  PROVE  NInv'
<1>1. UNCHANGED <<request, pc, answer, before>> /\ UNCHANGED <<setting, entity, loaded, device, registered, push, pushed>>
  BY DEF devices, pushes
<1>2. Shape' /\ Clock' /\ KnownNotices' /\ \A d \in Calls : NoticeSteps(d)'
  BY <1>1, SameRequests DEF NInv
<1>3. \A d \in Calls : Op(d)' = Op(d) /\ User(d)' = User(d) /\ Token(d)' = Token(d)
  BY <1>1 DEF Op, User, Token
<1>4. SettingsOK' /\ DevicesOK'
  BY <1>1, <1>3 DEF NInv, SettingsOK, DevicesOK
<1>5. Settings'
  BY <1>1, SameRequests DEF NInv, Settings
<1>6. Registered'
  BY <1>1, <1>3, SameRequests DEF NInv, Registered
<1>7. Pushes'
  BY <1>1, SameRequests DEF NInv, Pushes
<1> QED
  BY <1>2, <1>4, <1>5, <1>6, <1>7 DEF NInv

-----------------------------------------------------------------------------
\* A statement that neither reads nor writes a setting or a device.
Unnoted(c) ==
  /\ Stepped(c)
  /\ Op(c) \notin {"set setting", "set device"} \/ (pc'[c] = "ended" /\ answer'[c] # "OK")
  /\ pc'[c] \notin {"create setting", "load setting", "write setting", "insert device", "load device", "write device"}
  /\ pc'[c] \in {"save like", "insert notice"} => Op(c) \in Kinds
  /\ UNCHANGED <<setting, entity, loaded, devices, pushed>>
  /\ push' \in [Calls -> [at : PushStages, to : SUBSET Devices]]
  /\ \A d \in Calls \ {c} : push'[d] = push[d]
  /\ push'[c] = push[c] \/ (push'[c].at = "settings" /\ Op(c) \in Kinds)

LEMMA UnnotedIsNoted ==
  ASSUME NInv, NEW c \in Calls, Unnoted(c)
  PROVE  Noted(c)
<1>1. Op(c)' = Op(c) /\ NoticeSteps(c) /\ SettingsOK /\ DevicesOK
  BY DEF Unnoted, Stepped, Op, NInv
<1>2. NoticeSteps(c)'
  BY <1>1 DEF Unnoted, NoticeSteps, Kinds
<1> QED
  BY <1>1, <1>2 DEF Unnoted, Noted, SettingsOK, DevicesOK, devices

LEMMA RelationsAreUnnoted ==
  ASSUME NInv, NEW c \in Calls, RelationsStep(c), UNCHANGED <<accounts, notifications>>
  PROVE  Unnoted(c)
<1>1. Shape /\ NoticeSteps(c) /\ Pushes
  BY DEF NInv
<1>2. UNCHANGED <<setting, entity, loaded, devices, pushed>> /\ push' = push
  BY DEF notifications, settings, pushes
<1>3. push' \in [Calls -> [at : PushStages, to : SUBSET Devices]]
  BY <1>1, <1>2 DEF Pushes
<1> USE <1>1, <1>2, <1>3 DEF Unnoted, Stepped, Go, Return, Move, Shape, NoticeSteps
<1>4. CASE FindBlock(c)  BY <1>4 DEF FindBlock
<1>5. CASE SaveBlock(c)  BY <1>5 DEF SaveBlock
<1>6. CASE DeleteFollow(c)  BY <1>6 DEF DeleteFollow
<1>7. CASE DeleteFollowBack(c)  BY <1>7 DEF DeleteFollowBack
<1>8. CASE DeleteBlock(c)  BY <1>8 DEF DeleteBlock
<1>9. CASE FindBlocked(c)  BY <1>9 DEF FindBlocked
<1>10. CASE FindFollow(c)  BY <1>10 DEF FindFollow
<1>11. CASE SaveFollow(c)  BY <1>11 DEF SaveFollow
<1>12. CASE DeleteOwnFollow(c)  BY <1>12 DEF DeleteOwnFollow
<1>13. CASE CountFollows(c)  BY <1>13 DEF CountFollows
<1> QED
  BY <1>4, <1>5, <1>6, <1>7, <1>8, <1>9, <1>10, <1>11, <1>12, <1>13 DEF RelationsStep

LEMMA AccountsAreUnnoted ==
  ASSUME NInv, NEW c \in Calls, AccountsStep(c), UNCHANGED <<relations, notifications>>
  PROVE  Unnoted(c)
<1>1. Shape /\ NoticeSteps(c) /\ Pushes
  BY DEF NInv
<1>2. UNCHANGED <<setting, entity, loaded, devices, pushed>> /\ push' = push
  BY DEF notifications, settings, pushes
<1>3. push' \in [Calls -> [at : PushStages, to : SUBSET Devices]]
  BY <1>1, <1>2 DEF Pushes
<1>4. Stepped(c)
  BY <1>1, AccountsAreQuiet DEF Quiet
<1> USE <1>1, <1>2, <1>3, <1>4 DEF Unnoted, Go, Return, Move, Shape, NoticeSteps
<1>5. CASE FindPhone(c)  BY <1>5 DEF FindPhone
<1>6. CASE SaveUser(c)  BY <1>6 DEF SaveUser
<1>7. CASE FindForLogin(c)  BY <1>7 DEF FindForLogin
<1>8. CASE Rehash(c)  BY <1>8 DEF Rehash
<1>9. CASE FindForChange(c)  BY <1>9 DEF FindForChange
<1>10. CASE ChangePassword(c)  BY <1>10 DEF ChangePassword
<1>11. CASE FindForCode(c)  BY <1>11 DEF FindForCode
<1>12. CASE GetCooldown(c)  BY <1>12 DEF GetCooldown
<1>13. CASE SetCode(c)  BY <1>13 DEF SetCode
<1>14. CASE SetCooldown(c)  BY <1>14 DEF SetCooldown
<1>15. CASE GetCode(c)  BY <1>15 DEF GetCode
<1>16. CASE DeleteCode(c)  BY <1>16 DEF DeleteCode
<1>17. CASE SetVerified(c)  BY <1>17 DEF SetVerified
<1>18. CASE FindForReset(c)  BY <1>18 DEF FindForReset
<1>19. CASE GetVerified(c)  BY <1>19 DEF GetVerified
<1>20. CASE ResetPassword(c)  BY <1>20 DEF ResetPassword
<1>21. CASE DeleteVerified(c)  BY <1>21 DEF DeleteVerified
<1>22. CASE FindForInfo(c)  BY <1>22 DEF FindForInfo
<1>23. CASE UpdateInfo(c)  BY <1>23 DEF UpdateInfo
<1>24. CASE SetUserInfo(c)  BY <1>24 DEF SetUserInfo
<1> QED
  BY <1>5, <1>6, <1>7, <1>8, <1>9, <1>10, <1>11, <1>12, <1>13, <1>14, <1>15, <1>16, <1>17, <1>18,
     <1>19, <1>20, <1>21, <1>22, <1>23, <1>24 DEF AccountsStep

LEMMA SettingsAreNoted ==
  ASSUME NInv, NEW c \in Calls, FindSetting(c) \/ CreateSetting(c) \/ LoadSetting(c) \/ WriteSetting(c)
  PROVE  Noted(c)
<1>1. /\ Shape /\ Clock /\ NoticeSteps(c) /\ KnownNotices /\ SettingsOK /\ DevicesOK /\ Pushes
  BY DEF NInv
<1>2. Stepped(c)
  BY <1>1 DEF Shape, FindSetting, CreateSetting, LoadSetting, WriteSetting, Stepped, Go, Return, Move
<1>3. UNCHANGED <<devices, pushes>> /\ DevicesOK'
  BY <1>1 DEF FindSetting, CreateSetting, LoadSetting, WriteSetting, DevicesOK, devices
<1>4. answer[c] = "none" /\ Op(c)' = Op(c) /\ Op(c) \in {"get setting", "set setting"}
  BY <1>1, <1>2 DEF Clock, Stepped, Ended, Op, FindSetting, CreateSetting, LoadSetting, WriteSetting, Go, Return, Move,
                    NoticeSteps
<1>5. User(c) \in Users
  BY <1>1, <1>4 DEF KnownNotices
<1>6. NoticeSteps(c)'
  BY <1>1, <1>4 DEF Shape, FindSetting, CreateSetting, LoadSetting, WriteSetting, NoticeSteps, Go, Return, Move
<1> DEFINE u == User(c)
           k == request[c].kind
<1>7. Op(c) = "set setting" => k \in Kinds /\ request[c].value \in {0, 1}
  BY <1>1 DEF KnownNotices
<1>8. ASSUME NEW row \in Preferences
      PROVE  Changed(c, row) \in Preferences /\ (Op(c) = "set setting" => Changed(c, row)[k] = request[c].value)
  BY <1>7 DEF Changed, Preferences
<1>9. DefaultSetting \in Preferences
  BY DEF DefaultSetting, Preferences
<1>10. /\ setting[u] \in Preferences \cup {NoSetting}
       /\ setting \in [Users -> Preferences \cup {NoSetting}]
       /\ entity = [d \in Calls |-> entity[d]] /\ loaded = [d \in Calls |-> loaded[d]]
  BY <1>1, <1>5 DEF SettingsOK
<1>11. \* What the settings become.
       /\ setting' \in [Users -> Preferences \cup {NoSetting}]
       /\ entity' = [d \in Calls |-> entity'[d]] /\ loaded' = [d \in Calls |-> loaded'[d]]
       /\ \A d \in Calls \ {c} : entity'[d] = entity[d] /\ loaded'[d] = loaded[d]
       /\ \A v \in Users :
            /\ setting'[v] # setting[v] => v = u /\ (Op(c) = "set setting" \/ setting[v] = NoSetting)
            /\ setting[v] \in Preferences => setting'[v] \in Preferences
       /\ pc'[c] \in {"load setting", "write setting"} =>
            /\ setting'[u] \in Preferences
            /\ entity'[c] \in Preferences /\ entity'[c][k] = request[c].value
       /\ pc'[c] = "write setting" => loaded'[c] = setting'[u]
       /\ Op(c) = "set setting" /\ answer'[c] = "OK" =>
            /\ pc[c] = "write setting"
            /\ loaded[c] = setting[u] => setting'[u][k] = request[c].value
  <2>1. CASE FindSetting(c)
    <3>1. /\ pc' = [pc EXCEPT ![c] = pc'[c]] /\ answer' = [answer EXCEPT ![c] = answer'[c]]
          /\ setting' = setting /\ loaded' = loaded
          /\ \/ pc'[c] = "create setting" /\ answer' = answer /\ entity' = entity
             \/ /\ setting[u] # NoSetting /\ entity' = [entity EXCEPT ![c] = Changed(c, setting[u])]
                /\ \/ Op(c) = "get setting" /\ pc'[c] = "ended"
                   \/ Op(c) = "set setting" /\ pc'[c] = "load setting" /\ answer' = answer
      BY <2>1, <1>1 DEF FindSetting, Go, Return, Move, Shape
    <3> QED
      BY <3>1, <1>4, <1>8, <1>10
  <2>2. CASE CreateSetting(c)
    <3>1. /\ loaded' = loaded
          /\ \/ pc'[c] = "ended" /\ answer'[c] # "OK" /\ setting' = setting /\ entity' = entity
             \/ /\ setting[u] = NoSetting /\ setting' = [setting EXCEPT ![u] = DefaultSetting]
                /\ entity' = [entity EXCEPT ![c] = Changed(c, DefaultSetting)]
                /\ \/ Op(c) = "get setting" /\ pc'[c] = "ended"
                   \/ Op(c) = "set setting" /\ pc'[c] = "load setting" /\ answer' = answer
      BY <2>2, <1>1 DEF CreateSetting, Go, Return, Move, Shape
    <3>2. CASE pc'[c] = "ended" /\ answer'[c] # "OK" /\ setting' = setting /\ entity' = entity
      BY <3>1, <3>2, <1>10
    <3>3. CASE setting' = [setting EXCEPT ![u] = DefaultSetting] /\ setting[u] = NoSetting
      <4>1. /\ setting' \in [Users -> Preferences \cup {NoSetting}]
            /\ setting'[u] = DefaultSetting /\ \A v \in Users : v # u => setting'[v] = setting[v]
        BY <3>3, <1>5, <1>9, <1>10
      <4> QED
        BY <3>1, <3>3, <4>1, <1>4, <1>5, <1>8, <1>9, <1>10
    <3> QED
      BY <3>1, <3>2, <3>3
  <2>3. CASE LoadSetting(c)
    <3>1. /\ pc[c] = "load setting" /\ pc'[c] = "write setting" /\ answer' = answer /\ setting' = setting
          /\ entity' = entity /\ loaded' = [loaded EXCEPT ![c] = setting[u]]
      BY <2>3, <1>1 DEF LoadSetting, Go, Move, Shape
    <3>2. setting[u] \in Preferences /\ entity[c] \in Preferences /\ entity[c][k] = request[c].value
      BY <3>1, <1>1 DEF SettingsOK
    <3> QED
      BY <3>1, <3>2, <1>4, <1>10
  <2>4. CASE WriteSetting(c)
    <3> DEFINE row == [j \in Kinds |-> Saved(entity[c][j], loaded[c][j], setting[u][j])]
    <3>1. /\ pc[c] = "write setting" /\ pc'[c] = "ended" /\ entity' = entity /\ loaded' = loaded
          /\ setting' = [setting EXCEPT ![u] = row]
      BY <2>4, <1>1 DEF WriteSetting, Return, Move, Shape
    <3>2. /\ Op(c) = "set setting" /\ setting[u] \in Preferences /\ entity[c] \in Preferences
          /\ entity[c][k] = request[c].value
      BY <3>1, <1>1 DEF SettingsOK, NoticeSteps
    <3>3. row \in Preferences
      BY <3>2 DEF Preferences, Saved
    <3>4. loaded[c] = setting[u] => row[k] = request[c].value
      BY <3>2, <1>7 DEF Saved
    <3> HIDE DEF row
    <3>5. /\ setting' \in [Users -> Preferences \cup {NoSetting}]
          /\ setting'[u] = row /\ \A v \in Users : v # u => setting'[v] = setting[v]
      BY <3>1, <3>3, <1>5, <1>10
    <3> QED
      BY <3>1, <3>2, <3>3, <3>4, <3>5, <1>10
  <2> QED
    BY <2>1, <2>2, <2>3, <2>4
<1>12. pc'[c] # "write device" /\ Op(c) # "set device"
  BY <1>4, <1>6 DEF NoticeSteps
<1> QED
  BY <1>1, <1>2, <1>3, <1>6, <1>11, <1>12 DEF Noted, DevicesOK, Pushes, devices, pushes

LEMMA DevicesAreNoted ==
  ASSUME NInv, NEW c \in Calls, FindDevice(c) \/ InsertDevice(c) \/ LoadDevice(c) \/ WriteDevice(c)
  PROVE  Noted(c)
<1>1. /\ Shape /\ Clock /\ NoticeSteps(c) /\ KnownNotices /\ SettingsOK /\ DevicesOK /\ Pushes
  BY DEF NInv
<1>2. Stepped(c)
  BY <1>1 DEF Shape, FindDevice, InsertDevice, LoadDevice, WriteDevice, Stepped, Go, Return, Move
<1>3. UNCHANGED <<setting, entity, loaded, pushes>>
  BY DEF FindDevice, InsertDevice, LoadDevice, WriteDevice, notifications, settings
<1>4. Op(c)' = Op(c) /\ Op(c) = "set device"
  BY <1>1, <1>2 DEF Stepped, Op, FindDevice, InsertDevice, LoadDevice, WriteDevice, Go, Return, Move, NoticeSteps
<1>5. User(c) \in STRING /\ Token(c) \in Devices
  BY <1>1, <1>4 DEF KnownNotices
<1>6. NoticeSteps(c)'
  BY <1>1, <1>4 DEF Shape, FindDevice, InsertDevice, LoadDevice, WriteDevice, NoticeSteps, Go, Return, Move
<1> DEFINE t == Token(c)
           u == User(c)
<1>7. device \in [Devices -> DeviceRows] /\ registered \in [Calls -> DeviceRows]
  BY <1>1 DEF DevicesOK
<1>8. answer[c] = "none"
  BY <1>1, <1>2 DEF Clock, Stepped, Ended
<1>9. ASSUME NEW x \in BOOLEAN, NEW v \in STRING
      PROVE  [user |-> v, active |-> x] \in DeviceRows
  BY DEF DeviceRows
<1>10. /\ device' \in [Devices -> DeviceRows] /\ registered' \in [Calls -> DeviceRows]
       /\ \A d \in Calls \ {c} : registered'[d] = registered[d]
       /\ \A d \in Devices : device'[d].user # device[d].user => d = t
       /\ pc'[c] = "write device" => registered'[c].user = device'[t].user
       /\ answer'[c] = "OK" =>
            \/ pc[c] = "write device" /\ registered[c].user # device[t].user
            \/ device'[t].user = u
  <2>1. CASE FindDevice(c)
    <3>1. device' = device /\ registered' = registered /\ answer' = answer /\ pc'[c] # "write device"
      BY <2>1, <1>1 DEF FindDevice, Go, Move, Shape, notifications, devices
    <3> QED
      BY <3>1, <1>7, <1>8
  <2>2. CASE InsertDevice(c)
    <3>1. /\ registered' = registered /\ pc'[c] = "ended"
          /\ \/ answer'[c] # "OK" /\ device' = device
             \/ device' = [device EXCEPT ![t] = Registration(c)]
      BY <2>2, <1>1 DEF InsertDevice, Return, Move, Shape
    <3>2. Registration(c) \in DeviceRows /\ Registration(c).user = u
      BY <1>5 DEF Registration, DeviceRows
    <3>3. CASE device' = device /\ answer'[c] # "OK"
      BY <3>1, <3>3, <1>7
    <3>4. CASE device' = [device EXCEPT ![t] = Registration(c)]
      <4>1. /\ device' \in [Devices -> DeviceRows] /\ device'[t] = Registration(c)
            /\ \A d \in Devices : d # t => device'[d] = device[d]
        BY <3>2, <3>4, <1>5, <1>7
      <4> QED
        BY <3>1, <3>2, <4>1, <1>7
    <3> QED
      BY <3>1, <3>3, <3>4
  <2>3. CASE LoadDevice(c)
    <3>1. device' = device /\ registered' = [registered EXCEPT ![c] = device[t]] /\ answer' = answer
      BY <2>3 DEF LoadDevice, Go
    <3> QED
      BY <3>1, <1>5, <1>7, <1>8
  <2>4. CASE WriteDevice(c)
    <3> DEFINE row == [user |-> Saved(u, registered[c].user, device[t].user),
                       active |-> Saved(TRUE, registered[c].active, device[t].active)]
    <3>1. /\ registered' = registered /\ pc[c] = "write device" /\ pc'[c] = "ended"
          /\ device' = [device EXCEPT ![t] = row]
      BY <2>4, <1>1 DEF WriteDevice, Return, Move, Shape
    <3>2. registered[c] \in DeviceRows /\ device[t] \in DeviceRows
      BY <1>5, <1>7
    <3>3. /\ Saved(u, registered[c].user, device[t].user) \in STRING
          /\ registered[c].user = device[t].user => Saved(u, registered[c].user, device[t].user) = u
      BY <3>2, <1>5 DEF Saved, DeviceRows
    <3>4. Saved(TRUE, registered[c].active, device[t].active) \in BOOLEAN
      BY <3>2 DEF Saved, DeviceRows
    <3>5. row \in DeviceRows
      BY <3>3, <3>4, <1>9
    <3>6. row.user = Saved(u, registered[c].user, device[t].user)
      OBVIOUS
    <3> HIDE DEF row
    <3>7. /\ device' \in [Devices -> DeviceRows] /\ device'[t] = row
          /\ \A d \in Devices : d # t => device'[d] = device[d]
      BY <3>1, <3>5, <1>5, <1>7
    <3> QED
      BY <3>1, <3>3, <3>6, <3>7, <1>7
  <2> QED
    BY <2>1, <2>2, <2>3, <2>4
<1>11. pc'[c] \notin {"load setting", "write setting"} /\ Op(c) # "set setting"
  BY <1>4, <1>6 DEF NoticeSteps
<1>12. /\ setting' = setting /\ setting' \in [Users -> Preferences \cup {NoSetting}]
       /\ entity' = entity /\ entity' = [d \in Calls |-> entity'[d]]
       /\ loaded' = loaded /\ loaded' = [d \in Calls |-> loaded'[d]]
  BY <1>1, <1>3 DEF SettingsOK
<1>13. push' = push /\ pushed' = pushed /\ push' \in [Calls -> [at : PushStages, to : SUBSET Devices]]
  BY <1>1, <1>3 DEF Pushes, pushes
<1> QED
  BY <1>2, <1>4, <1>6, <1>10, <1>11, <1>12, <1>13 DEF Noted

LEMMA PushesArePushing ==
  ASSUME NInv, NEW c \in Calls, ReadPreference(c) \/ ReadTokens(c) \/ Send(c) \/ Deactivate(c) \/ LosePush(c)
  PROVE  Pushing(c)
<1>1. /\ push \in [Calls -> [at : PushStages, to : SUBSET Devices]] /\ pushed \in [Calls -> SUBSET Devices]
      /\ device \in [Devices -> DeviceRows]
  BY DEF NInv, Pushes, DevicesOK
<1>2. push[c].to \subseteq Devices
  BY <1>1
<1>3. UNCHANGED <<request, pc, answer, before, setting, entity, loaded, registered>>
  BY DEF ReadPreference, ReadTokens, Send, Deactivate, LosePush, Push, requests, settings, devices
<1>4. /\ push[c].at # "none"
      /\ \E x \in [at : PushStages, to : SUBSET Devices] :
           /\ push' = [push EXCEPT ![c] = x]
           /\ x.at \in {"tokens", "send"} => push[c].at = "tokens" \/ setting[Owner][Op(c)] # 0
           /\ x.at = "send" => \A t \in x.to : device[t].user = Owner
  <2>1. CASE ReadPreference(c)
    <3> DEFINE x == [at |-> IF setting[Owner][Op(c)] = 0 THEN "done" ELSE "tokens", to |-> {}]
    <3>1. x \in [at : PushStages, to : SUBSET Devices]
      BY DEF PushStages
    <3>2. push[c].at = "settings" /\ push' = [push EXCEPT ![c] = x]
      BY <2>1 DEF ReadPreference, Push
    <3> QED
      BY <3>1, <3>2
  <2>2. CASE ReadTokens(c)
    <3> DEFINE D == {d \in Devices : device[d] = [user |-> Owner, active |-> TRUE]}
               x == [at |-> IF D = {} THEN "done" ELSE "send", to |-> D]
    <3>1. x \in [at : PushStages, to : SUBSET Devices]
      BY DEF PushStages
    <3>2. push[c].at = "tokens" /\ push' = [push EXCEPT ![c] = x]
      BY <2>2 DEF ReadTokens, Push
    <3>3. \A t \in D : device[t].user = Owner
      OBVIOUS
    <3> QED
      BY <3>1, <3>2, <3>3
  <2>3. CASE Send(c)
    <3>1. PICK unknown \in SUBSET push[c].to :
            Push(c, "send", [at |-> IF unknown = {} THEN "done" ELSE "deactivate", to |-> unknown])
      BY <2>3 DEF Send
    <3> DEFINE x == [at |-> IF unknown = {} THEN "done" ELSE "deactivate", to |-> unknown]
    <3>2. x \in [at : PushStages, to : SUBSET Devices]
      BY <1>2 DEF PushStages
    <3>3. push[c].at = "send" /\ push' = [push EXCEPT ![c] = x]
      BY <3>1 DEF Push
    <3> QED
      BY <3>2, <3>3
  <2>4. CASE Deactivate(c) \/ LosePush(c)
    <3> DEFINE x == [at |-> "done", to |-> {}]
    <3>1. x \in [at : PushStages, to : SUBSET Devices]
      BY DEF PushStages
    <3>2. push[c].at # "none" /\ push' = [push EXCEPT ![c] = x]
      BY <2>4 DEF Deactivate, LosePush, Push
    <3> QED
      BY <3>1, <3>2
  <2> QED
    BY <2>1, <2>2, <2>3, <2>4
<1>5. /\ device' \in [Devices -> DeviceRows]
      /\ \A t \in Devices : device'[t].user = device[t].user
  <2>1. CASE Deactivate(c)
    <3>1. device' = [d \in Devices |-> IF d \in push[c].to THEN [device[d] EXCEPT !.active = FALSE] ELSE device[d]]
      BY <2>1 DEF Deactivate
    <3>2. \A d \in Devices : /\ [device[d] EXCEPT !.active = FALSE] \in DeviceRows
                             /\ [device[d] EXCEPT !.active = FALSE].user = device[d].user
      BY <1>1 DEF DeviceRows
    <3> QED
      BY <3>1, <3>2, <1>1
  <2>2. CASE ~ Deactivate(c)
    BY <2>2, <1>1 DEF ReadPreference, ReadTokens, Send, LosePush, devices
  <2> QED
    BY <2>1, <2>2
<1>6. pushed' = pushed \/ (push[c].at = "send" /\ pushed' = [pushed EXCEPT ![c] = push[c].to])
  BY DEF ReadPreference, ReadTokens, Send, Deactivate, LosePush, Push
<1>7. /\ pushed' \in [Calls -> SUBSET Devices]
      /\ \A d \in Calls \ {c} : pushed'[d] = pushed[d]
      /\ pushed'[c] = pushed[c] \/ (push[c].at = "send" /\ pushed'[c] = push[c].to)
  BY <1>1, <1>2, <1>6
<1>8. /\ push' \in [Calls -> [at : PushStages, to : SUBSET Devices]]
      /\ \A d \in Calls \ {c} : push'[d] = push[d]
      /\ push'[c].at \in {"tokens", "send"} => push[c].at = "tokens" \/ setting[Owner][Op(c)] # 0
      /\ push'[c].at = "send" => \A t \in push'[c].to : device[t].user = Owner
  BY <1>1, <1>4
<1> QED
  BY <1>3, <1>4, <1>5, <1>7, <1>8 DEF Pushing

LEMMA NoticesAreNoted ==
  ASSUME NInv, NEW c \in Calls, NoticesStep(c), UNCHANGED <<relations, accounts>>
  PROVE  Noted(c) \/ Pushing(c)
<1>1. Shape /\ NoticeSteps(c) /\ Pushes
  BY DEF NInv
<1>2. CASE FindSetting(c) \/ CreateSetting(c) \/ LoadSetting(c) \/ WriteSetting(c)
  BY <1>2, SettingsAreNoted
<1>3. CASE FindDevice(c) \/ InsertDevice(c) \/ LoadDevice(c) \/ WriteDevice(c)
  BY <1>3, DevicesAreNoted
<1>4. CASE ReadPreference(c) \/ ReadTokens(c) \/ Send(c) \/ Deactivate(c) \/ LosePush(c)
  BY <1>4, PushesArePushing
<1> DEFINE Others == \/ FindLike(c) \/ RemoveLike(c) \/ SaveLike(c) \/ NotifySeller(c) \/ InsertNotice(c)
                     \/ Count(c) \/ FindNotice(c) \/ MarkRead(c)
<1>5. CASE Others
  <2> SUFFICES Unnoted(c)
    BY UnnotedIsNoted
  <2>1. UNCHANGED <<setting, entity, loaded, devices, pushed>>
    BY <1>5 DEF FindLike, RemoveLike, SaveLike, NotifySeller, InsertNotice, Count, FindNotice, MarkRead,
                notifications, settings, pushes
  <2>2. /\ push' \in [Calls -> [at : PushStages, to : SUBSET Devices]]
        /\ \A d \in Calls \ {c} : push'[d] = push[d]
        /\ push'[c] = push[c] \/ (push'[c].at = "settings" /\ Op(c) \in Kinds)
    <3>1. CASE push' = push
      BY <3>1, <1>1 DEF Pushes
    <3>2. CASE push' # push
      <4>1. push' = [push EXCEPT ![c].at = "settings"] /\ pc[c] = "insert notice"
        BY <1>5, <3>2 DEF FindLike, RemoveLike, SaveLike, NotifySeller, InsertNotice, Count, FindNotice, MarkRead,
                          notifications, pushes, Go, Move
      <4>2. Op(c) \in Kinds
        BY <4>1, <1>1 DEF NoticeSteps
      <4> QED
        BY <4>1, <4>2, <1>1 DEF Pushes, PushStages
    <3> QED
      BY <3>1, <3>2
  <2> USE <1>1, <2>1, <2>2 DEF Unnoted, Stepped, Go, Return, Move, Shape, NoticeSteps, Kinds
  <2>3. CASE FindLike(c)  BY <2>3 DEF FindLike
  <2>4. CASE RemoveLike(c)  BY <2>4 DEF RemoveLike
  <2>5. CASE SaveLike(c)  BY <2>5 DEF SaveLike
  <2>6. CASE NotifySeller(c)  BY <2>6 DEF NotifySeller
  <2>7. CASE InsertNotice(c)  BY <2>7 DEF InsertNotice
  <2>8. CASE Count(c)  BY <2>8 DEF Count
  <2>9. CASE FindNotice(c)  BY <2>9 DEF FindNotice
  <2>10. CASE MarkRead(c)  BY <2>10 DEF MarkRead
  <2> QED
    BY <1>5, <2>3, <2>4, <2>5, <2>6, <2>7, <2>8, <2>9, <2>10
<1> QED
  BY <1>2, <1>3, <1>4, <1>5 DEF NoticesStep

LEMMA InitNInv == Init => NInv
<1> SUFFICES ASSUME NEW w \in Workloads, request = w.requests, RequestsInit, NoticesInit(Users, w.devices)
             PROVE  NInv
  BY DEF Init
<1>1. Shape /\ Clock /\ \A c \in Calls : pc[c] = "idle" /\ answer[c] = "none"
  BY DEF RequestsInit, Shape, Clock, Ended
<1>2. \A c \in Calls : NoticeSteps(c)
  BY <1>1 DEF NoticeSteps
<1>3. KnownNotices
  BY WorkloadsAssumption DEF KnownNotices, Op, User, Token
<1>4. w.devices \in [Devices -> DeviceRows] /\ NoDevice \in DeviceRows
  BY WorkloadsAssumption, AccountsAssumption DEF NoDevice, DeviceRows
<1>5. DevicesOK
  BY <1>4 DEF NoticesInit, DevicesOK
<1>6. SettingsOK
  BY <1>1 DEF NoticesInit, SettingsOK
<1>7. Settings /\ Registered
  BY <1>1 DEF Settings, Registered
<1>8. Pushes
  <2>1. NoPush \in [at : PushStages, to : SUBSET Devices] /\ NoPush.at = "none"
    BY DEF NoPush, PushStages
  <2> QED
    BY <2>1 DEF NoticesInit, Pushes
<1> QED
  BY <1>1, <1>2, <1>3, <1>5, <1>6, <1>7, <1>8 DEF NInv

LEMMA NextKeepsNInv == NInv /\ [Next]_vars => NInv'
<1> SUFFICES ASSUME NInv, [Next]_vars PROVE NInv'
  OBVIOUS
<1>1. ASSUME NEW c \in Calls, RelationsStep(c), UNCHANGED <<accounts, notifications>> PROVE NInv'
  BY <1>1, RelationsAreUnnoted, UnnotedIsNoted, NotedKeeps
<1>2. ASSUME NEW c \in Calls, AccountsStep(c), UNCHANGED <<relations, notifications>> PROVE NInv'
  BY <1>2, AccountsAreUnnoted, UnnotedIsNoted, NotedKeeps
<1>3. ASSUME NEW c \in Calls, NoticesStep(c), UNCHANGED <<relations, accounts>> PROVE NInv'
  BY <1>3, NoticesAreNoted, NotedKeeps, PushingKeeps
<1>4. ASSUME NEW c \in Calls, Lose(c), UNCHANGED notifications PROVE NInv'
  <2>1. Unnoted(c)
    BY <1>4 DEF NInv, Pushes, Shape, Lose, Unnoted, Stepped, Timed, Ended, notifications, settings, pushes
  <2> QED
    BY <2>1, UnnotedIsNoted, NotedKeeps
<1>5. ASSUME UNCHANGED <<requests, notifications>> PROVE NInv'
  BY <1>5, NoticesStay DEF requests, notifications, settings
<1> QED
  BY <1>1, <1>2, <1>3, <1>4, <1>5 DEF Next, vars

\* A notification is pushed only to devices that are the owner's, and only if the
\* owner wants its kind, as the last requests before it, if they overlapped no
\* other one, have left them (fcm.service.ts, push-settings.service.ts,
\* dev-tokens.service.ts).
THEOREM OnlyWantedArePushed == Spec => []PushesAreWanted
<1>1. ASSUME NInv PROVE PushesAreWanted
  <2> SUFFICES ASSUME NEW c \in Calls, NEW d \in pushed[c]
               PROVE  /\ \A s \in SettingRequests :
                           request[s].kind = Op(c) /\ Settled(s, SettingRequests, c) => request[s].value = 1
                      /\ \A s \in DeviceRequests(d) : Settled(s, DeviceRequests(d), c) => User(s) = Owner
    BY DEF PushesAreWanted
  <2>1. Wanted(c) /\ OwnersFor(c, d)
    BY <1>1 DEF NInv, Pushes
  <2>2. ASSUME NEW s \in SettingRequests, request[s].kind = Op(c), Settled(s, SettingRequests, c)
        PROVE  request[s].value = 1
    <3>1. s \in before[c] /\ answer[s] = "OK" /\ SetsLast(s)
      BY <2>2 DEF Settled, SettingRequests, SetsLast
    <3> QED
      BY <2>1, <2>2, <3>1 DEF Wanted
  <2>3. ASSUME NEW s \in DeviceRequests(d), Settled(s, DeviceRequests(d), c)
        PROVE  User(s) = Owner
    <3>1. s \in before[c] /\ answer[s] = "OK" /\ RegistersLast(s) /\ Token(s) = d
      BY <2>3 DEF Settled, DeviceRequests, RegistersLast
    <3> QED
      BY <2>1, <3>1 DEF OwnersFor
  <2> QED
    BY <2>2, <2>3
<1> QED
  BY <1>1, InitNInv, NextKeepsNInv, PTL DEF Spec

-----------------------------------------------------------------------------
(***************************************************************************)
(* Types.  The earlier invariants know the rows of users, keys, devices    *)
(* and preferences; this one adds who has inserted, found or made what.    *)
(***************************************************************************)
KnownPairs ==
  \A c \in Calls :
    /\ Op(c) \in {"block", "unblock", "follow", "unfollow"} => Pair(c) \in [from : Users, to : Users]
    /\ pc[c] \in {"save block", "save follow"} => Op(c) \in {"block", "follow"}
    /\ Op(c) \in Kinds => User(c) \in Users

RequestTypes ==
  /\ pc \in [Calls -> Statements \cup {"idle", "ended"}]
  /\ answer \in [Calls -> Answers]
  /\ failures \in 0..MaxFailures

FoundOK == RelationsTypeOK /\ found = [c \in Calls |-> found[c]]
KeysKnown == cooldown \in [Phones -> Calls \cup {NoKey}] /\ grant \in [Calls -> Calls \cup {NoKey}]

InsertedBy ==
  /\ likes \subseteq [by : Calls, user : Users]
  /\ notices \subseteq [by : Calls, kind : Kinds, is_read : BOOLEAN]

TInv == RequestTypes /\ KnownPairs /\ FoundOK /\ KeysKnown /\ InsertedBy

LEMMA InitTInv == Init => TInv
<1> SUFFICES ASSUME NEW w \in Workloads, request = w.requests, RequestsInit,
                    RelationsInit(w.blocks, w.follows), AccountsInit(w.users), NoticesInit(Users, w.devices)
             PROVE  TInv
  BY DEF Init
<1>1. RequestTypes
  <2>1. failures = 0 /\ 0 \in 0..MaxFailures
    BY RequestsAssumption DEF RequestsInit
  <2> QED
    BY <2>1 DEF RequestTypes, RequestsInit, Answers
<1>2. KnownPairs
  BY WorkloadsAssumption DEF KnownPairs, RequestsInit, Op, Pair, User
<1>3. FoundOK
  <2>1. w.blocks \subseteq Users \X Users /\ w.follows \subseteq Users \X Users
    BY WorkloadsAssumption
  <2> QED
    BY <2>1 DEF FoundOK, RelationsTypeOK, RelationsInit, Row
<1>4. KeysKnown
  BY DEF KeysKnown, AccountsInit, NoKey
<1>5. InsertedBy
  BY DEF InsertedBy, NoticesInit
<1> QED
  BY <1>1, <1>2, <1>3, <1>4, <1>5 DEF TInv

\* A statement of c that is not followed by the insertion of a block or a follow,
\* as far as requests are concerned.
Steady(c) ==
  /\ request' = request
  /\ pc' \in [Calls -> Statements \cup {"idle", "ended"}] /\ answer' \in [Calls -> Answers]
  /\ \A d \in Calls \ {c} : pc'[d] = pc[d]
  /\ pc'[c] \notin {"save block", "save follow"}
  /\ failures' \in 0..MaxFailures

LEMMA TypesStay ==
  ASSUME TInv, NEW c \in Calls, Steady(c)
  PROVE  /\ RequestTypes' /\ KnownPairs'
         /\ UNCHANGED relations => FoundOK'
         /\ UNCHANGED accounts => KeysKnown'
         /\ UNCHANGED <<likes, notices>> => InsertedBy'
<1>1. RequestTypes' /\ KnownPairs'
  BY DEF Steady, TInv, RequestTypes, KnownPairs, Op, Pair, User
<1>2. UNCHANGED relations => FoundOK'
  BY DEF TInv, FoundOK, RelationsTypeOK, relations
<1>3. UNCHANGED accounts => KeysKnown'
  BY DEF TInv, KeysKnown, accounts, keys
<1>4. UNCHANGED <<likes, notices>> => InsertedBy'
  BY DEF TInv, InsertedBy
<1> QED
  BY <1>1, <1>2, <1>3, <1>4

LEMMA AccountsKeepTypes ==
  ASSUME TInv, AInv, NEW c \in Calls, AccountsStep(c), UNCHANGED <<relations, notifications>>
  PROVE  TInv'
<1>1. Steady(c)
  <2>1. RequestTypes
    BY DEF TInv
  <2> USE <2>1 DEF Steady, RequestTypes, Statements, Go, Return, Move, Answers
  <2>2. CASE FindPhone(c)  BY <2>2 DEF FindPhone
  <2>3. CASE SaveUser(c)  BY <2>3 DEF SaveUser
  <2>4. CASE FindForLogin(c)  BY <2>4 DEF FindForLogin
  <2>5. CASE Rehash(c)  BY <2>5 DEF Rehash
  <2>6. CASE FindForChange(c)  BY <2>6 DEF FindForChange
  <2>7. CASE ChangePassword(c)  BY <2>7 DEF ChangePassword
  <2>8. CASE FindForCode(c)  BY <2>8 DEF FindForCode
  <2>9. CASE GetCooldown(c)  BY <2>9 DEF GetCooldown
  <2>10. CASE SetCode(c)  BY <2>10 DEF SetCode
  <2>11. CASE SetCooldown(c)  BY <2>11 DEF SetCooldown
  <2>12. CASE GetCode(c)  BY <2>12 DEF GetCode
  <2>13. CASE DeleteCode(c)  BY <2>13 DEF DeleteCode
  <2>14. CASE SetVerified(c)  BY <2>14 DEF SetVerified
  <2>15. CASE FindForReset(c)  BY <2>15 DEF FindForReset
  <2>16. CASE GetVerified(c)  BY <2>16 DEF GetVerified
  <2>17. CASE ResetPassword(c)  BY <2>17 DEF ResetPassword
  <2>18. CASE DeleteVerified(c)  BY <2>18 DEF DeleteVerified
  <2>19. CASE FindForInfo(c)  BY <2>19 DEF FindForInfo
  <2>20. CASE UpdateInfo(c)  BY <2>20 DEF UpdateInfo
  <2>21. CASE SetUserInfo(c)  BY <2>21 DEF SetUserInfo
  <2> QED
    BY <2>2, <2>3, <2>4, <2>5, <2>6, <2>7, <2>8, <2>9, <2>10, <2>11, <2>12, <2>13, <2>14,
       <2>15, <2>16, <2>17, <2>18, <2>19, <2>20, <2>21 DEF AccountsStep
<1>2. KeysKnown'
  <2>1. CASE SetCooldown(c)
    BY <2>1 DEF SetCooldown, TInv, KeysKnown
  <2>2. CASE GetVerified(c)
    <3>1. Phone(c) \in Phones
      BY <2>2 DEF GetVerified, AInv, Steps, StepsOf, Resetting, KnownRequests
    <3>2. verified[Phone(c)] \in Calls \cup {NoKey}
      BY <3>1 DEF AInv, Keys, VerifiedBy
    <3> QED
      BY <2>2, <3>2 DEF GetVerified, TInv, KeysKnown, keys
  <2>3. CASE UNCHANGED <<cooldown, grant>>
    BY <2>3 DEF TInv, KeysKnown
  <2>4. SetCooldown(c) \/ GetVerified(c) \/ UNCHANGED <<cooldown, grant>>
    BY DEF AccountsStep, FindPhone, SaveUser, FindForLogin, Rehash, FindForChange, ChangePassword, FindForCode, GetCooldown, SetCode,
           GetCode, DeleteCode, SetVerified, FindForReset, ResetPassword, DeleteVerified, FindForInfo, UpdateInfo, SetUserInfo, keys
  <2> QED
    BY <2>1, <2>2, <2>3, <2>4
<1> QED
  BY <1>1, <1>2, TypesStay DEF TInv, notifications

LEMMA RelationsKeepTypes ==
  ASSUME TInv, NEW c \in Calls, RelationsStep(c), UNCHANGED <<accounts, notifications>>
  PROVE  TInv'
<1>1. RequestTypes' /\ KnownPairs'
  <2>1. /\ request' = request
        /\ pc' \in [Calls -> Statements \cup {"idle", "ended"}] /\ answer' \in [Calls -> Answers] /\ failures' \in 0..MaxFailures
        /\ \A d \in Calls \ {c} : pc'[d] = pc[d]
        /\ pc'[c] \in {"save block", "save follow"} => Op(c) \in {"block", "follow"}
    <3>1. RequestTypes
      BY DEF TInv
    <3> USE <3>1 DEF RequestTypes, Statements, Go, Return, Move, Answers
    <3>2. CASE FindBlock(c)  BY <3>2 DEF FindBlock
    <3>3. CASE SaveBlock(c)  BY <3>3 DEF SaveBlock
    <3>4. CASE DeleteFollow(c)  BY <3>4 DEF DeleteFollow
    <3>5. CASE DeleteFollowBack(c)  BY <3>5 DEF DeleteFollowBack
    <3>6. CASE DeleteBlock(c)  BY <3>6 DEF DeleteBlock
    <3>7. CASE FindBlocked(c)  BY <3>7 DEF FindBlocked
    <3>8. CASE FindFollow(c)  BY <3>8 DEF FindFollow
    <3>9. CASE SaveFollow(c)  BY <3>9 DEF SaveFollow
    <3>10. CASE DeleteOwnFollow(c)  BY <3>10 DEF DeleteOwnFollow
    <3>11. CASE CountFollows(c)  BY <3>11 DEF CountFollows
    <3> QED
      BY <3>2, <3>3, <3>4, <3>5, <3>6, <3>7, <3>8, <3>9, <3>10, <3>11 DEF RelationsStep
  <2> QED
    BY <2>1 DEF RequestTypes, TInv, KnownPairs, Op, Pair, User
<1>2. FoundOK'
  <2>1. FoundOK /\ Mine(c, blocks) \subseteq Row /\ Mine(c, follows) \subseteq Row
    BY DEF TInv, FoundOK, RelationsTypeOK, Mine, Of
  <2>2. pc[c] \in {"save block", "save follow"} => NewRow(c) \in Row
    BY DEF TInv, KnownPairs, NewRow, Row, Pair
  <2> USE <2>1, <2>2 DEF FoundOK, RelationsTypeOK
  <2>3. CASE FindBlock(c)  BY <2>3 DEF FindBlock
  <2>4. CASE SaveBlock(c)  BY <2>4 DEF SaveBlock
  <2>5. CASE DeleteFollow(c)  BY <2>5 DEF DeleteFollow
  <2>6. CASE DeleteFollowBack(c)  BY <2>6 DEF DeleteFollowBack
  <2>7. CASE DeleteBlock(c)  BY <2>7 DEF DeleteBlock
  <2>8. CASE FindBlocked(c)  BY <2>8 DEF FindBlocked, relations
  <2>9. CASE FindFollow(c)  BY <2>9 DEF FindFollow
  <2>10. CASE SaveFollow(c)  BY <2>10 DEF SaveFollow
  <2>11. CASE DeleteOwnFollow(c)  BY <2>11 DEF DeleteOwnFollow
  <2>12. CASE CountFollows(c)  BY <2>12 DEF CountFollows, relations
  <2> QED
    BY <2>3, <2>4, <2>5, <2>6, <2>7, <2>8, <2>9, <2>10, <2>11, <2>12 DEF RelationsStep
<1> QED
  BY <1>1, <1>2 DEF TInv, KeysKnown, InsertedBy, accounts, keys, notifications

LEMMA NoticesKeepTypes ==
  ASSUME TInv, NInv, NEW c \in Calls, NoticesStep(c), UNCHANGED <<relations, accounts>>
  PROVE  TInv'
<1>1. \/ Steady(c)
      \/ UNCHANGED <<request, pc, answer>> /\ failures' \in 0..MaxFailures
  <2>1. RequestTypes
    BY DEF TInv
  <2>2. CASE LosePush(c)
    BY <2>1, <2>2, RequestsAssumption DEF LosePush, RequestTypes
  <2>3. CASE ReadPreference(c) \/ ReadTokens(c) \/ Send(c) \/ Deactivate(c)
    BY <2>1, <2>3 DEF ReadPreference, ReadTokens, Send, Deactivate, Push, requests, RequestTypes
  <2> USE <2>1 DEF Steady, RequestTypes, Statements, Go, Return, Move, Answers
  <2>4. CASE FindLike(c)  BY <2>4 DEF FindLike
  <2>5. CASE RemoveLike(c)  BY <2>5 DEF RemoveLike
  <2>6. CASE SaveLike(c)  BY <2>6 DEF SaveLike
  <2>7. CASE NotifySeller(c)  BY <2>7 DEF NotifySeller
  <2>8. CASE InsertNotice(c)  BY <2>8 DEF InsertNotice
  <2>9. CASE Count(c)  BY <2>9 DEF Count
  <2>10. CASE FindNotice(c)  BY <2>10 DEF FindNotice
  <2>11. CASE MarkRead(c)  BY <2>11 DEF MarkRead
  <2>12. CASE FindSetting(c)
    <3>1. \/ Go(c, "idle", "create setting") \/ Go(c, "idle", "load setting")
          \/ Return(c, "idle", "OK")
      BY <2>12 DEF FindSetting
    <3> QED
      BY <3>1
  <2>13. CASE CreateSetting(c)
    <3>1. \/ Go(c, "create setting", "load setting")
          \/ \E result \in {"OK", "EXCEPTION_ERROR"} : Return(c, "create setting", result)
      BY <2>13 DEF CreateSetting
    <3> QED
      BY <3>1
  <2>14. CASE LoadSetting(c)  BY <2>14 DEF LoadSetting
  <2>15. CASE WriteSetting(c)  BY <2>15 DEF WriteSetting
  <2>16. CASE FindDevice(c)  BY <2>16 DEF FindDevice
  <2>17. CASE InsertDevice(c)  BY <2>17 DEF InsertDevice
  <2>18. CASE LoadDevice(c)  BY <2>18 DEF LoadDevice
  <2>19. CASE WriteDevice(c)  BY <2>19 DEF WriteDevice
  <2> QED
    BY <2>2, <2>3, <2>4, <2>5, <2>6, <2>7, <2>8, <2>9, <2>10, <2>11, <2>12, <2>13, <2>14,
       <2>15, <2>16, <2>17, <2>18, <2>19 DEF NoticesStep
<1>2. RequestTypes' /\ KnownPairs'
  <2>1. CASE Steady(c)
    BY <2>1, TypesStay
  <2>2. CASE UNCHANGED <<request, pc, answer>> /\ failures' \in 0..MaxFailures
    BY <2>2 DEF TInv, RequestTypes, KnownPairs, Op, Pair, User
  <2> QED
    BY <1>1, <2>1, <2>2
<1>3. InsertedBy'
  <2>1. InsertedBy
    BY DEF TInv
  <2>2. CASE RemoveLike(c)
    BY <2>1, <2>2 DEF RemoveLike, InsertedBy
  <2>3. CASE SaveLike(c)
    <3>1. pc[c] = "save like"
      BY <2>3 DEF SaveLike, Go, Move
    <3>2. NoticeSteps(c) /\ KnownPairs
      BY DEF NInv, TInv
    <3>3. User(c) \in Users
      BY <3>1, <3>2 DEF NoticeSteps, KnownPairs
    <3>4. [by |-> c, user |-> User(c)] \in [by : Calls, user : Users]
      BY <3>3
    <3>5. likes' = likes \cup {[by |-> c, user |-> User(c)]} /\ notices' = notices
      BY <2>3 DEF SaveLike
    <3> QED
      BY <2>1, <3>4, <3>5, Zenon DEF InsertedBy
  <2>4. CASE InsertNotice(c)
    <3>1. pc[c] = "insert notice"
      BY <2>4 DEF InsertNotice, Go, Move
    <3>2. NoticeSteps(c)
      BY DEF NInv
    <3>3. Op(c) \in Kinds
      BY <3>1, <3>2 DEF NoticeSteps
    <3>4. [by |-> c, kind |-> Op(c), is_read |-> FALSE] \in [by : Calls, kind : Kinds, is_read : BOOLEAN]
      BY <3>3
    <3>5. /\ likes' = likes
          /\ notices' \in {notices \cup {[by |-> c, kind |-> Op(c), is_read |-> FALSE]}, notices}
      BY <2>4 DEF InsertNotice
    <3> QED
      BY <2>1, <3>4, <3>5, Zenon DEF InsertedBy
  <2>5. CASE MarkRead(c)
    <3>1. \A n \in notices : [n EXCEPT !.is_read = TRUE] \in [by : Calls, kind : Kinds, is_read : BOOLEAN]
      BY <2>1 DEF InsertedBy
    <3> QED
      BY <2>1, <2>5, <3>1 DEF MarkRead, InsertedBy
  <2>6. CASE UNCHANGED <<likes, notices>>
    BY <2>1, <2>6 DEF InsertedBy
  <2>7. RemoveLike(c) \/ SaveLike(c) \/ InsertNotice(c) \/ MarkRead(c) \/ UNCHANGED <<likes, notices>>
    BY DEF NoticesStep, notifications, FindLike, NotifySeller, Count, FindNotice, FindSetting, CreateSetting, LoadSetting, WriteSetting, FindDevice,
           InsertDevice, LoadDevice, WriteDevice,
           ReadPreference, ReadTokens, Send, Deactivate, LosePush, Push
  <2> QED
    BY <2>2, <2>3, <2>4, <2>5, <2>6, <2>7
<1> QED
  BY <1>2, <1>3 DEF TInv, FoundOK, RelationsTypeOK, KeysKnown, relations, accounts, keys

LEMMA NextKeepsTInv == TInv /\ AInv /\ NInv /\ [Next]_vars => TInv'
<1> SUFFICES ASSUME TInv, AInv, NInv, [Next]_vars PROVE TInv'
  OBVIOUS
<1>1. ASSUME NEW c \in Calls, RelationsStep(c), UNCHANGED <<accounts, notifications>> PROVE TInv'
  BY <1>1, RelationsKeepTypes
<1>2. ASSUME NEW c \in Calls, AccountsStep(c), UNCHANGED <<relations, notifications>> PROVE TInv'
  BY <1>2, AccountsKeepTypes
<1>3. ASSUME NEW c \in Calls, NoticesStep(c), UNCHANGED <<relations, accounts>> PROVE TInv'
  BY <1>3, NoticesKeepTypes
<1>4. ASSUME NEW c \in Calls, Lose(c), UNCHANGED <<relations, accounts, notifications>> PROVE TInv'
  <2>1. failures' \in 0..MaxFailures
    BY <1>4, RequestsAssumption DEF Lose, TInv, RequestTypes
  <2>2. Steady(c)
    BY <1>4, <2>1 DEF Lose, TInv, RequestTypes, Statements, Steady, Answers
  <2> QED
    BY <1>4, <2>2, TypesStay DEF TInv, notifications
<1>5. CASE Expire /\ UNCHANGED <<requests, relations, notifications>>
  <2>1. KeysKnown'
    BY <1>5 DEF Expire, TInv, KeysKnown
  <2> QED
    BY <1>5, <2>1
       DEF TInv, RequestTypes, KnownPairs, Op, Pair, User, FoundOK, RelationsTypeOK, InsertedBy,
           requests, relations, notifications
<1>6. CASE UNCHANGED vars
  BY <1>6 DEF TInv, RequestTypes, KnownPairs, Op, Pair, User, FoundOK, RelationsTypeOK, KeysKnown, InsertedBy,
              vars, requests, relations, accounts, keys, notifications
<1> QED
  BY <1>1, <1>2, <1>3, <1>4, <1>5, <1>6 DEF Next

LEMMA PreferenceTypes == Preferences \cup {NoSetting} \subseteq [Kinds -> 0..2]
BY DEF Preferences, NoSetting

\* Rows, keys and requests keep their types: every row of blocks, follows, likes
\* and notifications was inserted by a request, or was there before, users and
\* devices are whole rows after each partial save, and only devices are pushed to
\* (blocks, follow, auth, users, redis, push-settings, dev-tokens, fcm).
THEOREM MembersTyping == Spec => []TypeOK
<1>1. IInv /\ AInv /\ UInv /\ NInv /\ TInv => TypeOK
  <2> SUFFICES ASSUME IInv, AInv, UInv, NInv, TInv PROVE TypeOK
    OBVIOUS
  <2>1. /\ pc \in [Calls -> Statements \cup {"idle", "ended"}] /\ answer \in [Calls -> Answers] /\ failures \in 0..MaxFailures
        /\ before \in [Calls -> SUBSET Calls] /\ RelationsTypeOK
    BY DEF IInv, Shape, TInv, RequestTypes, FoundOK
  <2>2. user \in [Phones -> UserRows] /\ device \in [Devices -> DeviceRows] /\ pushed \in [Calls -> SUBSET Devices]
    BY DEF UInv, UsersOK, NInv, DevicesOK, Pushes
  <2>3. setting \in [Users -> [Kinds -> 0..2]]
    BY PreferenceTypes DEF NInv, SettingsOK
  <2>4. {code, cooldown, verified} \subseteq [Phones -> Calls \cup {NoKey}]
    <3>1. \A p \in Phones : code[p] \in Calls \cup {NoKey} /\ verified[p] \in Calls \cup {NoKey}
      BY DEF AInv, Keys, MadeBy, VerifiedBy
    <3> QED
      BY <3>1 DEF AInv, Keys, TInv, KeysKnown
  <2>5. /\ grant \in [Calls -> Calls \cup {"none"}]
        /\ likes \subseteq [by : Calls, user : Users]
        /\ notices \subseteq [by : Calls, kind : Kinds, is_read : BOOLEAN]
    BY DEF TInv, KeysKnown, NoKey, InsertedBy
  <2> QED
    BY <2>1, <2>2, <2>3, <2>4, <2>5 DEF TypeOK
<1> QED
  BY <1>1, InitIInv, NextKeeps, InitAInv, NextKeepsAInv, InitUInv, NextKeepsUInv, InitNInv, NextKeepsNInv,
     InitTInv, NextKeepsTInv, PTL DEF Spec
=============================================================================
