----------------------------- MODULE MediaProofs -----------------------------
(***************************************************************************)
(* Theorems about Media, for any users, files, keys, requests, cleaners    *)
(* and clock, and any number of errors.                                    *)
(*                                                                         *)
(* The invariant says who may change a row of media_assets: while a        *)
(* comment is written its call holds the row's lock, and a row that is     *)
(* being deleted is in the hands of one cleaner, unless it was lost.       *)
(***************************************************************************)
EXTENDS Media, FiniteSetTheorems, WellFoundedInduction, TLAPS

MediaRows ==
  {NoRow} \cup [status : {"attached"}, uploader : Users]
          \cup [status : {"temporary", "deleting"}, uploader : Users, expires : Nat]

Labels == Statements \cup Outcomes \cup CleanerStatements

IsComment(c) == input[c].kind = "comment"
Files(c) == Range(input[c].media)

LabelsOf(c) ==
  IF IsComment(c)
  THEN {"findComment", "lockMedia", "insertComment", "commit", "notify",
        "created", "returned", "conflict", "notAccess", "failed"}
  ELSE {"putObject", "insertAsset", "discard", "uploaded", "failed"}

RowsOK ==
  /\ media \in [Assets -> MediaRows]
  /\ stored \subseteq Assets
  /\ comment = [x \in DOMAIN comment |-> comment[x]]
  /\ \A x \in DOMAIN comment : x \in Calls /\ IsComment(x) /\ comment[x] = input[x]
  /\ told \subseteq DOMAIN comment

SessionsOK ==
  /\ now \in Nat /\ failures \in Nat
  /\ input \in Workloads
  /\ pc \in [Calls \cup Cleaners -> Labels]
  /\ \A c \in Calls : pc[c] \in LabelsOf(c)
  /\ \A w \in Cleaners : pc[w] \in CleanerStatements
  /\ todo \in [Cleaners -> SUBSET Assets]
  /\ current \in [Cleaners -> SUBSET Assets]

\* Only exclusive locks are taken, and one call holds each.
LocksOK ==
  /\ LocksTypeOK
  /\ \A r \in Rows : \A c \in Calls : ~ Holds(c, r, "S")
  /\ \A r \in Rows : \A c, d \in Calls : Holds(c, r, "X") /\ Holds(d, r, "X") => c = d

Shapes == RowsOK /\ SessionsOK /\ LocksOK

\* A call holds the rows of its files, from the lowest id up, and then its key.
LocksOf(c) ==
  \A r \in Rows : Holds(c, r, "X") =>
    \/ /\ IsComment(c) /\ pc[c] \in {"lockMedia", "insertComment", "commit"}
       /\ \E a \in Files(c) : r = AssetLock(a)
    \/ IsComment(c) /\ pc[c] = "commit" /\ r = KeyLock(c)

InOrder(c) ==
  pc[c] = "lockMedia" =>
    \A a \in Files(c), b \in Unlocked(c) : Holds(c, AssetLock(a), "X") => a < b

\* Its files stay as it found them.
Ready(c) ==
  pc[c] \in {"insertComment", "commit"} =>
    \A a \in Files(c) : /\ Holds(c, AssetLock(a), "X")
                        /\ media[a].status = "temporary" /\ media[a].uploader = input[c].user

KeyIsFree(c) == pc[c] = "commit" => Holds(c, KeyLock(c), "X") /\ SameKey(c) = {}

\* The row of an upload is nobody's before it is inserted.
Fresh(c) ==
  /\ pc[c] \in {"putObject", "insertAsset"} =>
       media[input[c].asset] = NoRow /\ \A w \in Cleaners : input[c].asset \notin current[w]
  /\ pc[c] = "insertAsset" /\ failures = 0 => input[c].asset \in stored
  /\ pc[c] = "discard" => failures # 0

Answered(c) ==
  /\ pc[c] \in {"notify", "created"} => c \in DOMAIN comment
  /\ c \in DOMAIN comment => pc[c] \in {"notify", "created", "failed"}
  /\ pc[c] = "returned" => \E x \in SameKey(c) : Payload(comment[x]) = Payload(input[c])
  /\ pc[c] = "conflict" => \E x \in SameKey(c) : Payload(comment[x]) # Payload(input[c])

CallOK(c) == LocksOf(c) /\ InOrder(c) /\ Ready(c) /\ KeyIsFree(c) /\ Fresh(c) /\ Answered(c)

CleanerOK(w) ==
  /\ \A a \in current[w] :
       media[a].status = "deleting" \/ (pc[w] = "giveBack" /\ media[a] = NoRow)
  /\ pc[w] = "giveBack" => failures # 0

CommentsOK ==
  /\ \A x, y \in DOMAIN comment :
       comment[x].user = comment[y].user /\ comment[x].key = comment[y].key => x = y
  /\ \A a \in Assets :
       /\ media[a].status = "attached" <=> InComment(a) # {}
       /\ \A x \in InComment(a) : comment[x].user = media[a].uploader
       /\ \A x, y \in InComment(a) : x = y

FilesOK ==
  /\ failures = 0 => \A a \in Assets : media[a].status \in {"temporary", "attached"} => a \in stored
  /\ \A w, v \in Cleaners : w # v => current[w] \cap current[v] = {}

MediaInv ==
  /\ Shapes /\ CommentsOK /\ FilesOK
  /\ \A c \in Calls : CallOK(c)
  /\ \A w \in Cleaners : CleanerOK(w)

-----------------------------------------------------------------------------
(* What requests and rows are.                                             *)

LEMMA RequestFacts ==
  ASSUME SessionsOK, NEW c \in Calls
  PROVE  /\ input[c].user \in Users
         /\ IsComment(c) => input[c].key \in Keys /\ Files(c) \subseteq Assets
         /\ ~ IsComment(c) => input[c].asset \in Assets
<1>1. input[c] \in Requests
  BY MediaAssumption DEF SessionsOK
<1>2. CASE input[c] \in [kind : {"comment"}, user : Users, key : Keys, text : Texts, media : Seq(Assets)]
  BY <1>2 DEF IsComment, Files, Range
<1>3. CASE input[c] \in [kind : {"upload"}, user : Users, asset : Assets]
  BY <1>3 DEF IsComment
<1>4. QED
  BY <1>1, <1>2, <1>3 DEF Requests

\* No comment lists the file of an upload, which is nobody else's.
LEMMA UploadFacts ==
  ASSUME SessionsOK, NEW c \in Calls, ~ IsComment(c), NEW d \in Calls
  PROVE  /\ IsComment(d) => input[c].asset \notin Files(d)
         /\ ~ IsComment(d) /\ d # c => input[d].asset # input[c].asset
<1>1. \A e \in Calls : input[e].kind = "comment" \/ input[e].kind = "upload"
  <2>1. \A e \in Calls : input[e] \in Requests
    BY MediaAssumption DEF SessionsOK
  <2>2. \A r \in Requests : r.kind = "comment" \/ r.kind = "upload"
    BY DEF Requests
  <2>3. QED
    BY <2>1, <2>2
<1>2. c \in Uploads(input) /\ (~ IsComment(d) => d \in Uploads(input))
  BY <1>1 DEF Uploads, IsComment
<1>3. IsComment(d) => Files(d) \subseteq Listed(input)
  BY DEF IsComment, Files, Listed
<1>4. QED
  BY <1>2, <1>3, MediaAssumption DEF SessionsOK

LEMMA LockRows ==
  /\ \A a \in Assets : AssetLock(a) \in Rows
  /\ \A a, b : AssetLock(a) = AssetLock(b) => a = b
  /\ \A c, a : AssetLock(a) # KeyLock(c)
<1>1. \A a \in Assets : AssetLock(a) \in Rows
  BY DEF AssetLock, Rows
<1>2. \A a, b : AssetLock(a) = AssetLock(b) => a = b
  BY DEF AssetLock
<1>3. \A c, a : AssetLock(a)[1] = "asset" /\ KeyLock(c)[1] = "key"
  BY DEF AssetLock, KeyLock
<1>4. QED
  BY <1>1, <1>2, <1>3

LEMMA KeyRows ==
  ASSUME SessionsOK, NEW c \in Calls, IsComment(c)
  PROVE  KeyLock(c) \in Rows
BY RequestFacts DEF KeyLock, Rows

LEMMA CleanersAreNoCalls ==
  ASSUME NEW c \in Calls, NEW w \in Cleaners
  PROVE  c # w
BY MediaAssumption

LEMMA RowFacts ==
  /\ NoRow.status = "none" /\ NoRow \in MediaRows
  /\ \A row \in MediaRows : /\ row.status \in {"none", "attached", "temporary", "deleting"}
                            /\ row.status = "none" => row = NoRow
                            /\ row # NoRow => row.uploader \in Users
  /\ \A u \in Users, t \in Nat :
       /\ Temporary(u, t) \in MediaRows /\ Temporary(u, t).status = "temporary"
       /\ Temporary(u, t).uploader = u
<1>1. NoRow.status = "none" /\ NoRow \in MediaRows
  BY DEF NoRow, MediaRows
<1>2. ASSUME NEW row \in MediaRows
      PROVE  /\ row.status \in {"none", "attached", "temporary", "deleting"}
             /\ row.status = "none" => row = NoRow
             /\ row # NoRow => row.uploader \in Users
  BY <1>1 DEF MediaRows
<1>3. \A u \in Users, t \in Nat :
       /\ Temporary(u, t) \in MediaRows /\ Temporary(u, t).status = "temporary"
       /\ Temporary(u, t).uploader = u
  BY DEF Temporary, MediaRows
<1>4. QED
  BY <1>1, <1>2, <1>3

\* What Min chooses: a set of numbers has a least member.
LEMMA LeastNumber ==
  ASSUME NEW S \in SUBSET Nat, S # {}
  PROVE  Min(S) \in S /\ \A y \in S : Min(S) <= y
<1>1. PICK x \in S : \A y \in S : <<y, x>> \notin OpToRel(<, Nat)
  BY NatLessThanWellFounded, WFMin
<1>2. ASSUME NEW y \in S
      PROVE  x <= y
  <2>1. x \in Nat /\ y \in Nat
    OBVIOUS
  <2>2. ~ (y < x)
    BY <1>1, <2>1 DEF OpToRel
  <2>3. QED
    BY <2>1, <2>2
<1>3. QED
  BY <1>2 DEF Min

-----------------------------------------------------------------------------
(* Locks.                                                                  *)

LEMMA AcquiredLock ==
  ASSUME LocksOK, NEW c \in Calls, NEW row \in Rows, Acquire(c, row, "X")
  PROVE  /\ LocksOK'
         /\ \A d \in Calls, r \in Rows : Holds(d, r, "X")' <=> Holds(d, r, "X") \/ (d = c /\ r = row)
         /\ \A d \in Calls \ {c} : ~ Holds(d, row, "X")
<1>1. locks'[row] = locks[row] \cup {<<c, "X">>} /\ \A r \in Rows \ {row} : locks'[r] = locks[r]
  BY DEF Acquire, LocksOK, LocksTypeOK
<1>2. LocksTypeOK'
  BY DEF Acquire, LocksOK, LocksTypeOK
<1>3. \A d \in Calls \ {c} : ~ Holds(d, row, "X")
  BY DEF Acquire, Blockers
<1>4. \A d \in Calls, r \in Rows : Holds(d, r, "X")' <=> Holds(d, r, "X") \/ (d = c /\ r = row)
  BY <1>1 DEF Holds
<1>5. \A d \in Calls, r \in Rows : ~ Holds(d, r, "S")'
  BY <1>1 DEF Holds, LocksOK
<1>6. QED
  BY <1>2, <1>3, <1>4, <1>5 DEF LocksOK

LEMMA ReleasedLocks ==
  ASSUME LocksOK, NEW c \in Calls, ReleaseLocks(c)
  PROVE  /\ LocksOK'
         /\ \A d \in Calls, r \in Rows : Holds(d, r, "X")' <=> Holds(d, r, "X") /\ d # c
<1>1. LocksTypeOK'
  BY DEF ReleaseLocks, LocksOK, LocksTypeOK
<1>2. \A d \in Calls, r \in Rows : Holds(d, r, "X")' <=> Holds(d, r, "X") /\ d # c
  BY DEF ReleaseLocks, Holds
<1>3. \A d \in Calls, r \in Rows : ~ Holds(d, r, "S")'
  BY DEF ReleaseLocks, LocksOK, Holds
<1>4. QED
  BY <1>1, <1>2, <1>3 DEF LocksOK

-----------------------------------------------------------------------------
(* What the step of somebody else leaves of what is known of a call.       *)

Bystander(d) ==
  /\ pc'[d] = pc[d] /\ UNCHANGED input
  /\ \A r \in Rows : Holds(d, r, "X")' <=> Holds(d, r, "X")
  /\ IsComment(d) => \A a \in Files(d) : media[a] = NoRow => media'[a] = NoRow
  /\ pc[d] \in {"insertComment", "commit"} => \A a \in Files(d) : media'[a] = media[a]
  /\ \A x \in DOMAIN comment : x \in DOMAIN comment' /\ comment'[x] = comment[x]
  /\ d \in DOMAIN comment' => d \in DOMAIN comment
  /\ pc[d] = "commit" => SameKey(d)' \subseteq SameKey(d)
  /\ pc[d] \in {"putObject", "insertAsset"} =>
       /\ media'[input[d].asset] = media[input[d].asset]
       /\ \A w \in Cleaners : input[d].asset \in current'[w] => input[d].asset \in current[w]
  /\ pc[d] = "insertAsset" /\ input[d].asset \in stored => input[d].asset \in stored'
  /\ failures # 0 => failures' # 0

LEMMA BystanderKeeps ==
  ASSUME Shapes, NEW d \in Calls, CallOK(d), Bystander(d)
  PROVE  CallOK(d)'
<1>1. pc'[d] = pc[d] /\ input' = input /\ IsComment(d)' = IsComment(d) /\ Files(d)' = Files(d)
  BY DEF Bystander, IsComment, Files
<1>2. /\ pc[d] \in {"findComment", "lockMedia", "insertComment", "commit"} => IsComment(d)
      /\ IsComment(d) => KeyLock(d) \in Rows /\ \A a \in Files(d) : a \in Assets /\ AssetLock(a) \in Rows
  BY KeyRows, RequestFacts, LockRows DEF Shapes, SessionsOK, LabelsOf
<1>3. LocksOf(d)'
  BY <1>1 DEF CallOK, LocksOf, Bystander, KeyLock, AssetLock
<1>4. InOrder(d)'
  <2>1. SUFFICES ASSUME pc[d] = "lockMedia", NEW a \in Files(d), NEW b \in Unlocked(d)', Holds(d, AssetLock(a), "X")'
                 PROVE  a < b
    BY <1>1 DEF InOrder
  <2>2. b \in Files(d) /\ media'[b] # NoRow /\ ~ Holds(d, AssetLock(b), "X")'
    BY <1>1 DEF Unlocked, Files
  <2>3. b \in Unlocked(d) /\ Holds(d, AssetLock(a), "X")
    BY <1>2, <2>1, <2>2 DEF Bystander, Unlocked, Files
  <2>4. QED
    BY <2>1, <2>3 DEF CallOK, InOrder
<1>5. Ready(d)'
  <2>1. SUFFICES ASSUME pc[d] \in {"insertComment", "commit"}, NEW a \in Files(d)
                 PROVE  /\ Holds(d, AssetLock(a), "X")'
                        /\ media'[a].status = "temporary" /\ media'[a].uploader = input[d].user
    BY <1>1 DEF Ready
  <2>2. /\ Holds(d, AssetLock(a), "X")
        /\ media[a].status = "temporary" /\ media[a].uploader = input[d].user
    BY <2>1 DEF CallOK, Ready
  <2>3. media'[a] = media[a]
    BY <2>1 DEF Bystander
  <2>4. AssetLock(a) \in Rows /\ AssetLock(a)' = AssetLock(a)
    BY <1>2, <2>1 DEF AssetLock
  <2>5. Holds(d, AssetLock(a), "X")'
    BY <2>2, <2>4 DEF Bystander, Holds
  <2>6. QED
    BY <2>2, <2>3, <2>5
<1>6. KeyIsFree(d)'
  <2>1. SUFFICES ASSUME pc[d] = "commit"
                 PROVE  Holds(d, KeyLock(d), "X")' /\ SameKey(d)' = {}
    BY <1>1 DEF KeyIsFree
  <2>2. KeyLock(d)' = KeyLock(d)
    BY <1>1 DEF KeyLock
  <2>3. Holds(d, KeyLock(d), "X") /\ SameKey(d) = {} /\ KeyLock(d) \in Rows
    BY <1>2, <2>1 DEF CallOK, KeyIsFree
  <2>4. Holds(d, KeyLock(d), "X")'
    BY <2>2, <2>3 DEF Bystander, Holds
  <2>5. QED
    BY <2>1, <2>3, <2>4 DEF Bystander
<1>7. Fresh(d)'
  BY <1>1 DEF CallOK, Fresh, Bystander
<1>8. Answered(d)'
  <2>1. \A x \in SameKey(d) : x \in SameKey(d)' /\ comment'[x] = comment[x]
    BY <1>1 DEF SameKey, Bystander
  <2>2. \A x \in SameKey(d) : /\ Payload(comment[x])' = Payload(comment[x])
                              /\ Payload(input[d])' = Payload(input[d])
    BY <1>1, <2>1 DEF Payload
  <2>3. pc[d] \in {"notify", "created"} => d \in DOMAIN comment'
    BY DEF CallOK, Answered, Bystander
  <2>4. d \in DOMAIN comment' => pc[d] \in {"notify", "created", "failed"}
    BY DEF CallOK, Answered, Bystander
  <2>5. pc[d] = "returned" => \E x \in SameKey(d)' : Payload(comment[x])' = Payload(input[d])'
    BY <2>1, <2>2 DEF CallOK, Answered
  <2>6. pc[d] = "conflict" => \E x \in SameKey(d)' : Payload(comment[x])' # Payload(input[d])'
    BY <2>1, <2>2 DEF CallOK, Answered
  <2>7. QED
    BY <1>1, <2>3, <2>4, <2>5, <2>6 DEF Answered
<1>9. QED
  BY <1>3, <1>4, <1>5, <1>6, <1>7, <1>8 DEF CallOK

-----------------------------------------------------------------------------
(* Steps of a call that change nothing but locks.                          *)

\* Where a call may go.
LEMMA CallGoes ==
  ASSUME SessionsOK, NEW c \in Calls, NEW label \in LabelsOf(c), Goto(c, label),
         UNCHANGED <<now, input, todo, current>>, failures' \in Nat
  PROVE  /\ SessionsOK'
         /\ pc'[c] = label
         /\ \A d \in Calls \ {c} : pc'[d] = pc[d]
         /\ \A w \in Cleaners : pc'[w] = pc[w]
<1>1. label \in Labels
  BY DEF LabelsOf, Labels, Statements, Outcomes
<1>2. \A w \in Cleaners : w # c
  BY CleanersAreNoCalls
<1>3. /\ pc' \in [Calls \cup Cleaners -> Labels] /\ pc'[c] = label
      /\ \A d \in Calls \ {c} : pc'[d] = pc[d]
      /\ \A w \in Cleaners : pc'[w] = pc[w]
  BY <1>1, <1>2 DEF Goto, SessionsOK
<1>4. \A d \in Calls : LabelsOf(d)' = LabelsOf(d)
  BY DEF LabelsOf, IsComment
<1>5. \A d \in Calls : pc'[d] \in LabelsOf(d)'
  BY <1>3, <1>4 DEF SessionsOK
<1>6. QED
  BY <1>3, <1>5 DEF SessionsOK

LEMMA QuietStep ==
  ASSUME MediaInv, NEW c \in Calls, NEW label \in LabelsOf(c), Goto(c, label),
         UNCHANGED <<rows, stored, told, failures, cleaning, now, input>>, LocksOK',
         \A d \in Calls \ {c}, r \in Rows : Holds(d, r, "X")' <=> Holds(d, r, "X"), CallOK(c)'
  PROVE  MediaInv'
<1>1. /\ media' = media /\ comment' = comment /\ stored' = stored /\ told' = told /\ failures' = failures
      /\ current' = current /\ todo' = todo /\ now' = now /\ input' = input
  BY DEF rows, cleaning
<1>2. Shapes /\ RowsOK /\ SessionsOK /\ CommentsOK /\ FilesOK
  BY DEF MediaInv, Shapes
<1>3. /\ SessionsOK' /\ pc'[c] = label
      /\ \A d \in Calls \ {c} : pc'[d] = pc[d]
      /\ \A w \in Cleaners : pc'[w] = pc[w]
  BY <1>1, <1>2, CallGoes DEF SessionsOK
<1>4. RowsOK'
  BY <1>1, <1>2 DEF RowsOK, IsComment
<1>5. CommentsOK'
  BY <1>1, <1>2 DEF CommentsOK, InComment
<1>6. FilesOK'
  BY <1>1, <1>2 DEF FilesOK
<1>7. \A w \in Cleaners : CleanerOK(w)'
  BY <1>1, <1>3 DEF MediaInv, CleanerOK
<1>8. ASSUME NEW d \in Calls \ {c}
      PROVE  CallOK(d)'
  <2>1. Bystander(d)
    BY <1>1, <1>3 DEF Bystander, SameKey
  <2>2. QED
    BY <1>2, <2>1, BystanderKeeps DEF MediaInv
<1>9. QED
  BY <1>2, <1>3, <1>4, <1>5, <1>6, <1>7, <1>8 DEF MediaInv, Shapes

\* A call that has ended holds nothing.
LEMMA EndStep ==
  ASSUME MediaInv, NEW c \in Calls, NEW outcome \in LabelsOf(c), End(c, outcome), UNCHANGED <<now, input>>,
         outcome \in {"returned", "conflict", "notAccess", "failed"},
         c \in DOMAIN comment => outcome = "failed",
         outcome = "returned" => \E x \in SameKey(c) : Payload(comment[x]) = Payload(input[c]),
         outcome = "conflict" => \E x \in SameKey(c) : Payload(comment[x]) # Payload(input[c])
  PROVE  MediaInv'
<1>1. /\ LocksOK'
      /\ \A d \in Calls, r \in Rows : Holds(d, r, "X")' <=> Holds(d, r, "X") /\ d # c
  BY ReleasedLocks DEF MediaInv, Shapes, End
<1>2. pc'[c] = outcome
  BY DEF End, Goto, MediaInv, Shapes, SessionsOK
<1>3. comment' = comment /\ input' = input
  BY DEF End, rows
<1>4. LocksOf(c)' /\ InOrder(c)' /\ Ready(c)' /\ KeyIsFree(c)' /\ Fresh(c)'
  BY <1>1, <1>2 DEF LocksOf, InOrder, Ready, KeyIsFree, Fresh
<1>5. Answered(c)'
  BY <1>2, <1>3 DEF Answered, SameKey, Payload
<1>6. CallOK(c)'
  BY <1>4, <1>5 DEF CallOK
<1>7. QED
  BY <1>1, <1>6, QuietStep DEF End

LEMMA CrashStep ==
  ASSUME MediaInv, NEW c \in Calls, Crash(c), UNCHANGED <<now, input>>
  PROVE  MediaInv'
<1>1. "failed" \in LabelsOf(c)
  BY DEF LabelsOf
<1>2. QED
  BY <1>1, EndStep DEF Crash

LEMMA AnswerStep ==
  ASSUME MediaInv, NEW c \in Calls, pc[c] \in {"findComment", "insertComment"}, AnswerExisting(c),
         UNCHANGED <<now, input>>
  PROVE  MediaInv'
<1>1. PICK x \in SameKey(c) : End(c, IF Payload(comment[x]) = Payload(input[c]) THEN "returned" ELSE "conflict")
  BY DEF AnswerExisting
<1>2. IsComment(c)
  BY DEF MediaInv, Shapes, SessionsOK, LabelsOf
<1>3. {"returned", "conflict"} \subseteq LabelsOf(c)
  BY <1>2 DEF LabelsOf
<1>4. c \notin DOMAIN comment
  BY DEF MediaInv, CallOK, Answered
<1>5. CASE Payload(comment[x]) = Payload(input[c])
  BY <1>1, <1>3, <1>4, <1>5, EndStep
<1>6. CASE Payload(comment[x]) # Payload(input[c])
  BY <1>1, <1>3, <1>4, <1>6, EndStep
<1>7. QED
  BY <1>5, <1>6

LEMMA FindCommentStep ==
  ASSUME MediaInv, NEW c \in Calls, FindComment(c), UNCHANGED <<now, input>>
  PROVE  MediaInv'
<1>1. pc[c] = "findComment" /\ IsComment(c)
  BY DEF FindComment, MediaInv, Shapes, SessionsOK, LabelsOf
<1>2. {"lockMedia", "failed"} \subseteq LabelsOf(c)
  BY <1>1 DEF LabelsOf
<1>3. CallOK(c)
  BY DEF MediaInv
<1>4. CASE AnswerExisting(c)
  BY <1>1, <1>4, AnswerStep
<1>5. CASE End(c, "failed")
  BY <1>2, <1>5, EndStep
<1>6. CASE Look(c, "lockMedia")
  <2>1. pc'[c] = "lockMedia" /\ locks' = locks /\ comment' = comment
    BY <1>6 DEF Look, Goto, rows, MediaInv, Shapes, SessionsOK
  <2>2. LocksOK' /\ \A d \in Calls, r \in Rows : Holds(d, r, "X")' <=> Holds(d, r, "X")
    BY <2>1 DEF MediaInv, Shapes, LocksOK, LocksTypeOK, Holds
  <2>3. \A r \in Rows : ~ Holds(c, r, "X")
    BY <1>1, <1>3 DEF CallOK, LocksOf
  <2>4. LocksOf(c)'
    BY <2>2, <2>3 DEF LocksOf
  <2>5. InOrder(c)'
    <3>1. \A a \in Files(c)' : ~ Holds(c, AssetLock(a), "X")'
      <4>1. \A a \in Files(c) : AssetLock(a) \in Rows
        BY <1>1, RequestFacts, LockRows DEF MediaInv, Shapes
      <4>2. Files(c)' = Files(c)
        BY DEF Files
      <4>3. QED
        BY <2>2, <2>3, <4>1, <4>2 DEF AssetLock
    <3>2. QED
      BY <3>1 DEF InOrder
  <2>6. Ready(c)' /\ KeyIsFree(c)' /\ Fresh(c)'
    BY <2>1 DEF Ready, KeyIsFree, Fresh
  <2>7. Answered(c)'
    BY <1>1, <1>3, <2>1 DEF CallOK, Answered
  <2>8. CallOK(c)'
    BY <2>4, <2>5, <2>6, <2>7 DEF CallOK
  <2>9. QED
    BY <1>2, <1>6, <2>2, <2>8, QuietStep DEF Look
<1>7. QED
  BY <1>4, <1>5, <1>6 DEF FindComment

\* The next lock is on the lowest of the rows that are left.
LEMMA NextLockStep ==
  ASSUME MediaInv, NEW c \in Calls, pc[c] = "lockMedia", Unlocked(c) # {},
         Lock(c, AssetLock(NextAsset(c)), "lockMedia"), UNCHANGED <<now, input>>
  PROVE  MediaInv'
<1> DEFINE a == NextAsset(c)
<1>1. IsComment(c) /\ Files(c) \subseteq Assets /\ Assets \subseteq Nat
  BY RequestFacts, MediaAssumption DEF MediaInv, Shapes, SessionsOK, LabelsOf
<1>2. Unlocked(c) \subseteq Files(c)
  BY DEF Unlocked, Files
<1>3. a \in Unlocked(c) /\ \A b \in Unlocked(c) : a <= b
  BY <1>1, <1>2, LeastNumber DEF NextAsset
<1> HIDE DEF a
<1>4. a \in Assets /\ AssetLock(a) \in Rows
  BY <1>1, <1>2, <1>3, LockRows
<1>5. Lock(c, AssetLock(a), "lockMedia")
  BY DEF a
<1>6. /\ LocksOK'
      /\ \A d \in Calls, r \in Rows : Holds(d, r, "X")' <=> Holds(d, r, "X") \/ (d = c /\ r = AssetLock(a))
  BY <1>4, <1>5, AcquiredLock DEF Lock, MediaInv, Shapes
<1>7. pc'[c] = "lockMedia" /\ media' = media /\ comment' = comment /\ input' = input
  BY <1>5 DEF Lock, Goto, rows, MediaInv, Shapes, SessionsOK
<1>8. CallOK(c) /\ Files(c)' = Files(c) /\ IsComment(c)'
  BY <1>1, <1>7 DEF MediaInv, Files, IsComment
<1>9. LocksOf(c)'
  <2>1. ASSUME NEW r \in Rows, Holds(c, r, "X")'
        PROVE  \E b \in Files(c) : r = AssetLock(b)
    <3>1. CASE r = AssetLock(a)
      BY <1>2, <1>3, <3>1
    <3>2. CASE Holds(c, r, "X")
      BY <1>8, <3>2 DEF CallOK, LocksOf
    <3>3. QED
      BY <1>6, <2>1, <3>1, <3>2
  <2>2. QED
    BY <1>7, <1>8, <2>1 DEF LocksOf, AssetLock
<1>10. InOrder(c)'
  <2>1. ASSUME NEW f \in Files(c), NEW b \in Unlocked(c)', Holds(c, AssetLock(f), "X")'
        PROVE  f < b
    <3>1. b \in Files(c) /\ media[b] # NoRow /\ ~ Holds(c, AssetLock(b), "X")'
      BY <1>7, <1>8 DEF Unlocked, Files
    <3>2. AssetLock(b) \in Rows /\ AssetLock(f) \in Rows /\ AssetLock(b)' = AssetLock(b) /\ AssetLock(f)' = AssetLock(f)
      BY <1>1, <3>1, LockRows DEF AssetLock
    <3>3. ~ Holds(c, AssetLock(b), "X") /\ AssetLock(b) # AssetLock(a)
      BY <1>6, <3>1, <3>2 DEF Holds
    <3>4. b \in Unlocked(c) /\ b # a
      BY <3>1, <3>3 DEF Unlocked, Files
    <3>5. Holds(c, AssetLock(f), "X") \/ AssetLock(f) = AssetLock(a)
      BY <1>6, <2>1, <3>2 DEF Holds
    <3>6. CASE Holds(c, AssetLock(f), "X")
      BY <1>8, <3>4, <3>6 DEF CallOK, InOrder
    <3>7. CASE AssetLock(f) = AssetLock(a)
      <4>1. f = a
        BY <3>7, LockRows
      <4>2. a \in Nat /\ b \in Nat /\ a <= b
        BY <1>1, <1>3, <1>4, <3>1, <3>4
      <4>3. QED
        BY <3>4, <4>1, <4>2
    <3>8. QED
      BY <3>5, <3>6, <3>7
  <2>2. QED
    BY <1>8, <2>1 DEF InOrder
<1>11. Ready(c)' /\ KeyIsFree(c)' /\ Fresh(c)'
  BY <1>7 DEF Ready, KeyIsFree, Fresh
<1>12. Answered(c)'
  BY <1>7, <1>8 DEF CallOK, Answered
<1>13. CallOK(c)'
  BY <1>9, <1>10, <1>11, <1>12 DEF CallOK
<1>14. "lockMedia" \in LabelsOf(c)
  BY <1>1 DEF LabelsOf
<1>15. QED
  BY <1>5, <1>6, <1>13, <1>14, QuietStep DEF Lock

LEMMA LockMediaStep ==
  ASSUME MediaInv, NEW c \in Calls, LockMedia(c), UNCHANGED <<now, input>>
  PROVE  MediaInv'
<1>1. pc[c] = "lockMedia" /\ IsComment(c)
  BY DEF LockMedia, MediaInv, Shapes, SessionsOK, LabelsOf
<1>2. {"insertComment", "failed", "notAccess"} \subseteq LabelsOf(c)
  BY <1>1 DEF LabelsOf
<1>3. CallOK(c)
  BY DEF MediaInv
<1>4. c \notin DOMAIN comment
  BY <1>1, <1>3 DEF CallOK, Answered
<1>5. CASE Unlocked(c) # {}
  BY <1>1, <1>5, NextLockStep DEF LockMedia
<1>6. CASE End(c, "failed") \/ End(c, "notAccess")
  BY <1>2, <1>4, <1>6, EndStep
<1>7. ASSUME Unlocked(c) = {}, \A a \in Files(c) : media[a] # NoRow /\ Usable(c, a), Look(c, "insertComment")
      PROVE  MediaInv'
  <2>1. pc'[c] = "insertComment" /\ locks' = locks /\ comment' = comment /\ media' = media
    BY <1>7 DEF Look, Goto, rows, MediaInv, Shapes, SessionsOK
  <2>2. LocksOK' /\ \A d \in Calls, r \in Rows : Holds(d, r, "X")' <=> Holds(d, r, "X")
    BY <2>1 DEF MediaInv, Shapes, LocksOK, LocksTypeOK, Holds
  <2>3. LocksOf(c)'
    <3>1. \A r \in Rows : Holds(c, r, "X")' => \E a \in Files(c) : r = AssetLock(a)
      BY <1>1, <1>3, <2>2 DEF CallOK, LocksOf
    <3>2. Files(c)' = Files(c) /\ IsComment(c)'
      BY <1>1 DEF Files, IsComment
    <3>3. QED
      BY <2>1, <3>1, <3>2 DEF LocksOf, AssetLock
  <2>4. Ready(c)'
    <3>1. ASSUME NEW a \in Files(c)
          PROVE  /\ Holds(c, AssetLock(a), "X")'
                 /\ media'[a].status = "temporary" /\ media'[a].uploader = input[c].user
      <4>1. Holds(c, AssetLock(a), "X")
        BY <1>7 DEF Unlocked, Files
      <4>2. Holds(c, AssetLock(a), "X")'
        BY <2>1, <4>1 DEF Holds, AssetLock
      <4>3. QED
        BY <1>7, <2>1, <4>2 DEF Usable
    <3>2. Files(c)' = Files(c)
      BY DEF Files
    <3>3. QED
      BY <3>1, <3>2 DEF Ready
  <2>5. InOrder(c)' /\ KeyIsFree(c)' /\ Fresh(c)'
    BY <2>1 DEF InOrder, KeyIsFree, Fresh
  <2>6. Answered(c)'
    BY <1>4, <2>1 DEF Answered
  <2>7. CallOK(c)'
    BY <2>3, <2>4, <2>5, <2>6 DEF CallOK
  <2>8. QED
    BY <1>2, <1>7, <2>2, <2>7, QuietStep DEF Look
<1>8. QED
  BY <1>5, <1>6, <1>7 DEF LockMedia, Files

LEMMA InsertCommentStep ==
  ASSUME MediaInv, NEW c \in Calls, InsertComment(c), UNCHANGED <<now, input>>
  PROVE  MediaInv'
<1>1. pc[c] = "insertComment" /\ IsComment(c)
  BY DEF InsertComment, MediaInv, Shapes, SessionsOK, LabelsOf
<1>2. CASE AnswerExisting(c)
  BY <1>1, <1>2, AnswerStep
<1>3. ASSUME SameKey(c) = {}, Lock(c, KeyLock(c), "commit")
      PROVE  MediaInv'
  <2>1. KeyLock(c) \in Rows /\ "commit" \in LabelsOf(c)
    BY <1>1, KeyRows DEF MediaInv, Shapes, LabelsOf
  <2>2. /\ LocksOK'
        /\ \A d \in Calls, r \in Rows : Holds(d, r, "X")' <=> Holds(d, r, "X") \/ (d = c /\ r = KeyLock(c))
    BY <1>3, <2>1, AcquiredLock DEF Lock, MediaInv, Shapes
  <2>3. pc'[c] = "commit" /\ media' = media /\ comment' = comment /\ input' = input
    BY <1>3 DEF Lock, Goto, rows, MediaInv, Shapes, SessionsOK
  <2>4. CallOK(c) /\ Files(c)' = Files(c) /\ IsComment(c)' /\ KeyLock(c)' = KeyLock(c) /\ SameKey(c)' = SameKey(c)
    BY <1>1, <2>3 DEF MediaInv, Files, IsComment, KeyLock, SameKey
  <2>5. LocksOf(c)'
    <3>1. \A r \in Rows : Holds(c, r, "X")' => r = KeyLock(c) \/ \E a \in Files(c) : r = AssetLock(a)
      BY <1>1, <2>2, <2>4 DEF CallOK, LocksOf
    <3>2. QED
      BY <2>3, <2>4, <3>1 DEF LocksOf, AssetLock
  <2>6. Ready(c)'
    <3>1. ASSUME NEW a \in Files(c)
          PROVE  /\ Holds(c, AssetLock(a), "X")'
                 /\ media'[a].status = "temporary" /\ media'[a].uploader = input[c].user
      <4>1. Holds(c, AssetLock(a), "X") /\ media[a].status = "temporary" /\ media[a].uploader = input[c].user
        BY <1>1, <2>4 DEF CallOK, Ready
      <4>2. AssetLock(a) \in Rows /\ AssetLock(a)' = AssetLock(a)
        BY <1>1, RequestFacts, LockRows DEF MediaInv, Shapes, AssetLock
      <4>3. Holds(c, AssetLock(a), "X")'
        BY <2>2, <4>1, <4>2 DEF Holds
      <4>4. QED
        BY <2>3, <4>1, <4>3
    <3>2. QED
      BY <2>3, <2>4, <3>1 DEF Ready
  <2>7. KeyIsFree(c)'
    <3>1. Holds(c, KeyLock(c), "X")'
      BY <2>1, <2>2, <2>4 DEF Holds
    <3>2. QED
      BY <1>3, <2>4, <3>1 DEF KeyIsFree
  <2>8. InOrder(c)' /\ Fresh(c)'
    BY <2>3 DEF InOrder, Fresh
  <2>9. Answered(c)'
    BY <1>1, <2>3, <2>4 DEF CallOK, Answered
  <2>10. CallOK(c)'
    BY <2>5, <2>6, <2>7, <2>8, <2>9 DEF CallOK
  <2>11. QED
    BY <1>3, <2>1, <2>2, <2>10, QuietStep DEF Lock
<1>4. QED
  BY <1>2, <1>3 DEF InsertComment

-----------------------------------------------------------------------------
(* Steps of a call that write.                                             *)

LEMMA WriteStep ==
  ASSUME MediaInv, NEW c \in Calls, NEW label \in LabelsOf(c), Goto(c, label),
         UNCHANGED <<now, input, todo, current>>, failures' \in Nat, failures # 0 => failures' # 0,
         RowsOK', LocksOK', CommentsOK', FilesOK', CallOK(c)',
         \A d \in Calls \ {c} : pc'[d] = pc[d] => Bystander(d),
         \A w \in Cleaners : \A a \in current[w] : media'[a] = media[a]
  PROVE  MediaInv'
<1>1. /\ SessionsOK'
      /\ \A d \in Calls \ {c} : pc'[d] = pc[d]
      /\ \A w \in Cleaners : pc'[w] = pc[w]
  BY CallGoes DEF MediaInv, Shapes
<1>2. ASSUME NEW d \in Calls \ {c}
      PROVE  CallOK(d)'
  BY <1>1, BystanderKeeps DEF MediaInv
<1>3. \A w \in Cleaners : CleanerOK(w)'
  BY <1>1 DEF MediaInv, CleanerOK
<1>4. QED
  BY <1>1, <1>2, <1>3 DEF MediaInv, Shapes

LEMMA UploadHoldsNothing ==
  ASSUME MediaInv, NEW c \in Calls, ~ IsComment(c), UNCHANGED <<locks, input>>
  PROVE  LocksOf(c)' /\ c \notin DOMAIN comment /\ LocksOK'
<1>1. CallOK(c)
  BY DEF MediaInv
<1>2. \A r \in Rows : ~ Holds(c, r, "X")'
  BY <1>1 DEF CallOK, LocksOf, Holds
<1>3. c \notin DOMAIN comment
  BY DEF MediaInv, Shapes, RowsOK
<1>4. QED
  BY <1>2, <1>3 DEF LocksOf, MediaInv, Shapes, LocksOK, LocksTypeOK, Holds

LEMMA Counting ==
  ASSUME SessionsOK, Fail \/ UNCHANGED failures
  PROVE  /\ failures' \in Nat /\ (failures # 0 => failures' # 0) /\ (Fail => failures' # 0)
         /\ failures' = 0 => failures = 0
BY DEF SessionsOK, Fail

LEMMA PutObjectStep ==
  ASSUME MediaInv, NEW c \in Calls, PutObject(c), UNCHANGED <<now, input>>
  PROVE  MediaInv'
<1> DEFINE a == input[c].asset
<1>1. pc[c] = "putObject" /\ ~ IsComment(c)
  BY DEF PutObject, MediaInv, Shapes, SessionsOK, LabelsOf
<1>2. /\ media' = media /\ comment' = comment /\ told' = told /\ locks' = locks
      /\ current' = current /\ todo' = todo /\ now' = now /\ input' = input
  BY DEF PutObject, rows, cleaning
<1>3. {"insertAsset", "discard"} \subseteq LabelsOf(c)
  BY <1>1 DEF LabelsOf
<1>4. Shapes /\ RowsOK /\ SessionsOK /\ CommentsOK /\ FilesOK /\ CallOK(c)
  BY DEF MediaInv, Shapes
<1>5. a \in Assets /\ media[a] = NoRow /\ \A w \in Cleaners : a \notin current[w]
  BY <1>1, <1>4, RequestFacts DEF CallOK, Fresh
<1>6. /\ failures' \in Nat /\ (failures # 0 => failures' # 0) /\ (Fail => failures' # 0)
      /\ failures' = 0 => failures = 0
  BY <1>4, Counting DEF PutObject
<1>7. stored \subseteq stored' /\ stored' \subseteq Assets
  BY <1>4, <1>5 DEF PutObject, RowsOK
<1>8. RowsOK' /\ CommentsOK' /\ FilesOK'
  BY <1>2, <1>4, <1>6, <1>7 DEF RowsOK, CommentsOK, FilesOK, InComment, IsComment
<1>9. LocksOf(c)' /\ c \notin DOMAIN comment /\ LocksOK'
  BY <1>1, <1>2, UploadHoldsNothing
<1>10. ASSUME NEW d \in Calls \ {c}, pc'[d] = pc[d]
       PROVE  Bystander(d)
  BY <1>2, <1>6, <1>7, <1>10 DEF Bystander, SameKey, Holds
<1>11. ASSUME NEW label \in {"insertAsset", "discard"}, Goto(c, label),
              label = "insertAsset" => a \in stored', label = "discard" => Fail
       PROVE  MediaInv'
  <2>1. pc'[c] = label
    BY <1>4, <1>11 DEF Goto, SessionsOK
  <2>2. Fresh(c)'
    BY <1>2, <1>5, <1>6, <1>11, <2>1 DEF Fresh
  <2>3. InOrder(c)' /\ Ready(c)' /\ KeyIsFree(c)' /\ Answered(c)'
    BY <1>2, <1>9, <2>1 DEF InOrder, Ready, KeyIsFree, Answered
  <2>4. CallOK(c)'
    BY <1>9, <2>2, <2>3 DEF CallOK
  <2>5. QED
    BY <1>2, <1>3, <1>6, <1>8, <1>9, <1>10, <1>11, <2>4, WriteStep
<1>12. QED
  BY <1>11 DEF PutObject

\* The row of an upload's file is in nobody's hands.
LEMMA InsertAssetStep ==
  ASSUME MediaInv, NEW c \in Calls, InsertAsset(c), UNCHANGED <<now, input>>
  PROVE  MediaInv'
<1> DEFINE a == input[c].asset
           row == Temporary(input[c].user, now + Ttl)
<1>1. pc[c] = "insertAsset" /\ ~ IsComment(c)
  BY DEF InsertAsset, MediaInv, Shapes, SessionsOK, LabelsOf
<1>2. /\ stored' = stored /\ comment' = comment /\ told' = told /\ locks' = locks
      /\ current' = current /\ todo' = todo /\ now' = now /\ input' = input
  BY DEF InsertAsset, cleaning
<1>3. {"uploaded", "discard"} \subseteq LabelsOf(c)
  BY <1>1 DEF LabelsOf
<1>4. Shapes /\ RowsOK /\ SessionsOK /\ CommentsOK /\ FilesOK /\ CallOK(c)
  BY DEF MediaInv, Shapes
<1>5. /\ a \in Assets /\ media[a] = NoRow /\ \A w \in Cleaners : a \notin current[w]
      /\ failures = 0 => a \in stored
  BY <1>1, <1>4, RequestFacts DEF CallOK, Fresh
<1>6. /\ failures' \in Nat /\ (failures # 0 => failures' # 0) /\ (Fail => failures' # 0)
      /\ failures' = 0 => failures = 0
  BY <1>4, Counting DEF InsertAsset
<1>7. row \in MediaRows /\ row.status = "temporary"
  BY <1>4, RequestFacts, RowFacts, MediaAssumption DEF SessionsOK
<1> HIDE DEF row
<1>8. media' = media \/ media' = [media EXCEPT ![a] = row]
  BY DEF InsertAsset, row
<1>9. /\ media' \in [Assets -> MediaRows] /\ \A b \in Assets \ {a} : media'[b] = media[b]
      /\ media'[a].status \in {"none", "temporary"}
  BY <1>4, <1>5, <1>7, <1>8, RowFacts DEF RowsOK
<1>10. RowsOK'
  BY <1>2, <1>4, <1>9 DEF RowsOK, IsComment
<1>11. \A x \in DOMAIN comment : a \notin Range(comment[x].media)
  BY <1>1, <1>4, UploadFacts DEF RowsOK, Files
<1>12. CommentsOK'
  <2>1. InComment(a) = {} /\ InComment(a)' = {}
    BY <1>2, <1>11 DEF InComment
  <2>2. \A b \in Assets : InComment(b)' = InComment(b)
    BY <1>2 DEF InComment
  <2>3. QED
    BY <1>2, <1>4, <1>9, <2>1, <2>2 DEF CommentsOK
<1>13. FilesOK'
  BY <1>2, <1>4, <1>5, <1>6, <1>9 DEF FilesOK
<1>14. LocksOf(c)' /\ c \notin DOMAIN comment /\ LocksOK'
  BY <1>1, <1>2, UploadHoldsNothing
<1>15. ASSUME NEW d \in Calls \ {c}, pc'[d] = pc[d]
       PROVE  Bystander(d)
  <2>1. IsComment(d) => a \notin Files(d) /\ Files(d) \subseteq Assets
    BY <1>1, <1>4, UploadFacts, RequestFacts
  <2>2. ~ IsComment(d) => input[d].asset \in Assets /\ input[d].asset # a
    BY <1>1, <1>4, UploadFacts, RequestFacts
  <2>3. /\ pc[d] \in {"insertComment", "commit"} => IsComment(d)
        /\ pc[d] \in {"putObject", "insertAsset"} => ~ IsComment(d)
    BY <1>4 DEF SessionsOK, LabelsOf
  <2>4. QED
    BY <1>2, <1>6, <1>9, <1>15, <2>1, <2>2, <2>3 DEF Bystander, SameKey, Holds
<1>16. \A w \in Cleaners : \A b \in current[w] : media'[b] = media[b]
  BY <1>4, <1>5, <1>9 DEF SessionsOK
<1>17. ASSUME NEW label \in {"uploaded", "discard"}, Goto(c, label), label = "discard" => Fail
       PROVE  MediaInv'
  <2>1. pc'[c] = label
    BY <1>4, <1>17 DEF Goto, SessionsOK
  <2>2. Fresh(c)'
    BY <1>6, <1>17, <2>1 DEF Fresh
  <2>3. InOrder(c)' /\ Ready(c)' /\ KeyIsFree(c)' /\ Answered(c)'
    BY <1>2, <1>14, <2>1 DEF InOrder, Ready, KeyIsFree, Answered
  <2>4. CallOK(c)'
    BY <1>14, <2>2, <2>3 DEF CallOK
  <2>5. QED
    BY <1>2, <1>3, <1>6, <1>10, <1>12, <1>13, <1>14, <1>15, <1>16, <1>17, <2>4, WriteStep
<1>18. QED
  BY <1>17 DEF InsertAsset

LEMMA DiscardStep ==
  ASSUME MediaInv, NEW c \in Calls, Discard(c), UNCHANGED <<now, input>>
  PROVE  MediaInv'
<1> DEFINE a == input[c].asset
<1>1. pc[c] = "discard" /\ ~ IsComment(c)
  BY DEF Discard, MediaInv, Shapes, SessionsOK, LabelsOf
<1>2. /\ media' = media /\ comment' = comment /\ told' = told /\ locks' = locks
      /\ current' = current /\ todo' = todo /\ now' = now /\ input' = input
  BY DEF Discard, rows, cleaning
<1>3. "failed" \in LabelsOf(c) /\ Goto(c, "failed")
  BY <1>1 DEF LabelsOf, Discard
<1>4. Shapes /\ RowsOK /\ SessionsOK /\ CommentsOK /\ FilesOK /\ CallOK(c)
  BY DEF MediaInv, Shapes
<1>5. failures' \in Nat /\ failures' # 0
  BY <1>1, <1>4, Counting DEF Discard, CallOK, Fresh
<1>6. stored' \subseteq Assets /\ stored \ {a} \subseteq stored'
  BY <1>4 DEF Discard, RowsOK
<1>7. RowsOK' /\ CommentsOK' /\ FilesOK'
  BY <1>2, <1>4, <1>5, <1>6 DEF RowsOK, CommentsOK, FilesOK, InComment, IsComment
<1>8. LocksOf(c)' /\ c \notin DOMAIN comment /\ LocksOK'
  BY <1>1, <1>2, UploadHoldsNothing
<1>9. ASSUME NEW d \in Calls \ {c}, pc'[d] = pc[d]
      PROVE  Bystander(d)
  <2>1. pc[d] = "insertAsset" => input[d].asset # a
    BY <1>1, <1>4, UploadFacts DEF SessionsOK, LabelsOf
  <2>2. QED
    BY <1>2, <1>5, <1>6, <1>9, <2>1 DEF Bystander, SameKey, Holds
<1>10. pc'[c] = "failed"
  BY <1>3, <1>4 DEF Goto, SessionsOK
<1>11. CallOK(c)'
  BY <1>2, <1>8, <1>10 DEF CallOK, InOrder, Ready, KeyIsFree, Fresh, Answered
<1>12. QED
  BY <1>2, <1>3, <1>5, <1>7, <1>8, <1>9, <1>11, WriteStep

LEMMA NotifyStep ==
  ASSUME MediaInv, NEW c \in Calls, Notify(c), UNCHANGED <<now, input>>
  PROVE  MediaInv'
<1>1. pc[c] = "notify" /\ IsComment(c)
  BY DEF Notify, MediaInv, Shapes, SessionsOK, LabelsOf
<1>2. /\ media' = media /\ comment' = comment /\ stored' = stored /\ locks' = locks /\ failures' = failures
      /\ current' = current /\ todo' = todo /\ now' = now /\ input' = input
  BY DEF Notify, rows, cleaning
<1>3. "created" \in LabelsOf(c) /\ Goto(c, "created")
  BY <1>1 DEF LabelsOf, Notify
<1>4. Shapes /\ RowsOK /\ SessionsOK /\ LocksOK /\ CommentsOK /\ FilesOK /\ CallOK(c)
  BY DEF MediaInv, Shapes
<1>5. c \in DOMAIN comment
  BY <1>1, <1>4 DEF CallOK, Answered
<1>6. told' \subseteq DOMAIN comment
  BY <1>4, <1>5 DEF Notify, RowsOK
<1>7. RowsOK' /\ CommentsOK' /\ FilesOK' /\ LocksOK'
  BY <1>2, <1>4, <1>6 DEF RowsOK, CommentsOK, FilesOK, InComment, IsComment, LocksOK, LocksTypeOK, Holds
<1>8. pc'[c] = "created"
  BY <1>3, <1>4 DEF Goto, SessionsOK
<1>9. LocksOf(c)'
  <2>1. \A r \in Rows : ~ Holds(c, r, "X")'
    BY <1>1, <1>2, <1>4 DEF CallOK, LocksOf, Holds
  <2>2. QED
    BY <2>1 DEF LocksOf
<1>10. InOrder(c)' /\ Ready(c)' /\ KeyIsFree(c)' /\ Fresh(c)' /\ Answered(c)'
  BY <1>2, <1>5, <1>8 DEF InOrder, Ready, KeyIsFree, Fresh, Answered
<1>11. CallOK(c)'
  BY <1>9, <1>10 DEF CallOK
<1>12. ASSUME NEW d \in Calls \ {c}, pc'[d] = pc[d]
       PROVE  Bystander(d)
  BY <1>2, <1>12 DEF Bystander, SameKey, Holds
<1>13. failures' \in Nat
  BY <1>2, <1>4 DEF SessionsOK
<1>14. QED
  BY <1>2, <1>3, <1>7, <1>11, <1>12, <1>13, WriteStep

\* A comment attaches what it has locked, under a key that it has locked.
LEMMA CommitFacts ==
  ASSUME MediaInv, NEW c \in Calls, CommitComment(c)
  PROVE  /\ pc[c] = "commit" /\ IsComment(c) /\ CallOK(c) /\ c \notin DOMAIN comment /\ SameKey(c) = {}
         /\ Files(c) \subseteq Assets /\ KeyLock(c) \in Rows /\ Holds(c, KeyLock(c), "X")
         /\ \A a \in Files(c) : /\ Holds(c, AssetLock(a), "X") /\ AssetLock(a) \in Rows
                                /\ media[a].status = "temporary" /\ media[a].uploader = input[c].user
                                /\ InComment(a) = {}
         /\ comment' = [x \in DOMAIN comment \cup {c} |-> IF x = c THEN input[c] ELSE comment[x]]
         /\ media' = [a \in Assets |-> IF a \in Files(c) THEN Attached(media[a]) ELSE media[a]]
         /\ Goto(c, "notify") /\ ReleaseLocks(c)
         /\ UNCHANGED <<stored, told, failures, cleaning>>
<1>1. pc[c] = "commit" /\ IsComment(c) /\ CallOK(c)
  BY DEF CommitComment, MediaInv, Shapes, SessionsOK, LabelsOf
<1>2. Files(c) \subseteq Assets /\ KeyLock(c) \in Rows /\ Holds(c, KeyLock(c), "X") /\ SameKey(c) = {}
  BY <1>1, RequestFacts, KeyRows DEF MediaInv, Shapes, CallOK, KeyIsFree
<1>3. c \notin DOMAIN comment
  BY <1>1 DEF CallOK, Answered
<1>4. ASSUME NEW a \in Files(c)
      PROVE  /\ Holds(c, AssetLock(a), "X") /\ AssetLock(a) \in Rows
             /\ media[a].status = "temporary" /\ media[a].uploader = input[c].user
             /\ InComment(a) = {}
  <2>1. /\ Holds(c, AssetLock(a), "X")
        /\ media[a].status = "temporary" /\ media[a].uploader = input[c].user
    BY <1>1 DEF CallOK, Ready
  <2>2. InComment(a) = {}
    BY <1>2, <2>1 DEF MediaInv, CommentsOK
  <2>3. QED
    BY <1>2, <2>1, <2>2, LockRows
<1>5. ~ \E a \in Files(c) : media[a].status # "temporary" \/ \E x \in DOMAIN comment : a \in Range(comment[x].media)
  BY <1>4 DEF InComment
<1>6. QED
  BY <1>1, <1>2, <1>3, <1>4, <1>5 DEF CommitComment, Files

LEMMA CommitStep ==
  ASSUME MediaInv, NEW c \in Calls, CommitComment(c), UNCHANGED <<now, input>>
  PROVE  MediaInv'
<1>1. /\ pc[c] = "commit" /\ IsComment(c) /\ CallOK(c) /\ c \notin DOMAIN comment /\ SameKey(c) = {}
      /\ Files(c) \subseteq Assets /\ KeyLock(c) \in Rows /\ Holds(c, KeyLock(c), "X")
      /\ Goto(c, "notify") /\ ReleaseLocks(c)
  BY CommitFacts
<1>2. \A a \in Files(c) : /\ Holds(c, AssetLock(a), "X") /\ AssetLock(a) \in Rows
                          /\ media[a].status = "temporary" /\ media[a].uploader = input[c].user
                          /\ InComment(a) = {}
  BY CommitFacts
<1>3. /\ comment' = [x \in DOMAIN comment \cup {c} |-> IF x = c THEN input[c] ELSE comment[x]]
      /\ media' = [a \in Assets |-> IF a \in Files(c) THEN Attached(media[a]) ELSE media[a]]
  BY CommitFacts
<1>4. /\ stored' = stored /\ told' = told /\ failures' = failures
      /\ current' = current /\ todo' = todo /\ now' = now /\ input' = input
  BY CommitFacts DEF cleaning
<1>5. Shapes /\ RowsOK /\ SessionsOK /\ LocksOK /\ CommentsOK /\ FilesOK
  BY DEF MediaInv, Shapes
<1>6. /\ \A a \in Files(c) : media'[a].status = "attached" /\ media'[a].uploader = input[c].user
      /\ \A a \in Assets \ Files(c) : media'[a] = media[a]
  BY <1>1, <1>2, <1>3 DEF Attached
<1>7. media' \in [Assets -> MediaRows]
  <2>1. \A a \in Files(c) : Attached(media[a]) \in MediaRows
    BY <1>1, <1>2, <1>5, RequestFacts DEF Attached, MediaRows
  <2>2. QED
    BY <1>3, <1>5, <2>1 DEF RowsOK
<1>8. /\ DOMAIN comment' = DOMAIN comment \cup {c} /\ comment'[c] = input[c]
      /\ \A x \in DOMAIN comment : comment'[x] = comment[x]
  BY <1>1, <1>3
<1>9. RowsOK'
  <2>1. comment' = [x \in DOMAIN comment' |-> comment'[x]]
    BY <1>3
  <2>2. \A x \in DOMAIN comment' : x \in Calls /\ IsComment(x)' /\ comment'[x] = input'[x]
    BY <1>1, <1>4, <1>5, <1>8 DEF RowsOK, IsComment
  <2>3. told' \subseteq DOMAIN comment' /\ stored' \subseteq Assets
    BY <1>4, <1>5, <1>8 DEF RowsOK
  <2>4. QED
    BY <1>7, <2>1, <2>2, <2>3 DEF RowsOK
<1>10. CommentsOK'
  <2>1. ASSUME NEW x \in DOMAIN comment', NEW y \in DOMAIN comment',
               comment'[x].user = comment'[y].user /\ comment'[x].key = comment'[y].key
        PROVE  x = y
    <3>1. \A z \in DOMAIN comment : ~ (comment[z].user = input[c].user /\ comment[z].key = input[c].key)
      BY <1>1 DEF SameKey
    <3>2. QED
      BY <1>5, <1>8, <2>1, <3>1 DEF CommentsOK
  <2>2. \A a \in Assets : InComment(a)' = IF a \in Files(c) THEN InComment(a) \cup {c} ELSE InComment(a)
    BY <1>8 DEF InComment, Files
  <2>3. ASSUME NEW a \in Files(c)
        PROVE  /\ media'[a].status = "attached" <=> InComment(a)' # {}
               /\ \A x \in InComment(a)' : comment'[x].user = media'[a].uploader
               /\ \A x, y \in InComment(a)' : x = y
    <3>1. InComment(a)' = {c}
      BY <1>1, <1>2, <2>2
    <3>2. QED
      BY <1>6, <1>8, <3>1
  <2>4. ASSUME NEW a \in Assets \ Files(c)
        PROVE  /\ media'[a].status = "attached" <=> InComment(a)' # {}
               /\ \A x \in InComment(a)' : comment'[x].user = media'[a].uploader
               /\ \A x, y \in InComment(a)' : x = y
    <3>1. InComment(a)' = InComment(a) /\ media'[a] = media[a] /\ InComment(a) \subseteq DOMAIN comment
      BY <1>6, <2>2 DEF InComment
    <3>2. QED
      BY <1>5, <1>8, <3>1 DEF CommentsOK
  <2>5. QED
    BY <2>1, <2>3, <2>4 DEF CommentsOK
<1>11. FilesOK'
  BY <1>1, <1>2, <1>4, <1>5, <1>6 DEF FilesOK
<1>12. /\ LocksOK'
       /\ \A d \in Calls, r \in Rows : Holds(d, r, "X")' <=> Holds(d, r, "X") /\ d # c
  BY <1>1, <1>5, ReleasedLocks
<1>13. pc'[c] = "notify" /\ "notify" \in LabelsOf(c)
  BY <1>1, <1>5 DEF Goto, SessionsOK, LabelsOf
<1>14. CallOK(c)'
  BY <1>8, <1>12, <1>13 DEF CallOK, LocksOf, InOrder, Ready, KeyIsFree, Fresh, Answered
<1>15. ASSUME NEW d \in Calls \ {c}, pc'[d] = pc[d]
       PROVE  Bystander(d)
  <2>1. CallOK(d) /\ pc[d] \in LabelsOf(d)
    BY <1>5 DEF MediaInv, SessionsOK
  <2>2. IsComment(d) => \A a \in Files(d) : media[a] = NoRow => media'[a] = NoRow
    <3>1. \A a \in Files(c) : media[a] # NoRow
      BY <1>2, RowFacts
    <3>2. QED
      BY <1>5, <1>6, <3>1, RequestFacts
  <2>3. pc[d] \in {"insertComment", "commit"} => \A a \in Files(d) : media'[a] = media[a]
    <3>1. ASSUME pc[d] \in {"insertComment", "commit"}, NEW a \in Files(d)
          PROVE  a \in Assets \ Files(c)
      <4>1. IsComment(d) /\ Holds(d, AssetLock(a), "X")
        BY <2>1, <3>1 DEF CallOK, Ready, LabelsOf
      <4>2. a \in Assets
        BY <1>5, <3>1, <4>1, RequestFacts
      <4>3. a \notin Files(c)
        BY <1>2, <1>5, <4>1 DEF LocksOK
      <4>4. QED
        BY <4>2, <4>3
    <3>2. QED
      BY <1>6, <3>1
  <2>4. pc[d] = "commit" => SameKey(d)' \subseteq SameKey(d)
    <3>1. ASSUME pc[d] = "commit"
          PROVE  ~ (input[c].user = input[d].user /\ input[c].key = input[d].key)
      <4>1. Holds(d, KeyLock(d), "X")
        BY <2>1, <3>1 DEF CallOK, KeyIsFree
      <4>2. KeyLock(c) # KeyLock(d)
        BY <1>1, <1>5, <4>1 DEF LocksOK
      <4>3. QED
        BY <4>2 DEF KeyLock
    <3>2. QED
      BY <1>4, <1>8, <3>1 DEF SameKey
  <2>5. pc[d] \in {"putObject", "insertAsset"} => media'[input[d].asset] = media[input[d].asset]
    <3>1. ASSUME pc[d] \in {"putObject", "insertAsset"}
          PROVE  input[d].asset \in Assets \ Files(c)
      <4>1. ~ IsComment(d)
        BY <2>1, <3>1 DEF LabelsOf
      <4>2. QED
        BY <1>1, <1>5, <4>1, UploadFacts, RequestFacts
    <3>2. QED
      BY <1>6, <3>1
  <2>6. QED
    BY <1>4, <1>8, <1>12, <1>15, <2>2, <2>3, <2>4, <2>5 DEF Bystander
<1>16. ASSUME NEW w \in Cleaners, NEW a \in current[w]
       PROVE  media'[a] = media[a]
  <2>1. a \in Assets /\ media[a].status # "temporary"
    BY <1>5, RowFacts DEF MediaInv, CleanerOK, SessionsOK
  <2>2. QED
    BY <1>2, <1>6, <2>1
<1>17. failures' \in Nat
  BY <1>4, <1>5 DEF SessionsOK
<1>18. QED
  BY <1>1, <1>4, <1>9, <1>10, <1>11, <1>12, <1>13, <1>14, <1>15, <1>16, <1>17, WriteStep

-----------------------------------------------------------------------------
(* Steps of a cleaner.                                                     *)

\* It writes only rows that nobody has locked, or that are being deleted, and
\* takes only those in hand that are temporary.
CleansUp(w) ==
  /\ UNCHANGED <<comment, told, locks, input>>
  /\ \A c \in Calls : pc'[c] = pc[c]
  /\ failures # 0 => failures' # 0
  /\ \A a \in Assets : media'[a] # media[a] =>
       \/ media[a].status = "deleting"
       \/ media[a].status = "temporary" /\ \A c \in Calls : ~ Holds(c, AssetLock(a), "X")
  /\ \A v \in Cleaners : \A a \in current'[v] : a \in current[v] \/ media[a].status = "temporary"
  /\ \A a \in stored : a \in stored' \/ a \in current[w]

LEMMA CallsStay ==
  ASSUME MediaInv, NEW w \in Cleaners, CleansUp(w)
  PROVE  \A c \in Calls : CallOK(c)'
<1> SUFFICES ASSUME NEW c \in Calls
             PROVE  CallOK(c)'
  OBVIOUS
<1>1. Shapes /\ RowsOK /\ SessionsOK /\ CallOK(c) /\ pc[c] \in LabelsOf(c)
  BY DEF MediaInv, Shapes, SessionsOK
<1>2. /\ UNCHANGED <<comment, told, locks, input>>
      /\ pc'[c] = pc[c]
      /\ failures # 0 => failures' # 0
      /\ \A a \in Assets : media'[a] # media[a] =>
           \/ media[a].status = "deleting"
           \/ media[a].status = "temporary" /\ ~ Holds(c, AssetLock(a), "X")
      /\ \A v \in Cleaners : \A a \in current'[v] : a \in current[v] \/ media[a].status = "temporary"
      /\ \A a \in stored : a \in stored' \/ a \in current[w]
  BY DEF CleansUp
<1>3. IsComment(c) => \A a \in Files(c) : media[a] = NoRow => media'[a] = NoRow
  BY <1>1, <1>2, RequestFacts, RowFacts
<1>4. pc[c] \in {"insertComment", "commit"} => \A a \in Files(c) : media'[a] = media[a]
  <2>1. ASSUME pc[c] \in {"insertComment", "commit"}, NEW a \in Files(c)
        PROVE  media'[a] = media[a]
    <3>1. IsComment(c) /\ Holds(c, AssetLock(a), "X") /\ media[a].status = "temporary"
      BY <1>1, <2>1 DEF CallOK, Ready, LabelsOf
    <3>2. a \in Assets
      BY <1>1, <2>1, <3>1, RequestFacts
    <3>3. QED
      BY <1>2, <3>1, <3>2
  <2>2. QED
    BY <2>1
<1>5. ASSUME pc[c] \in {"putObject", "insertAsset"}
      PROVE  /\ media'[input[c].asset] = media[input[c].asset]
             /\ \A v \in Cleaners : input[c].asset \notin current'[v]
             /\ input[c].asset \in stored => input[c].asset \in stored'
  <2>1. ~ IsComment(c) /\ media[input[c].asset] = NoRow /\ \A v \in Cleaners : input[c].asset \notin current[v]
    BY <1>1, <1>5 DEF CallOK, Fresh, LabelsOf
  <2>2. input[c].asset \in Assets
    BY <1>1, <2>1, RequestFacts
  <2>3. QED
    BY <1>2, <2>1, <2>2, RowFacts
<1>6. Bystander(c)
  BY <1>2, <1>3, <1>4, <1>5 DEF Bystander, SameKey, Holds
<1>7. QED
  BY <1>1, <1>6, BystanderKeeps

LEMMA CleanStep ==
  ASSUME MediaInv, NEW w \in Cleaners, CleansUp(w), NEW label \in CleanerStatements, Goto(w, label),
         UNCHANGED now, failures' \in Nat, media' \in [Assets -> MediaRows], stored' \subseteq Assets,
         todo' \in [Cleaners -> SUBSET Assets], current' \in [Cleaners -> SUBSET Assets],
         \A a \in Assets : media'[a] # media[a] => media'[a].status # "attached",
         \A v \in Cleaners \ {w} : /\ current'[v] = current[v]
                                   /\ \A a \in current[v] : media'[a] = media[a],
         FilesOK', pc'[w] = label => CleanerOK(w)'
  PROVE  MediaInv'
<1>1. Shapes /\ RowsOK /\ SessionsOK /\ LocksOK /\ CommentsOK
  BY DEF MediaInv, Shapes
<1>2. /\ comment' = comment /\ told' = told /\ locks' = locks /\ input' = input
      /\ \A c \in Calls : pc'[c] = pc[c]
      /\ failures # 0 => failures' # 0
  BY DEF CleansUp
<1>3. label \in Labels
  BY DEF Labels
<1>4. /\ pc' \in [Calls \cup Cleaners -> Labels] /\ pc'[w] = label
      /\ \A v \in Cleaners \ {w} : pc'[v] = pc[v]
  BY <1>1, <1>3 DEF Goto, SessionsOK
<1>5. SessionsOK'
  <2>1. \A c \in Calls : pc'[c] \in LabelsOf(c)'
    BY <1>1, <1>2 DEF SessionsOK, LabelsOf, IsComment
  <2>2. \A v \in Cleaners : pc'[v] \in CleanerStatements
    BY <1>1, <1>4 DEF SessionsOK
  <2>3. QED
    BY <1>1, <1>2, <1>4, <2>1, <2>2 DEF SessionsOK
<1>6. RowsOK'
  BY <1>1, <1>2 DEF RowsOK, IsComment
<1>7. LocksOK'
  BY <1>1, <1>2 DEF LocksOK, LocksTypeOK, Holds
<1>8. CommentsOK'
  <2>1. ASSUME NEW a \in Assets
        PROVE  /\ media'[a].status = "attached" <=> media[a].status = "attached"
               /\ media[a].status = "attached" => media'[a] = media[a]
    BY DEF CleansUp
  <2>2. \A a \in Assets : InComment(a)' = InComment(a)
    BY <1>2 DEF InComment
  <2>3. ASSUME NEW a \in Assets
        PROVE  /\ media'[a].status = "attached" <=> InComment(a)' # {}
               /\ \A x \in InComment(a)' : comment'[x].user = media'[a].uploader
               /\ \A x, y \in InComment(a)' : x = y
    BY <1>1, <1>2, <2>1, <2>2 DEF CommentsOK
  <2>4. QED
    BY <1>1, <1>2, <2>3 DEF CommentsOK
<1>9. \A c \in Calls : CallOK(c)'
  BY CallsStay
<1>10. ASSUME NEW v \in Cleaners \ {w}
       PROVE  CleanerOK(v)'
  <2>1. CleanerOK(v) /\ pc'[v] = pc[v] /\ current'[v] = current[v] /\ \A a \in current[v] : media'[a] = media[a]
    BY <1>4 DEF MediaInv
  <2>2. QED
    BY <1>2, <2>1 DEF CleanerOK
<1>11. CleanerOK(w)'
  BY <1>4
<1>12. QED
  BY <1>5, <1>6, <1>7, <1>8, <1>9, <1>10, <1>11 DEF MediaInv, Shapes

\* What a cleaner has in hand is being deleted, and nobody else's.
LEMMA InHand ==
  ASSUME MediaInv, NEW w \in Cleaners
  PROVE  /\ current[w] \subseteq Assets
         /\ \A a \in current[w] : media[a].status \in {"deleting", "none"}
         /\ pc[w] # "giveBack" => \A a \in current[w] : media[a].status = "deleting"
         /\ pc[w] = "giveBack" => failures # 0
         /\ \A v \in Cleaners \ {w} : current[w] \cap current[v] = {}
<1>1. current[w] \subseteq Assets
  BY DEF MediaInv, Shapes, SessionsOK
<1>2. CleanerOK(w) /\ FilesOK
  BY DEF MediaInv
<1>3. QED
  BY <1>1, <1>2, RowFacts DEF CleanerOK, FilesOK

\* A cleaner that neither writes nor takes anything in hand.
LEMMA IdleStep ==
  ASSUME MediaInv, NEW w \in Cleaners, pc[w] # "giveBack", NEW label \in {"find", "claim"}, Goto(w, label),
         UNCHANGED <<media, comment, stored, told, failures, current, locks, now, input>>,
         todo' \in [Cleaners -> SUBSET Assets]
  PROVE  MediaInv'
<1>1. Shapes /\ RowsOK /\ SessionsOK /\ FilesOK
  BY DEF MediaInv, Shapes
<1>2. label \in CleanerStatements
  BY DEF CleanerStatements
<1>3. \A c \in Calls : pc'[c] = pc[c]
  BY <1>1, CleanersAreNoCalls DEF Goto, SessionsOK
<1>4. CleansUp(w)
  BY <1>3 DEF CleansUp
<1>5. FilesOK'
  BY <1>1 DEF FilesOK
<1>6. pc'[w] = label => CleanerOK(w)'
  BY InHand DEF CleanerOK
<1>7. media' \in [Assets -> MediaRows] /\ stored' \subseteq Assets /\ failures' \in Nat
      /\ current' \in [Cleaners -> SUBSET Assets]
  BY <1>1 DEF RowsOK, SessionsOK
<1>8. QED
  BY <1>2, <1>4, <1>5, <1>6, <1>7, CleanStep

LEMMA FindStep ==
  ASSUME MediaInv, NEW w \in Cleaners, Find(w), UNCHANGED <<now, input>>
  PROVE  MediaInv'
<1>1. PICK batch \in SUBSET Expired : todo' = [todo EXCEPT ![w] = batch]
  BY DEF Find, kSubset
<1>2. todo' \in [Cleaners -> SUBSET Assets]
  BY <1>1 DEF MediaInv, Shapes, SessionsOK, Expired
<1>3. QED
  BY <1>2, IdleStep DEF Find, rows

\* A claim finds a temporary row that no comment has locked.
LEMMA ClaimStep ==
  ASSUME MediaInv, NEW w \in Cleaners, Claim(w), UNCHANGED <<now, input>>
  PROVE  MediaInv'
<1>1. Shapes /\ RowsOK /\ SessionsOK /\ FilesOK
  BY DEF MediaInv, Shapes
<1>2. PICK a \in todo[w] :
       /\ Blockers(w, AssetLock(a), "X") = {}
       /\ todo' = [todo EXCEPT ![w] = @ \ {a}]
       /\ IF Claims(w, a)
          THEN /\ media' = [media EXCEPT ![a].status = "deleting"]
               /\ current' = [current EXCEPT ![w] = {a}]
               /\ Goto(w, "deleteObject")
          ELSE Goto(w, IF todo'[w] = {} THEN "find" ELSE "claim") /\ UNCHANGED <<media, current>>
  BY DEF Claim
<1>3. pc[w] = "claim" /\ UNCHANGED <<comment, stored, told, failures, abandoned, locks>>
  BY DEF Claim
<1>4. a \in Assets /\ todo' \in [Cleaners -> SUBSET Assets]
  BY <1>1, <1>2 DEF SessionsOK
<1>5. CASE ~ Claims(w, a)
  <2>1. CASE todo'[w] = {}
    BY <1>2, <1>3, <1>4, <1>5, <2>1, IdleStep
  <2>2. CASE todo'[w] # {}
    BY <1>2, <1>3, <1>4, <1>5, <2>2, IdleStep
  <2>3. QED
    BY <2>1, <2>2
<1>6. CASE Claims(w, a)
  <2>1. PICK row : row = [media[a] EXCEPT !.status = "deleting"]
    OBVIOUS
  <2>2. /\ media'[a] = row /\ \A b \in Assets \ {a} : media'[b] = media[b]
        /\ media' = [b \in Assets |-> media'[b]]
    BY <1>1, <1>2, <1>4, <1>6, <2>1 DEF RowsOK
  <2>3. media[a] \in MediaRows /\ media[a].status = "temporary"
    BY <1>1, <1>4, <1>6 DEF RowsOK, Claims
  <2>4. row \in MediaRows /\ row.status = "deleting"
    BY <2>1, <2>3, RowFacts DEF MediaRows
  <2>5. media' \in [Assets -> MediaRows]
    BY <1>1, <2>2, <2>4 DEF RowsOK
  <2>6. \A c \in Calls : ~ Holds(c, AssetLock(a), "X")
    BY <1>2, CleanersAreNoCalls DEF Blockers
  <2>7. /\ current' \in [Cleaners -> SUBSET Assets] /\ current'[w] = {a}
        /\ \A v \in Cleaners \ {w} : current'[v] = current[v]
    BY <1>1, <1>2, <1>4, <1>6 DEF SessionsOK
  <2>8. Goto(w, "deleteObject") /\ "deleteObject" \in CleanerStatements
    BY <1>2, <1>6 DEF CleanerStatements
  <2>9. \A c \in Calls : pc'[c] = pc[c]
    BY <1>1, <2>8, CleanersAreNoCalls DEF Goto, SessionsOK
  <2>10. CleansUp(w)
    BY <1>3, <2>2, <2>3, <2>6, <2>7, <2>9 DEF CleansUp
  <2>11. \A v \in Cleaners : a \notin current[v]
    BY <2>3, InHand
  <2>12. FilesOK'
    BY <1>1, <1>3, <2>2, <2>4, <2>7, <2>11 DEF FilesOK
  <2>13. pc'[w] = "deleteObject" => CleanerOK(w)'
    BY <2>2, <2>4, <2>7 DEF CleanerOK
  <2>14. \A b \in Assets : media'[b] # media[b] => media'[b].status # "attached"
    BY <2>2, <2>4
  <2>15. \A v \in Cleaners \ {w} : \A b \in current[v] : media'[b] = media[b]
    BY <2>2, <2>11, InHand
  <2>16. failures' \in Nat /\ stored' \subseteq Assets
    BY <1>1, <1>3 DEF RowsOK, SessionsOK
  <2>17. QED
    BY <1>4, <2>5, <2>7, <2>8, <2>10, <2>12, <2>13, <2>14, <2>15, <2>16, CleanStep
<1>7. QED
  BY <1>5, <1>6

LEMMA DeleteObjectStep ==
  ASSUME MediaInv, NEW w \in Cleaners, DeleteObject(w), UNCHANGED <<now, input>>
  PROVE  MediaInv'
<1>1. Shapes /\ RowsOK /\ SessionsOK /\ FilesOK
  BY DEF MediaInv, Shapes
<1>2. pc[w] = "deleteObject" /\ UNCHANGED <<media, comment, told, todo, current, locks>>
  BY DEF DeleteObject, rows, cleaning
<1>3. \A a \in current[w] : media[a].status = "deleting"
  BY <1>2, InHand
<1>4. stored' \in {stored, stored \ current[w]}
  BY DEF DeleteObject
<1>5. /\ failures' \in Nat /\ (failures # 0 => failures' # 0) /\ (Fail => failures' # 0)
      /\ failures' = 0 => failures = 0
  BY <1>1, Counting DEF DeleteObject
<1>6. FilesOK'
  BY <1>1, <1>2, <1>3, <1>4, <1>5 DEF FilesOK
<1>7. media' \in [Assets -> MediaRows] /\ stored' \subseteq Assets /\ todo' \in [Cleaners -> SUBSET Assets]
      /\ current' \in [Cleaners -> SUBSET Assets]
  BY <1>1, <1>2, <1>4 DEF RowsOK, SessionsOK
<1>8. ASSUME NEW label \in {"deleteRow", "giveBack"}, Goto(w, label), label = "giveBack" => Fail
      PROVE  MediaInv'
  <2>1. label \in CleanerStatements
    BY DEF CleanerStatements
  <2>2. \A c \in Calls : pc'[c] = pc[c]
    BY <1>1, <1>8, CleanersAreNoCalls DEF Goto, SessionsOK
  <2>3. CleansUp(w)
    BY <1>2, <1>4, <1>5, <2>2 DEF CleansUp
  <2>4. pc'[w] = label => CleanerOK(w)'
    BY <1>2, <1>3, <1>5, <1>8 DEF CleanerOK
  <2>5. QED
    BY <1>2, <1>5, <1>6, <1>7, <1>8, <2>1, <2>3, <2>4, CleanStep
<1>9. QED
  BY <1>8 DEF DeleteObject

\* A cleaner writes only rows it has in hand.
LEMMA WritesInHand ==
  ASSUME MediaInv, NEW w \in Cleaners, NEW label \in CleanerStatements, Goto(w, label),
         UNCHANGED <<comment, stored, told, todo, locks, now, input>>,
         failures' \in Nat, failures # 0 \/ UNCHANGED media \/ (\A a \in Assets : media'[a].status # "temporary" \/ media'[a] = media[a]),
         failures # 0 => failures' # 0,
         media' \in [Assets -> MediaRows],
         \A a \in Assets : media'[a] # media[a] => /\ a \in current[w] /\ media[a].status = "deleting"
                                                   /\ media'[a].status # "attached",
         current' \in [Cleaners -> SUBSET Assets], current'[w] \subseteq current[w],
         \A v \in Cleaners \ {w} : current'[v] = current[v],
         pc'[w] = label => CleanerOK(w)'
  PROVE  MediaInv'
<1>1. Shapes /\ RowsOK /\ SessionsOK /\ FilesOK
  BY DEF MediaInv, Shapes
<1>2. \A c \in Calls : pc'[c] = pc[c]
  BY <1>1, CleanersAreNoCalls DEF Goto, SessionsOK
<1>3. \A v \in Cleaners : \A a \in current'[v] : a \in current[v]
  OBVIOUS
<1>4. CleansUp(w)
  BY <1>2, <1>3 DEF CleansUp
<1>5. FilesOK'
  BY <1>1, <1>3 DEF FilesOK
<1>6. \A v \in Cleaners \ {w} : \A a \in current[v] : media'[a] = media[a]
  BY InHand
<1>7. stored' \subseteq Assets /\ todo' \in [Cleaners -> SUBSET Assets]
  BY <1>1 DEF RowsOK, SessionsOK
<1>8. QED
  BY <1>4, <1>5, <1>6, <1>7, CleanStep

LEMMA DeleteRowStep ==
  ASSUME MediaInv, NEW w \in Cleaners, DeleteRow(w), UNCHANGED <<now, input>>
  PROVE  MediaInv'
<1> DEFINE deleted == [a \in Assets |-> IF a \in Deleting(w) THEN NoRow ELSE media[a]]
<1>1. Shapes /\ RowsOK /\ SessionsOK
  BY DEF MediaInv, Shapes
<1>2. /\ pc[w] = "deleteRow" /\ UNCHANGED <<comment, stored, told, todo, locks>>
      /\ media' = media \/ media' = deleted
  BY DEF DeleteRow
<1>3. /\ current[w] \subseteq Assets /\ \A a \in current[w] : media[a].status = "deleting"
  BY <1>2, InHand
<1>4. /\ media' \in [Assets -> MediaRows]
      /\ \A a \in Assets : media'[a] = media[a] \/ (a \in current[w] /\ media'[a] = NoRow)
  BY <1>1, <1>2, RowFacts DEF RowsOK, Deleting
<1>5. /\ failures' \in Nat /\ (failures # 0 => failures' # 0) /\ (Fail => failures' # 0)
  BY <1>1, Counting DEF DeleteRow
<1>6. /\ \A a \in Assets : media'[a].status # "temporary" \/ media'[a] = media[a]
      /\ \A a \in Assets : media'[a] # media[a] => /\ a \in current[w] /\ media[a].status = "deleting"
                                                   /\ media'[a].status # "attached"
  BY <1>3, <1>4, RowFacts
<1>7. CASE Continue(w)
  <2>1. PICK label \in {"find", "claim"} : Goto(w, label)
    BY <1>7 DEF Continue
  <2>2. label \in CleanerStatements
    BY <2>1 DEF CleanerStatements
  <2>3. /\ current' \in [Cleaners -> SUBSET Assets] /\ current'[w] = {}
        /\ \A v \in Cleaners \ {w} : current'[v] = current[v]
    BY <1>1, <1>7 DEF Continue, SessionsOK
  <2>4. pc'[w] = label => CleanerOK(w)'
    BY <2>1, <2>3 DEF CleanerOK
  <2>5. QED
    BY <1>2, <1>4, <1>5, <1>6, <2>1, <2>2, <2>3, <2>4, WritesInHand
<1>8. CASE Goto(w, "giveBack") /\ Fail /\ UNCHANGED current
  <2>1. "giveBack" \in CleanerStatements /\ current' \in [Cleaners -> SUBSET Assets]
    BY <1>1, <1>8 DEF CleanerStatements, SessionsOK
  <2>2. pc'[w] = "giveBack" => CleanerOK(w)'
    BY <1>3, <1>4, <1>5, <1>8 DEF CleanerOK
  <2>3. QED
    BY <1>2, <1>4, <1>5, <1>6, <1>8, <2>1, <2>2, WritesInHand
<1>9. QED
  BY <1>7, <1>8 DEF DeleteRow

LEMMA GiveBackStep ==
  ASSUME MediaInv, NEW w \in Cleaners, GiveBack(w), UNCHANGED <<now, input>>
  PROVE  MediaInv'
<1>1. Shapes /\ RowsOK /\ SessionsOK
  BY DEF MediaInv, Shapes
<1>2. /\ pc[w] = "giveBack" /\ UNCHANGED <<comment, stored, told, failures, todo, locks>>
      /\ media' = [a \in Assets |-> IF a \in Deleting(w) THEN GivenBack(media[a]) ELSE media[a]]
  BY DEF GiveBack
<1>3. failures # 0 /\ failures' \in Nat
  BY <1>1, <1>2, InHand DEF SessionsOK
<1>4. \A a \in Deleting(w) : a \in Assets /\ a \in current[w] /\ media[a].status = "deleting"
  BY InHand DEF Deleting
<1>5. \A a \in Deleting(w) : GivenBack(media[a]) \in MediaRows /\ GivenBack(media[a]).status = "temporary"
  <2>1. ASSUME NEW a \in Deleting(w)
        PROVE  media[a].uploader \in Users /\ now + RetryDelay \in Nat
    <3>1. media[a] \in MediaRows /\ media[a] # NoRow
      BY <1>1, <1>4, RowFacts DEF RowsOK
    <3>2. QED
      BY <1>1, <3>1, RowFacts, MediaAssumption DEF SessionsOK
  <2>2. QED
    BY <2>1, RowFacts DEF GivenBack
<1>6. /\ media' \in [Assets -> MediaRows]
      /\ \A a \in Assets : media'[a] # media[a] => /\ a \in current[w] /\ media[a].status = "deleting"
                                                   /\ media'[a].status # "attached"
  BY <1>1, <1>2, <1>4, <1>5 DEF RowsOK
<1>7. PICK label \in {"find", "claim"} : Goto(w, label)
  BY DEF GiveBack, Continue
<1>8. label \in CleanerStatements
  BY <1>7 DEF CleanerStatements
<1>9. /\ current' \in [Cleaners -> SUBSET Assets] /\ current'[w] = {}
      /\ \A v \in Cleaners \ {w} : current'[v] = current[v]
  BY <1>1 DEF GiveBack, Continue, SessionsOK
<1>10. pc'[w] = label => CleanerOK(w)'
  BY <1>7, <1>9 DEF CleanerOK
<1>11. QED
  BY <1>2, <1>3, <1>6, <1>7, <1>8, <1>9, <1>10, WritesInHand

\* What a lost cleaner had in hand stays as it is.
LEMMA CrashCleanerStep ==
  ASSUME MediaInv, NEW w \in Cleaners, CrashCleaner(w), UNCHANGED <<now, input>>
  PROVE  MediaInv'
<1>1. Shapes /\ RowsOK /\ SessionsOK /\ FilesOK
  BY DEF MediaInv, Shapes
<1>2. /\ Fail /\ Goto(w, "find") /\ UNCHANGED <<media, comment, stored, told, locks>>
      /\ todo' = [todo EXCEPT ![w] = {}] /\ current' = [current EXCEPT ![w] = {}]
  BY DEF CrashCleaner, rows
<1>3. failures' \in Nat /\ failures' # 0
  BY <1>1, <1>2, Counting
<1>4. /\ todo' \in [Cleaners -> SUBSET Assets] /\ current' \in [Cleaners -> SUBSET Assets] /\ current'[w] = {}
      /\ \A v \in Cleaners \ {w} : current'[v] = current[v]
  BY <1>1, <1>2 DEF SessionsOK
<1>5. \A c \in Calls : pc'[c] = pc[c]
  BY <1>1, <1>2, CleanersAreNoCalls DEF Goto, SessionsOK
<1>6. CleansUp(w)
  <2>1. \A v \in Cleaners : \A a \in current'[v] : a \in current[v]
    BY <1>4
  <2>2. QED
    BY <1>2, <1>3, <1>5, <2>1 DEF CleansUp
<1>7. FilesOK'
  BY <1>1, <1>3, <1>4 DEF FilesOK
<1>8. pc'[w] = "find" => CleanerOK(w)'
  BY <1>4 DEF CleanerOK
<1>9. "find" \in CleanerStatements /\ media' \in [Assets -> MediaRows] /\ stored' \subseteq Assets
  BY <1>1, <1>2 DEF CleanerStatements, RowsOK
<1>10. QED
  BY <1>2, <1>3, <1>4, <1>6, <1>7, <1>8, <1>9, CleanStep


-----------------------------------------------------------------------------
(* The clock, and the invariant.                                           *)

\* Nothing but the clock changes.
LEMMA StillStep ==
  ASSUME MediaInv, now' \in Nat, UNCHANGED <<rows, stored, told, failures, cleaning, input, pc, locks>>
  PROVE  MediaInv'
<1>1. /\ media' = media /\ comment' = comment /\ stored' = stored /\ told' = told /\ failures' = failures
      /\ current' = current /\ todo' = todo /\ input' = input /\ pc' = pc /\ locks' = locks
  BY DEF rows, cleaning
<1>2. Shapes /\ RowsOK /\ SessionsOK /\ LocksOK /\ CommentsOK /\ FilesOK
  BY DEF MediaInv, Shapes
<1>3. RowsOK' /\ LocksOK' /\ CommentsOK' /\ FilesOK'
  BY <1>1, <1>2 DEF RowsOK, IsComment, LocksOK, LocksTypeOK, Holds, CommentsOK, InComment, FilesOK
<1>4. SessionsOK'
  BY <1>1, <1>2 DEF SessionsOK, LabelsOf, IsComment
<1>5. ASSUME NEW c \in Calls
      PROVE  CallOK(c)'
  <2>1. Bystander(c)
    BY <1>1 DEF Bystander, SameKey, Holds
  <2>2. QED
    BY <1>2, <2>1, BystanderKeeps DEF MediaInv
<1>6. \A w \in Cleaners : CleanerOK(w)'
  BY <1>1 DEF MediaInv, CleanerOK
<1>7. QED
  BY <1>3, <1>4, <1>5, <1>6 DEF MediaInv, Shapes

LEMMA TickStep ==
  ASSUME MediaInv, Tick
  PROVE  MediaInv'
<1>1. now' \in Nat
  BY DEF Tick, MediaInv, Shapes, SessionsOK
<1>2. QED
  BY <1>1, StillStep DEF Tick

LEMMA MediaInit == Init => MediaInv
<1> SUFFICES ASSUME Init
             PROVE  MediaInv
  OBVIOUS
<1>1. /\ input \in Workloads /\ stored = Listed(input) /\ comment = << >> /\ told = {} /\ now = 0 /\ failures = 0
      /\ todo = [w \in Cleaners |-> {}] /\ current = [w \in Cleaners |-> {}]
      /\ media = [a \in Assets |-> IF a \in stored THEN Temporary(Uploaded[a], Ttl) ELSE NoRow]
  BY DEF Init
<1>2. stored \subseteq DOMAIN Uploaded /\ stored \subseteq Assets
  BY <1>1, MediaAssumption
<1>3. \A a \in stored : Uploaded[a] \in Users
  BY <1>2, MediaAssumption DEF Range
<1>4. \A a \in stored : Temporary(Uploaded[a], Ttl) \in MediaRows /\ Temporary(Uploaded[a], Ttl).status = "temporary"
  BY <1>3, RowFacts, MediaAssumption
<1>5. /\ media \in [Assets -> MediaRows]
      /\ \A a \in Assets : media[a].status # "attached" /\ (media[a].status = "temporary" <=> a \in stored)
  BY <1>1, <1>4, RowFacts
<1>6. DOMAIN comment = {} /\ comment = [x \in DOMAIN comment |-> comment[x]]
  BY <1>1
<1>7. RowsOK
  BY <1>1, <1>2, <1>5, <1>6 DEF RowsOK
<1>8. /\ pc \in [Calls \cup Cleaners -> Labels]
      /\ \A c \in Calls : pc[c] = IF IsComment(c) THEN "findComment" ELSE "putObject"
      /\ \A w \in Cleaners : pc[w] = "find"
  BY CleanersAreNoCalls DEF Init, IsComment, Labels, Statements, CleanerStatements
<1>9. SessionsOK
  BY <1>1, <1>8 DEF SessionsOK, LabelsOf, CleanerStatements
<1>10. \A r \in Rows : \A c \in Calls, mode \in {"S", "X"} : ~ Holds(c, r, mode)
  BY DEF Init, NoLocks, Holds
<1>11. LocksOK
  BY <1>10 DEF LocksOK, LocksTypeOK, Init, NoLocks
<1>12. CommentsOK
  BY <1>5, <1>6 DEF CommentsOK, InComment
<1>13. FilesOK
  BY <1>1, <1>5 DEF FilesOK
<1>14. ASSUME NEW c \in Calls
       PROVE  CallOK(c)
  <2>1. LocksOf(c)
    BY <1>10 DEF LocksOf
  <2>2. InOrder(c) /\ Ready(c) /\ KeyIsFree(c) /\ Answered(c)
    BY <1>6, <1>8 DEF InOrder, Ready, KeyIsFree, Answered
  <2>3. Fresh(c)
    <3>1. CASE IsComment(c)
      BY <1>8, <3>1 DEF Fresh
    <3>2. CASE ~ IsComment(c)
      <4>1. input[c].asset \in Assets
        BY <1>9, <3>2, RequestFacts
      <4>2. c \in Uploads(input)
        <5>1. input[c] \in Requests
          BY <1>1, MediaAssumption
        <5>2. \A r \in Requests : r.kind = "comment" \/ r.kind = "upload"
          BY DEF Requests
        <5>3. QED
          BY <3>2, <5>1, <5>2 DEF Uploads, IsComment
      <4>3. input[c].asset \notin stored
        BY <1>1, <4>2, MediaAssumption
      <4>4. media[input[c].asset] = NoRow
        BY <1>1, <4>1, <4>3
      <4>5. QED
        BY <1>1, <1>8, <3>2, <4>4 DEF Fresh
    <3>3. QED
      BY <3>1, <3>2
  <2>4. QED
    BY <2>1, <2>2, <2>3 DEF CallOK
<1>15. \A w \in Cleaners : CleanerOK(w)
  BY <1>1, <1>8 DEF CleanerOK
<1>16. QED
  BY <1>7, <1>9, <1>11, <1>12, <1>13, <1>14, <1>15 DEF MediaInv, Shapes

LEMMA MediaNext == MediaInv /\ [Next]_vars => MediaInv'
<1> SUFFICES ASSUME MediaInv, [Next]_vars
             PROVE  MediaInv'
  OBVIOUS
<1>1. ASSUME NEW c \in Calls, Step(c), UNCHANGED <<now, input>>
      PROVE  MediaInv'
  BY <1>1, PutObjectStep, InsertAssetStep, DiscardStep, FindCommentStep, LockMediaStep,
     InsertCommentStep, CommitStep, NotifyStep DEF Step
<1>2. ASSUME NEW c \in Calls, Crash(c), UNCHANGED <<now, input>>
      PROVE  MediaInv'
  BY <1>2, CrashStep
<1>3. ASSUME NEW w \in Cleaners, Clean(w), UNCHANGED <<now, input>>
      PROVE  MediaInv'
  BY <1>3, FindStep, ClaimStep, DeleteObjectStep, DeleteRowStep, GiveBackStep DEF Clean
<1>4. ASSUME NEW w \in Cleaners, CrashCleaner(w), UNCHANGED <<now, input>>
      PROVE  MediaInv'
  BY <1>4, CrashCleanerStep
<1>5. CASE Tick
  BY <1>5, TickStep
<1>6. CASE UNCHANGED vars
  BY <1>6, StillStep DEF vars, MediaInv, Shapes, SessionsOK
<1>7. QED
  BY <1>1, <1>2, <1>3, <1>4, <1>5, <1>6 DEF Next

LEMMA MediaInvariant == Spec => []MediaInv
BY MediaInit, MediaNext, PTL DEF Spec

-----------------------------------------------------------------------------
(* Comments and their files.                                               *)

LEMMA AtMostOne ==
  ASSUME NEW S, \A x, y \in S : x = y
  PROVE  /\ Cardinality(S) <= 1
         /\ S = {} => Cardinality(S) = 0
         /\ S # {} => Cardinality(S) = 1
<1>1. CASE S = {}
  BY <1>1, FS_EmptySet
<1>2. CASE S # {}
  <2>1. PICK x : S = {x}
    <3>1. PICK x \in S : TRUE
      BY <1>2
    <3>2. S = {x}
      BY <3>1
    <3>3. QED
      BY <3>2
  <2>2. QED
    BY <1>2, <2>1, FS_Singleton
<1>3. QED
  BY <1>1, <1>2

\* However comments, uploads and clean-ups interleave and whatever fails, createComment
\* (product-comments.service.ts) leaves an asset attached if and only if exactly one
\* comment, of the asset's uploader, shows it; as long as nothing failed, the file
\* of a comment is in the storage whatever cleanupExpiredTemporaryMedia deletes.
THEOREM FilesAreShownOnce == Spec => []ShownOnce
<1>1. ASSUME MediaInv
      PROVE  ShownOnce
  <2>1. Shapes /\ RowsOK /\ CommentsOK /\ FilesOK
    BY <1>1 DEF MediaInv, Shapes
  <2>2. ASSUME NEW a \in Assets
        PROVE  /\ Cardinality(InComment(a)) = IF media[a].status = "attached" THEN 1 ELSE 0
               /\ \A x \in InComment(a) : comment[x].user = media[a].uploader
               /\ failures = 0 /\ InComment(a) # {} => a \in stored
    <3>1. /\ media[a].status = "attached" <=> InComment(a) # {}
          /\ \A x \in InComment(a) : comment[x].user = media[a].uploader
          /\ \A x, y \in InComment(a) : x = y
      BY <2>1 DEF CommentsOK
    <3>2. Cardinality(InComment(a)) = IF media[a].status = "attached" THEN 1 ELSE 0
      BY <3>1, AtMostOne
    <3>3. failures = 0 /\ InComment(a) # {} => a \in stored
      BY <2>1, <3>1 DEF FilesOK
    <3>4. QED
      BY <3>1, <3>2, <3>3
  <2>3. QED
    BY <2>2 DEF ShownOnce
<1>2. QED
  BY <1>1, MediaInvariant, PTL

-----------------------------------------------------------------------------
(* Who is refused access, and why.                                         *)

\* A listed file is its uploader's and stays temporary for Ttl at least; only one
\* that has expired is taken by a cleaner.
Standing(a) ==
  /\ media[a] # NoRow => media[a].uploader = Uploaded[a]
  /\ media[a].status = "temporary" => media[a].expires >= Ttl
  /\ media[a].status = "deleting" => now >= Ttl
  /\ \A w \in Cleaners : a \in todo[w] => now >= Ttl

Refused(c) == pc[c] = "notAccess" => \E a \in Files(c) : Barred(c, a)

Refusals == (\A a \in Listed(input) : Standing(a)) /\ \A c \in Calls : Refused(c)

LEMMA ListedFacts ==
  ASSUME MediaInv
  PROVE  /\ Listed(input) \subseteq Assets
         /\ \A c \in Calls : IsComment(c) => Files(c) \subseteq Listed(input)
<1>1. ASSUME NEW c \in Calls, IsComment(c)
      PROVE  Files(c) \subseteq Listed(input) /\ Files(c) \subseteq Assets
  BY <1>1, RequestFacts DEF MediaInv, Shapes, Listed, Files, IsComment
<1>2. ASSUME NEW a \in Listed(input)
      PROVE  a \in Assets
  <2>1. PICK c \in Calls : IsComment(c) /\ a \in Files(c)
    BY DEF Listed, IsComment, Files
  <2>2. QED
    BY <1>1, <2>1
<1>3. QED
  BY <1>1, <1>2

\* What a step makes of a listed file's row.
Follows(a) ==
  \/ media'[a] = media[a]
  \/ media'[a] = NoRow
  \/ media[a] # NoRow /\ media'[a] = Attached(media[a])
  \/ /\ media[a] # NoRow /\ now >= Ttl
     /\ media'[a] # NoRow /\ media'[a].status = "deleting" /\ media'[a].uploader = media[a].uploader
  \/ media[a].status = "deleting" /\ media'[a] = GivenBack(media[a])

LEMMA StandingStays ==
  ASSUME Refusals, NEW a \in Listed(input), Follows(a), now \in Nat, now' \in Nat, now' >= now,
         \A w \in Cleaners : a \in todo'[w] => a \in todo[w] \/ now >= Ttl
  PROVE  Standing(a)'
<1>1. Standing(a) /\ Ttl \in Nat /\ RetryDelay \in Nat
  BY MediaAssumption DEF Refusals
<1>2. \A w \in Cleaners : a \in todo'[w] => now' >= Ttl
  BY <1>1 DEF Standing
<1>3. CASE media'[a] = media[a]
  BY <1>1, <1>2, <1>3 DEF Standing
<1>4. CASE media'[a] = NoRow
  BY <1>2, <1>4 DEF Standing, NoRow
<1>5. CASE media[a] # NoRow /\ media'[a] = Attached(media[a])
  BY <1>1, <1>2, <1>5 DEF Standing, Attached
<1>6. CASE /\ media[a] # NoRow /\ now >= Ttl
           /\ media'[a].status = "deleting" /\ media'[a].uploader = media[a].uploader
  BY <1>1, <1>2, <1>6 DEF Standing
<1>7. CASE media[a].status = "deleting" /\ media'[a] = GivenBack(media[a])
  <2>1. media[a] # NoRow /\ now >= Ttl
    BY <1>1, <1>7 DEF Standing, NoRow
  <2>2. /\ media'[a].uploader = media[a].uploader /\ media'[a].status = "temporary"
        /\ media'[a].expires = now + RetryDelay
    BY <1>7 DEF GivenBack, Temporary
  <2>3. media'[a].expires >= Ttl
    BY <1>1, <2>1, <2>2
  <2>4. QED
    BY <1>1, <1>2, <2>1, <2>2, <2>3 DEF Standing
<1>8. QED
  BY <1>3, <1>4, <1>5, <1>6, <1>7 DEF Follows

\* A call that is about to be refused has found a file that is not its own, has
\* been attached or has expired.
Refuses(c) ==
  /\ pc[c] = "lockMedia"
  /\ \A a \in Files(c) : media[a] # NoRow
  /\ \E a \in Files(c) : ~ Usable(c, a)

LEMMA RefusedFilesAreBarred ==
  ASSUME MediaInv, Refusals, NEW c \in Calls, Refuses(c)
  PROVE  \E a \in Files(c) : Barred(c, a)
<1>1. Shapes /\ RowsOK /\ SessionsOK /\ CommentsOK
  BY DEF MediaInv, Shapes
<1>2. IsComment(c)
  BY <1>1 DEF Refuses, SessionsOK, LabelsOf
<1>3. PICK a \in Files(c) : ~ Usable(c, a) /\ media[a] # NoRow
  BY DEF Refuses
<1>4. a \in Assets /\ Standing(a)
  BY <1>2, ListedFacts DEF Refusals
<1>5. media[a].status \in {"attached", "temporary", "deleting"} /\ now \in Nat /\ Ttl \in Nat
  BY <1>1, <1>3, <1>4, RowFacts, MediaAssumption DEF RowsOK, SessionsOK
<1>6. CASE media[a].status = "attached"
  BY <1>1, <1>4, <1>6 DEF CommentsOK, Barred
<1>7. CASE media[a].status = "deleting"
  BY <1>4, <1>7 DEF Standing, Barred
<1>8. CASE media[a].status = "temporary"
  <2>1. media[a].expires \in Nat
    BY <1>1, <1>4, <1>8 DEF RowsOK, MediaRows, NoRow
  <2>2. media[a].uploader # input[c].user \/ media[a].expires <= now
    BY <1>3, <1>5, <1>8, <2>1 DEF Usable
  <2>3. QED
    BY <1>3, <1>4, <1>5, <1>8, <2>1, <2>2 DEF Standing, Barred
<1>9. QED
  BY <1>5, <1>6, <1>7, <1>8

LEMMA BarredStays ==
  ASSUME Refusals, MediaInv, input' = input, now \in Nat, now' \in Nat, now' >= now,
         \A a \in Assets : InComment(a) \subseteq InComment(a)',
         \A a \in Listed(input) : Follows(a),
         \A a \in Listed(input), w \in Cleaners : a \in todo'[w] => a \in todo[w] \/ now >= Ttl,
         \A c \in Calls : pc'[c] = "notAccess" => pc[c] = "notAccess" \/ Refuses(c)
  PROVE  Refusals'
<1>1. \A a \in Listed(input)' : Standing(a)'
  BY StandingStays DEF Listed
<1>2. ASSUME NEW c \in Calls, pc'[c] = "notAccess"
      PROVE  (\E a \in Files(c) : Barred(c, a))'
  <2>1. PICK a \in Files(c) : Barred(c, a)
    BY <1>2, RefusedFilesAreBarred DEF Refusals, Refused
  <2>2. IsComment(c)
    BY <1>2 DEF MediaInv, Shapes, SessionsOK, LabelsOf, Refuses
  <2>3. a \in Assets /\ a \in Files(c)' /\ Ttl \in Nat
    BY <2>2, ListedFacts, MediaAssumption DEF Files
  <2>4. Barred(c, a)'
    BY <2>1, <2>3 DEF Barred
  <2>5. QED
    BY <2>3, <2>4
<1>3. \A c \in Calls : Refused(c)'
  BY <1>2 DEF Refused
<1>4. QED
  BY <1>1, <1>3 DEF Refusals

\* A step that writes none of these rows and leaves the clean-up alone.
LEMMA OtherRowsStay ==
  ASSUME Refusals, MediaInv, UNCHANGED <<now, input, todo>>,
         \A a \in Assets : InComment(a) \subseteq InComment(a)',
         \A a \in Listed(input) : Follows(a),
         \A c \in Calls : pc'[c] = "notAccess" => pc[c] = "notAccess" \/ Refuses(c)
  PROVE  Refusals'
<1>1. now \in Nat /\ now' \in Nat /\ now' >= now
  BY DEF MediaInv, Shapes, SessionsOK
<1>2. QED
  BY <1>1, BarredStays

LEMMA CallsKeepRefusals ==
  ASSUME Refusals, MediaInv, NEW c \in Calls, Step(c) \/ Crash(c), UNCHANGED <<now, input>>
  PROVE  Refusals'
<1>1. Shapes /\ RowsOK /\ SessionsOK /\ Listed(input) \subseteq Assets
  BY ListedFacts DEF MediaInv, Shapes
<1>2. ASSUME NEW label, Goto(c, label), label # "notAccess" \/ Refuses(c)
      PROVE  \A d \in Calls : pc'[d] = "notAccess" => pc[d] = "notAccess" \/ Refuses(d)
  BY <1>1, <1>2 DEF Goto, SessionsOK
<1>3. ASSUME NEW label, Goto(c, label), label # "notAccess" \/ Refuses(c), UNCHANGED <<media, comment, todo>>
      PROVE  Refusals'
  BY <1>1, <1>2, <1>3, OtherRowsStay DEF InComment, Follows
<1>4. ASSUME NEW outcome, End(c, outcome), outcome # "notAccess" \/ Refuses(c)
      PROVE  Refusals'
  BY <1>3, <1>4 DEF End, rows, cleaning
<1>5. ASSUME NEW label, Look(c, label), label # "notAccess"
      PROVE  Refusals'
  BY <1>3, <1>5 DEF Look, rows, cleaning
<1>6. ASSUME NEW row, NEW label, Lock(c, row, label), label # "notAccess"
      PROVE  Refusals'
  BY <1>3, <1>6 DEF Lock, rows, cleaning
<1>7. CASE PutObject(c) \/ Discard(c)
  BY <1>3, <1>7 DEF PutObject, Discard, rows, cleaning
<1>8. CASE InsertAsset(c)
  <2>1. ~ IsComment(c)
    BY <1>1, <1>8 DEF InsertAsset, SessionsOK, LabelsOf
  <2>2. input[c].asset \notin Listed(input)
    BY <1>1, <2>1, UploadFacts DEF Listed, IsComment, Files
  <2>3. \A a \in Listed(input) : media'[a] = media[a]
    BY <1>1, <1>8, <2>2 DEF InsertAsset, RowsOK
  <2>4. \A d \in Calls : pc'[d] = "notAccess" => pc[d] = "notAccess" \/ Refuses(d)
    BY <1>2, <1>8 DEF InsertAsset
  <2>5. comment' = comment /\ todo' = todo
    BY <1>8 DEF InsertAsset, cleaning
  <2>6. QED
    BY <2>3, <2>4, <2>5, OtherRowsStay DEF InComment, Follows
<1>9. CASE FindComment(c) \/ InsertComment(c)
  <2>1. AnswerExisting(c) => Refusals'
    BY <1>4 DEF AnswerExisting
  <2>2. QED
    BY <1>4, <1>5, <1>6, <1>9, <2>1 DEF FindComment, InsertComment
<1>10. CASE LockMedia(c)
  BY <1>4, <1>5, <1>6, <1>10 DEF LockMedia, Refuses, Files
<1>11. CASE CommitComment(c)
  <2>1. /\ comment' = [x \in DOMAIN comment \cup {c} |-> IF x = c THEN input[c] ELSE comment[x]]
        /\ media' = [a \in Assets |-> IF a \in Files(c) THEN Attached(media[a]) ELSE media[a]]
        /\ \A a \in Files(c) : media[a].status = "temporary"
        /\ Goto(c, "notify") /\ c \notin DOMAIN comment /\ todo' = todo
    BY <1>11, CommitFacts DEF cleaning
  <2>2. \A a \in Listed(input) : Follows(a)
    BY <1>1, <2>1 DEF Follows, NoRow
  <2>3. \A a \in Assets : InComment(a) \subseteq InComment(a)'
    BY <2>1 DEF InComment
  <2>4. \A d \in Calls : pc'[d] = "notAccess" => pc[d] = "notAccess" \/ Refuses(d)
    BY <1>2, <2>1
  <2>5. QED
    BY <2>1, <2>2, <2>3, <2>4, OtherRowsStay
<1>12. CASE Notify(c)
  BY <1>3, <1>12 DEF Notify, rows, cleaning
<1>13. CASE Crash(c)
  BY <1>4, <1>13 DEF Crash
<1>14. QED
  BY <1>7, <1>8, <1>9, <1>10, <1>11, <1>12, <1>13 DEF Step

LEMMA CleanersKeepRefusals ==
  ASSUME Refusals, MediaInv, NEW w \in Cleaners, Clean(w) \/ CrashCleaner(w), UNCHANGED <<now, input>>
  PROVE  Refusals'
<1>1. /\ Shapes /\ RowsOK /\ SessionsOK /\ Listed(input) \subseteq Assets
      /\ now \in Nat /\ now' \in Nat /\ now' >= now
  BY ListedFacts DEF MediaInv, Shapes, SessionsOK
<1>2. ASSUME NEW label, Goto(w, label)
      PROVE  \A c \in Calls : pc'[c] = pc[c]
  BY <1>1, <1>2, CleanersAreNoCalls DEF Goto, SessionsOK
<1>3. \A c \in Calls : pc'[c] = pc[c]
  BY <1>2 DEF Clean, Find, Claim, DeleteObject, DeleteRow, GiveBack, CrashCleaner, Continue
<1>4. comment' = comment
  BY DEF Clean, Find, Claim, DeleteObject, DeleteRow, GiveBack, CrashCleaner, rows
<1>5. ASSUME \A a \in Listed(input) : Follows(a),
             \A a \in Listed(input), v \in Cleaners : a \in todo'[v] => a \in todo[v] \/ now >= Ttl
      PROVE  Refusals'
  BY <1>1, <1>3, <1>4, <1>5, BarredStays DEF InComment
<1>6. CASE Find(w)
  <2>1. PICK batch \in SUBSET Expired : todo' = [todo EXCEPT ![w] = batch]
    BY <1>6 DEF Find, kSubset
  <2>2. ASSUME NEW a \in Listed(input), a \in batch
        PROVE  now >= Ttl
    <3>1. media[a].status = "temporary" /\ media[a].expires <= now /\ a \in Assets
      BY <2>2 DEF Expired
    <3>2. media[a].expires \in Nat
      BY <1>1, <3>1 DEF RowsOK, MediaRows, NoRow
    <3>3. QED
      BY <1>1, <3>1, <3>2, MediaAssumption DEF Refusals, Standing
  <2>3. media' = media
    BY <1>6 DEF Find, rows
  <2>4. QED
    BY <1>1, <1>5, <2>1, <2>2, <2>3 DEF Follows, SessionsOK
<1>7. CASE Claim(w)
  <2>1. PICK b \in todo[w] :
          /\ todo' = [todo EXCEPT ![w] = @ \ {b}]
          /\ \/ /\ media[b].status = "temporary"
                /\ media' = [media EXCEPT ![b].status = "deleting"]
             \/ media' = media
    BY <1>7 DEF Claim, Claims
  <2>2. \A a \in Assets, v \in Cleaners : a \in todo'[v] => a \in todo[v]
    BY <1>1, <2>1 DEF SessionsOK
  <2>3. ASSUME NEW a \in Listed(input), a = b, media[a].status = "temporary",
               media' = [media EXCEPT ![b].status = "deleting"]
        PROVE  Follows(a)
    <3>1. now >= Ttl
      BY <2>3 DEF Refusals, Standing
    <3>2. a \in Assets /\ media[a] \in [status : {"temporary", "deleting"}, uploader : Users, expires : Nat]
      BY <1>1, <2>3 DEF RowsOK, MediaRows, NoRow
    <3>3. media'[a] = [media[a] EXCEPT !.status = "deleting"]
      BY <1>1, <2>3, <3>2 DEF RowsOK
    <3>4. media'[a].status = "deleting" /\ media'[a].uploader = media[a].uploader
      BY <3>2, <3>3
    <3>5. media[a] # NoRow /\ media'[a] # NoRow
      BY <2>3, <3>4 DEF NoRow
    <3>6. QED
      BY <3>1, <3>4, <3>5 DEF Follows
  <2>4. \A a \in Listed(input) : Follows(a)
    <3>1. ASSUME NEW a \in Listed(input), ~ (a = b /\ media' = [media EXCEPT ![b].status = "deleting"])
          PROVE  media'[a] = media[a]
      BY <1>1, <2>1, <3>1 DEF RowsOK
    <3>2. QED
      BY <2>1, <2>3, <3>1 DEF Follows
  <2>5. QED
    BY <1>1, <1>5, <2>2, <2>4
<1>8. CASE DeleteObject(w) \/ CrashCleaner(w)
  <2>1. media' = media /\ \A a \in Assets, v \in Cleaners : a \in todo'[v] => a \in todo[v]
    BY <1>1, <1>8 DEF DeleteObject, CrashCleaner, rows, cleaning, SessionsOK
  <2>2. QED
    BY <1>1, <1>5, <2>1 DEF Follows
<1>9. CASE DeleteRow(w)
  <2>1. \A a \in Assets : media'[a] \in {media[a], NoRow}
    BY <1>9 DEF DeleteRow
  <2>2. todo' = todo
    BY <1>9 DEF DeleteRow
  <2>3. QED
    BY <1>1, <1>5, <2>1, <2>2 DEF Follows
<1>10. CASE GiveBack(w)
  <2>1. \A a \in Assets : \/ media'[a] = media[a]
                          \/ media[a].status = "deleting" /\ media'[a] = GivenBack(media[a])
    BY <1>10 DEF GiveBack, Deleting
  <2>2. todo' = todo
    BY <1>10 DEF GiveBack
  <2>3. QED
    BY <1>1, <1>5, <2>1, <2>2 DEF Follows
<1>11. QED
  BY <1>6, <1>7, <1>8, <1>9, <1>10 DEF Clean

LEMMA RefusalsInit == Init => Refusals
<1> SUFFICES ASSUME Init
             PROVE  Refusals
  OBVIOUS
<1>1. MediaInv
  BY MediaInit
<1>2. Ttl \in Nat /\ Listed(input) \subseteq Assets
  BY <1>1, ListedFacts, MediaAssumption
<1>3. ASSUME NEW a \in Listed(input)
      PROVE  Standing(a)
  <2>1. media[a] = Temporary(Uploaded[a], Ttl)
    BY <1>2 DEF Init
  <2>2. media[a].uploader = Uploaded[a] /\ media[a].status = "temporary" /\ media[a].expires = Ttl
    BY <2>1 DEF Temporary
  <2>3. \A w \in Cleaners : todo[w] = {}
    BY DEF Init
  <2>4. QED
    BY <1>2, <2>2, <2>3 DEF Standing
<1>4. \A c \in Calls : pc[c] # "notAccess"
  BY DEF Init
<1>5. QED
  BY <1>3, <1>4 DEF Refusals, Refused

LEMMA RefusalsInvariant == Spec => []Refusals
<1>1. ASSUME Refusals, MediaInv, [Next]_vars
      PROVE  Refusals'
  <2>1. CASE Tick
    <3>1. now \in Nat /\ now' \in Nat /\ now' >= now
      <4>1. now \in Nat
        BY <1>1 DEF MediaInv, Shapes, SessionsOK
      <4>2. now' = now + 1
        BY <2>1 DEF Tick
      <4>3. QED
        BY <4>1, <4>2
    <3>2. UNCHANGED <<media, comment, todo, pc, input>>
      BY <2>1 DEF Tick, rows, cleaning
    <3>3. QED
      BY <1>1, <3>1, <3>2, BarredStays DEF InComment, Follows
  <2>2. CASE UNCHANGED vars
    <3>1. UNCHANGED <<media, comment, todo, pc, input, now>>
      BY <2>2 DEF vars, rows, cleaning
    <3>2. /\ \A a \in Assets : InComment(a) \subseteq InComment(a)'
          /\ \A a \in Listed(input) : Follows(a)
          /\ \A c \in Calls : pc'[c] = pc[c]
      BY <3>1 DEF InComment, Follows
    <3>3. QED
      BY <1>1, <3>1, <3>2, OtherRowsStay
  <2>3. QED
    BY <1>1, <2>1, <2>2, CallsKeepRefusals, CleanersKeepRefusals DEF Next
<1>2. QED
  BY <1>1, RefusalsInit, MediaInvariant, PTL DEF Spec

\* What createComment answers: whoever is told "created" or "returned" has the one comment
\* under his idempotency key and it has his payload, a conflict means that it has
\* another one, access is refused only for a file that is somebody else's, may have
\* expired or is shown by a comment (his own, if the first attempt was on its way),
\* and the seller is only notified of comments that are stored.
THEOREM CommentAnswersAreTrue == Spec => []AnswersAreTrue
<1>1. ASSUME MediaInv, Refusals
      PROVE  AnswersAreTrue
  <2>1. Shapes /\ RowsOK /\ CommentsOK
    BY <1>1 DEF MediaInv, Shapes
  <2>2. ASSUME NEW c \in Calls, input[c].kind = "comment"
        PROVE  LET Own == {x \in SameKey(c) : Payload(comment[x]) = Payload(input[c])}
               IN  /\ Cardinality(SameKey(c)) <= 1
                   /\ pc[c] \in {"notify", "created", "returned"} => Own # {}
                   /\ pc[c] = "conflict" => SameKey(c) # {} /\ Own = {}
                   /\ pc[c] = "notAccess" => \E a \in Range(input[c].media) : Barred(c, a)
    <3> DEFINE Own == {x \in SameKey(c) : Payload(comment[x]) = Payload(input[c])}
    <3>1. \A x, y \in SameKey(c) : x = y
      BY <2>1 DEF CommentsOK, SameKey
    <3>2. Cardinality(SameKey(c)) <= 1
      BY <3>1, AtMostOne
    <3>3. Answered(c)
      BY <1>1 DEF MediaInv, CallOK
    <3>4. ASSUME pc[c] \in {"notify", "created"}
          PROVE  c \in Own
      <4>1. c \in DOMAIN comment /\ comment[c] = input[c]
        BY <2>1, <3>3, <3>4 DEF Answered, RowsOK
      <4>2. QED
        BY <4>1 DEF SameKey
    <3>5. pc[c] \in {"notify", "created", "returned"} => Own # {}
      BY <3>3, <3>4 DEF Answered
    <3>6. pc[c] = "conflict" => SameKey(c) # {} /\ Own = {}
      BY <3>1, <3>3 DEF Answered
    <3>7. pc[c] = "notAccess" => \E a \in Range(input[c].media) : Barred(c, a)
      BY <1>1 DEF Refusals, Refused, Files
    <3>8. QED
      BY <3>2, <3>5, <3>6, <3>7
  <2>3. told \subseteq DOMAIN comment
    BY <2>1 DEF RowsOK
  <2>4. QED
    BY <2>2, <2>3 DEF AnswersAreTrue
<1>2. QED
  BY <1>1, MediaInvariant, RefusalsInvariant, PTL

-----------------------------------------------------------------------------
(* Waiting.                                                                *)

LEMMA NextToLock ==
  ASSUME MediaInv, NEW c \in Calls, pc[c] = "lockMedia", Unlocked(c) # {}
  PROVE  /\ NextAsset(c) \in Unlocked(c) /\ NextAsset(c) \in Assets /\ NextAsset(c) \in Nat
         /\ IsComment(c)
<1>1. IsComment(c) /\ Files(c) \subseteq Assets /\ Assets \subseteq Nat
  BY RequestFacts, MediaAssumption DEF MediaInv, Shapes, SessionsOK, LabelsOf
<1>2. Unlocked(c) \subseteq Files(c)
  BY DEF Unlocked, Files
<1>3. NextAsset(c) \in Unlocked(c)
  BY <1>1, <1>2, LeastNumber DEF NextAsset
<1>4. QED
  BY <1>1, <1>2, <1>3

\* A call waits for the next of its files, or for a key whose holder is about to commit.
LEMMA WaitFacts ==
  ASSUME MediaInv, NEW c \in Calls, NEW d \in Calls,
         WaitsFor([x \in Calls |-> Asking(x)], c, d)
  PROVE  /\ pc[c] \in {"lockMedia", "insertComment"}
         /\ pc[c] = "lockMedia" => Unlocked(c) # {} /\ Holds(d, AssetLock(NextAsset(c)), "X")
         /\ pc[c] = "insertComment" => pc[d] = "commit"
<1>1. PICK ask \in Asking(c) : d \in Blockers(c, ask[1], ask[2])
  BY DEF WaitsFor
<1>2. LocksOK /\ SessionsOK
  BY DEF MediaInv, Shapes
<1>3. CASE pc[c] = "lockMedia" /\ Unlocked(c) # {}
  <2>1. ask = <<AssetLock(NextAsset(c)), "X">>
    BY <1>1, <1>3 DEF Asking
  <2>2. AssetLock(NextAsset(c)) \in Rows
    BY <1>3, NextToLock, LockRows
  <2>3. Holds(d, AssetLock(NextAsset(c)), "X")
    BY <1>1, <1>2, <2>1, <2>2 DEF Blockers, LocksOK
  <2>4. QED
    BY <1>3, <2>3
<1>4. CASE pc[c] = "insertComment"
  <2>1. ask = <<KeyLock(c), "X">>
    BY <1>1, <1>4 DEF Asking
  <2>2. KeyLock(c) \in Rows
    BY <1>2, <1>4, KeyRows DEF SessionsOK, LabelsOf
  <2>3. Holds(d, KeyLock(c), "X")
    BY <1>1, <1>2, <2>1, <2>2 DEF Blockers, LocksOK
  <2>4. pc[d] = "commit"
    BY <2>2, <2>3, LockRows DEF MediaInv, CallOK, LocksOf
  <2>5. QED
    BY <1>4, <2>4
<1>5. CASE ~ (pc[c] = "lockMedia" /\ Unlocked(c) # {}) /\ pc[c] # "insertComment"
  <2>1. Asking(c) = {}
    BY <1>5 DEF Asking
  <2>2. QED
    BY <1>1, <2>1
<1>6. QED
  BY <1>3, <1>4, <1>5

\* Who keeps c from a file, and himself waits for one, waits for one of a higher id.
LEMMA WaitsRise ==
  ASSUME MediaInv, NEW c \in Calls, NEW d \in Calls, pc[c] = "lockMedia", Unlocked(c) # {},
         Holds(d, AssetLock(NextAsset(c)), "X"), pc[d] = "lockMedia", Unlocked(d) # {}
  PROVE  NextAsset(c) < NextAsset(d)
<1>1. NextAsset(c) \in Assets /\ AssetLock(NextAsset(c)) \in Rows
  BY NextToLock, LockRows
<1>2. NextAsset(d) \in Unlocked(d)
  BY NextToLock
<1>3. \E a \in Files(d) : AssetLock(NextAsset(c)) = AssetLock(a)
  BY <1>1 DEF MediaInv, CallOK, LocksOf
<1>4. NextAsset(c) \in Files(d)
  BY <1>3, LockRows
<1>5. QED
  BY <1>2, <1>4 DEF MediaInv, CallOK, InOrder

\* Calls of createComment that list the same files never wait for one another in a
\* circle: assets are locked by id (ORDER BY asset.id FOR UPDATE), and the insert
\* takes the idempotency key after them.
THEOREM NoCommentDeadlocks == Spec => []CommentsNeverDeadlock
<1>1. ASSUME MediaInv
      PROVE  CommentsNeverDeadlock
  <2> DEFINE asking == [c \in Calls |-> Asking(c)]
  <2>1. SUFFICES ASSUME NEW W \in Waits
                 PROVE  FALSE
    BY DEF CommentsNeverDeadlock
  <2> HIDE DEF asking
  <2>2. /\ W \subseteq Calls /\ W # {} /\ Stuck(asking, W)
        /\ \A V \in (SUBSET W) \ {{}, W} : ~ Stuck(asking, V)
    BY DEF Waits, Cycles, asking
  <2>3. \A c \in W : \E d \in W : WaitsFor(asking, c, d)
    BY <2>2 DEF Stuck
  <2>4. \A c \in W : pc[c] \in {"lockMedia", "insertComment"}
    BY <1>1, <2>2, <2>3, WaitFacts DEF asking
  <2>5. \A c \in W : pc[c] = "lockMedia" /\ Unlocked(c) # {}
    BY <1>1, <2>2, <2>3, <2>4, WaitFacts DEF asking
  <2>6. \A c, d \in W : WaitsFor(asking, c, d) => NextAsset(c) < NextAsset(d)
    <3>1. ASSUME NEW c \in W, NEW d \in W, WaitsFor(asking, c, d)
          PROVE  NextAsset(c) < NextAsset(d)
      <4>1. Holds(d, AssetLock(NextAsset(c)), "X")
        BY <1>1, <2>2, <2>5, <3>1, WaitFacts DEF asking
      <4>2. QED
        BY <1>1, <2>2, <2>5, <4>1, WaitsRise
    <3>2. QED
      BY <3>1
  <2>7. \A c \in W : NextAsset(c) \in Nat
    BY <1>1, <2>2, <2>5, NextToLock
  <2>8. PICK c \in W : TRUE
    BY <2>2
  <2> DEFINE V == {d \in W : NextAsset(c) < NextAsset(d)}
  <2>9. V # {} /\ c \notin V
    BY <2>3, <2>6, <2>7, <2>8
  <2>10. \A d \in V : \E e \in V : WaitsFor(asking, d, e)
    BY <2>3, <2>6, <2>7, <2>8
  <2>11. Stuck(asking, V)
    BY <2>10 DEF Stuck
  <2>12. V \in (SUBSET W) \ {{}, W}
    BY <2>8, <2>9
  <2>13. QED
    BY <2>2, <2>11, <2>12
<1>2. QED
  BY <1>1, MediaInvariant, PTL

-----------------------------------------------------------------------------
(* What is attached.                                                       *)

Keeps == \A a \in Assets : media[a].status = "attached" => media'[a] = media[a] /\ (a \in stored => a \in stored')

\* An upload fails before its asset is in a comment.
LEMMA UploadKeeps ==
  ASSUME MediaInv, NEW c \in Calls, PutObject(c) \/ InsertAsset(c) \/ Discard(c)
  PROVE  Keeps
<1>1. Shapes /\ RowsOK /\ SessionsOK /\ CommentsOK /\ CallOK(c)
  BY DEF MediaInv, Shapes
<1>2. ~ IsComment(c)
  BY <1>1 DEF PutObject, InsertAsset, Discard, SessionsOK, LabelsOf
<1>3. input[c].asset \in Assets
  BY <1>1, <1>2, RequestFacts
<1>4. media[input[c].asset].status # "attached"
  <2>1. ASSUME NEW x \in DOMAIN comment
        PROVE  input[c].asset \notin Range(comment[x].media)
    BY <1>1, <1>2, UploadFacts DEF RowsOK, Files
  <2>2. InComment(input[c].asset) = {}
    BY <2>1 DEF InComment
  <2>3. QED
    BY <1>1, <1>3, <2>2 DEF CommentsOK
<1>5. CASE PutObject(c)
  BY <1>5 DEF PutObject, rows, Keeps
<1>6. CASE InsertAsset(c)
  BY <1>1, <1>4, <1>6 DEF InsertAsset, RowsOK, Keeps
<1>7. CASE Discard(c)
  BY <1>4, <1>7 DEF Discard, rows, Keeps
<1>8. QED
  BY <1>5, <1>6, <1>7

LEMMA CommentKeeps ==
  ASSUME MediaInv, NEW c \in Calls,
         FindComment(c) \/ LockMedia(c) \/ InsertComment(c) \/ CommitComment(c) \/ Notify(c) \/ Crash(c)
  PROVE  Keeps
<1>1. CASE CommitComment(c)
  <2>1. /\ \A a \in Files(c) : media[a].status = "temporary"
        /\ media' = [a \in Assets |-> IF a \in Files(c) THEN Attached(media[a]) ELSE media[a]]
        /\ stored' = stored
    BY <1>1, CommitFacts
  <2>2. QED
    BY <2>1 DEF Keeps
<1>2. ASSUME NEW outcome, End(c, outcome)
      PROVE  media' = media /\ stored' = stored
  BY <1>2 DEF End, rows
<1>3. ASSUME NEW label, Look(c, label)
      PROVE  media' = media /\ stored' = stored
  BY <1>3 DEF Look, rows
<1>4. ASSUME NEW row, NEW label, Lock(c, row, label)
      PROVE  media' = media /\ stored' = stored
  BY <1>4 DEF Lock, rows
<1>5. AnswerExisting(c) => media' = media /\ stored' = stored
  BY <1>2 DEF AnswerExisting
<1>6. FindComment(c) => media' = media /\ stored' = stored
  BY <1>2, <1>3, <1>5 DEF FindComment
<1>7. LockMedia(c) => media' = media /\ stored' = stored
  BY <1>2, <1>3, <1>4 DEF LockMedia
<1>8. InsertComment(c) => media' = media /\ stored' = stored
  BY <1>4, <1>5 DEF InsertComment
<1>9. Notify(c) => media' = media /\ stored' = stored
  BY DEF Notify, rows
<1>10. Crash(c) => media' = media /\ stored' = stored
  BY <1>2 DEF Crash
<1>11. QED
  BY <1>1, <1>6, <1>7, <1>8, <1>9, <1>10 DEF Keeps

\* A cleaner only writes a temporary row, or one it has in hand.
LEMMA CleanerKeeps ==
  ASSUME MediaInv, NEW w \in Cleaners, Clean(w) \/ CrashCleaner(w)
  PROVE  Keeps
<1>1. RowsOK /\ \A a \in current[w] : a \in Assets /\ media[a].status # "attached"
  BY InHand DEF MediaInv, Shapes
<1>2. CASE Find(w) \/ CrashCleaner(w)
  BY <1>2 DEF Find, CrashCleaner, rows, Keeps
<1>3. CASE Claim(w)
  <2>1. PICK a \in todo[w] :
          IF Claims(w, a)
          THEN /\ media' = [media EXCEPT ![a].status = "deleting"]
               /\ current' = [current EXCEPT ![w] = {a}]
               /\ Goto(w, "deleteObject")
          ELSE Goto(w, IF todo'[w] = {} THEN "find" ELSE "claim") /\ UNCHANGED <<media, current>>
    BY <1>3 DEF Claim
  <2>2. stored' = stored
    BY <1>3 DEF Claim
  <2>3. CASE Claims(w, a)
    <3>1. media[a].status = "temporary" /\ \A b \in Assets \ {a} : media'[b] = media[b]
      BY <1>1, <2>1, <2>3 DEF Claims, RowsOK
    <3>2. QED
      BY <2>2, <3>1 DEF Keeps
  <2>4. CASE ~ Claims(w, a)
    BY <2>1, <2>2, <2>4 DEF Keeps
  <2>5. QED
    BY <2>3, <2>4
<1>4. CASE DeleteObject(w)
  BY <1>1, <1>4 DEF DeleteObject, rows, Keeps
<1>5. CASE DeleteRow(w)
  <2>1. /\ stored' = stored
        /\ media' = media \/ media' = [a \in Assets |-> IF a \in Deleting(w) THEN NoRow ELSE media[a]]
    BY <1>5 DEF DeleteRow
  <2>2. QED
    BY <1>1, <2>1 DEF Deleting, Keeps
<1>6. CASE GiveBack(w)
  <2>1. /\ stored' = stored
        /\ media' = [a \in Assets |-> IF a \in Deleting(w) THEN GivenBack(media[a]) ELSE media[a]]
    BY <1>6 DEF GiveBack
  <2>2. QED
    BY <1>1, <2>1 DEF Deleting, Keeps
<1>7. QED
  BY <1>2, <1>3, <1>4, <1>5, <1>6 DEF Clean

\* No step takes a file from the comment that shows it: neither a clean-up that found
\* the asset expired before createComment attached it (its UPDATE asks for
\* "temporary"), nor an upload that is rolled back, nor a retry after an error.
THEOREM AttachedStaysAttached == Spec => AttachedIsKept
<1>1. ASSUME MediaInv, [Next]_vars
      PROVE  Keeps
  <2>1. ASSUME NEW c \in Calls, Step(c) \/ Crash(c)
        PROVE  Keeps
    BY <1>1, <2>1, UploadKeeps, CommentKeeps DEF Step
  <2>2. ASSUME NEW w \in Cleaners, Clean(w) \/ CrashCleaner(w)
        PROVE  Keeps
    BY <1>1, <2>2, CleanerKeeps
  <2>3. CASE Tick \/ UNCHANGED vars
    BY <2>3 DEF Tick, vars, rows, Keeps
  <2>4. QED
    BY <1>1, <2>1, <2>2, <2>3 DEF Next
<1>2. QED
  BY <1>1, MediaInvariant, PTL DEF Spec, AttachedIsKept, Keeps
-----------------------------------------------------------------------------
(* Types: MediaInv gives the shapes; the bounds come from the guards.      *)

\* A file that is given back is so while it can still expire before the clock stops.
Bounded ==
  /\ now \in 0..MaxTime /\ failures \in 0..MaxFailures
  /\ abandoned \subseteq Assets
  /\ \A a \in Assets : media[a].status \in {"temporary", "deleting"} => media[a].expires \in 1..(MaxTime + Ttl)
  /\ \A w \in Cleaners : pc[w] = "giveBack" => now + RetryDelay <= MaxTime

\* What a row becomes: another of the same expiry, one that just begins, or one that has none.
Timely(a) ==
  \/ media'[a] = media[a]
  \/ media'[a].status \notin {"temporary", "deleting"}
  \/ /\ media[a].status \in {"temporary", "deleting"}
     /\ media'[a].expires = media[a].expires
  \/ media'[a].expires = now + Ttl
  \/ media'[a].expires = now + RetryDelay /\ now + RetryDelay <= MaxTime

LEMMA TimelyKeeps ==
  ASSUME Bounded, NEW a \in Assets, Timely(a)
  PROVE  media'[a].status \in {"temporary", "deleting"} => media'[a].expires \in 1..(MaxTime + Ttl)
<1>1. now \in 0..MaxTime /\ MaxTime \in Nat /\ Ttl \in Nat \ {0} /\ RetryDelay \in Nat \ {0}
  BY MediaAssumption DEF Bounded
<1>2. now + Ttl \in 1..(MaxTime + Ttl)
  BY <1>1
<1>3. now + RetryDelay <= MaxTime => now + RetryDelay \in 1..(MaxTime + Ttl)
  BY <1>1
<1>4. media[a].status \in {"temporary", "deleting"} => media[a].expires \in 1..(MaxTime + Ttl)
  BY DEF Bounded
<1>5. QED
  BY <1>2, <1>3, <1>4 DEF Timely

\* A step that keeps the clock.
LEMMA BoundedStep ==
  ASSUME Bounded, UNCHANGED now, abandoned' \subseteq Assets,
         failures' = failures \/ Fail, \A a \in Assets : Timely(a),
         \A w \in Cleaners : pc'[w] = "giveBack" => pc[w] = "giveBack" \/ Fail
  PROVE  Bounded'
<1>1. failures' \in 0..MaxFailures
  BY MediaAssumption DEF Bounded, Fail
<1>2. Fail => now + RetryDelay <= MaxTime
  BY DEF Fail
<1>3. QED
  BY <1>1, <1>2, TimelyKeeps DEF Bounded

LEMMA CallsAreBounded ==
  ASSUME MediaInv, Bounded, NEW c \in Calls, Step(c) \/ Crash(c), UNCHANGED now
  PROVE  Bounded'
<1>1. /\ pc \in [Calls \cup Cleaners -> Labels] /\ media \in [Assets -> MediaRows]
      /\ abandoned \subseteq Assets
  BY DEF MediaInv, Shapes, SessionsOK, RowsOK, Bounded
<1>2. ASSUME NEW label, Goto(c, label)
      PROVE  \A w \in Cleaners : pc'[w] = pc[w]
  BY <1>1, <1>2, CleanersAreNoCalls DEF Goto
<1>3. ASSUME UNCHANGED <<media, abandoned>>, NEW label, Goto(c, label), failures' = failures \/ Fail
      PROVE  Bounded'
  BY <1>1, <1>2, <1>3, BoundedStep DEF Timely
<1>4. ASSUME NEW outcome, End(c, outcome)
      PROVE  Bounded'
  BY <1>3, <1>4 DEF End, rows, cleaning
<1>5. ASSUME NEW label, Look(c, label)
      PROVE  Bounded'
  BY <1>3, <1>5 DEF Look, rows, cleaning
<1>6. ASSUME NEW row, NEW label, Lock(c, row, label)
      PROVE  Bounded'
  BY <1>3, <1>6 DEF Lock, rows, cleaning
<1>7. CASE PutObject(c) \/ Discard(c)
  BY <1>3, <1>7 DEF PutObject, Discard, rows, cleaning
<1>8. CASE InsertAsset(c)
  <2>1. \A a \in Assets : Timely(a)
    BY <1>1, <1>8 DEF InsertAsset, Timely, Temporary
  <2>2. QED
    BY <1>1, <1>2, <1>8, <2>1, BoundedStep DEF InsertAsset, cleaning
<1>9. CASE FindComment(c) \/ LockMedia(c) \/ InsertComment(c)
  BY <1>4, <1>5, <1>6, <1>9 DEF FindComment, LockMedia, InsertComment, AnswerExisting
<1>10. CASE CommitComment(c)
  <2>1. CASE \E outcome : End(c, outcome)
    BY <1>4, <2>1
  <2>2. CASE ~ \E outcome : End(c, outcome)
    <3>1. /\ media' = [a \in Assets |-> IF a \in Range(input[c].media) THEN Attached(media[a]) ELSE media[a]]
          /\ Goto(c, "notify") /\ UNCHANGED <<failures, cleaning>>
      BY <1>10, <2>2 DEF CommitComment
    <3>2. \A a \in Assets : Timely(a)
      BY <3>1 DEF Timely, Attached
    <3>3. QED
      BY <1>1, <1>2, <3>1, <3>2, BoundedStep DEF cleaning
  <2>3. QED
    BY <2>1, <2>2
<1>11. CASE Notify(c)
  BY <1>3, <1>11 DEF Notify, rows, cleaning
<1>12. CASE Crash(c)
  BY <1>4, <1>12 DEF Crash
<1>13. QED
  BY <1>7, <1>8, <1>9, <1>10, <1>11, <1>12 DEF Step

LEMMA CleanersAreBounded ==
  ASSUME MediaInv, Bounded, NEW w \in Cleaners, Clean(w) \/ CrashCleaner(w), UNCHANGED now
  PROVE  Bounded'
<1>1. /\ pc \in [Calls \cup Cleaners -> Labels] /\ media \in [Assets -> MediaRows]
      /\ abandoned \subseteq Assets /\ current \in [Cleaners -> SUBSET Assets]
  BY DEF MediaInv, Shapes, SessionsOK, RowsOK, Bounded
<1>2. ASSUME NEW label, Goto(w, label), label # "giveBack" \/ Fail
      PROVE  \A v \in Cleaners : pc'[v] = "giveBack" => pc[v] = "giveBack" \/ Fail
  BY <1>1, <1>2 DEF Goto
<1>3. ASSUME Continue(w)
      PROVE  \A v \in Cleaners : pc'[v] = "giveBack" => pc[v] = "giveBack" \/ Fail
  BY <1>2, <1>3 DEF Continue
<1>4. CASE Find(w)
  BY <1>1, <1>2, <1>4, BoundedStep DEF Find, rows, Timely
<1>5. CASE Claim(w)
  <2>1. \A a \in Assets : Timely(a)
    <3>1. ASSUME NEW b \in Assets, media[b].status = "temporary", media' = [media EXCEPT ![b].status = "deleting"]
          PROVE  \A a \in Assets : Timely(a)
      <4>1. media'[b].expires = media[b].expires
        BY <1>1, <3>1 DEF MediaRows, NoRow
      <4>2. QED
        BY <1>1, <3>1, <4>1 DEF Timely
    <3>2. todo[w] \subseteq Assets
      BY DEF MediaInv, Shapes, SessionsOK
    <3>3. QED
      BY <1>5, <3>1, <3>2 DEF Claim, Claims, Timely
  <2>2. \A v \in Cleaners : pc'[v] = "giveBack" => pc[v] = "giveBack" \/ Fail
    BY <1>2, <1>5 DEF Claim
  <2>3. QED
    BY <1>1, <1>5, <2>1, <2>2, BoundedStep DEF Claim
<1>6. CASE DeleteObject(w)
  <2>1. \A v \in Cleaners : pc'[v] = "giveBack" => pc[v] = "giveBack" \/ Fail
    BY <1>2, <1>6 DEF DeleteObject
  <2>2. QED
    BY <1>1, <1>6, <2>1, BoundedStep DEF DeleteObject, rows, cleaning, Timely
<1>7. CASE DeleteRow(w)
  <2>1. \A a \in Assets : Timely(a)
    BY <1>1, <1>7 DEF DeleteRow, Timely, NoRow
  <2>2. \A v \in Cleaners : pc'[v] = "giveBack" => pc[v] = "giveBack" \/ Fail
    BY <1>2, <1>3, <1>7 DEF DeleteRow
  <2>3. QED
    BY <1>1, <1>7, <2>1, <2>2, BoundedStep DEF DeleteRow
<1>8. CASE GiveBack(w)
  <2>1. now + RetryDelay <= MaxTime
    BY <1>8 DEF GiveBack, Bounded
  <2>2. \A a \in Assets : Timely(a)
    BY <1>1, <1>8, <2>1 DEF GiveBack, GivenBack, Temporary, Timely
  <2>3. \A v \in Cleaners : pc'[v] = "giveBack" => pc[v] = "giveBack" \/ Fail
    BY <1>3, <1>8 DEF GiveBack
  <2>4. QED
    BY <1>1, <1>8, <2>2, <2>3, BoundedStep DEF GiveBack
<1>9. CASE CrashCleaner(w)
  <2>1. abandoned' \subseteq Assets
    BY <1>1, <1>9 DEF CrashCleaner
  <2>2. \A v \in Cleaners : pc'[v] = "giveBack" => pc[v] = "giveBack" \/ Fail
    BY <1>2, <1>9 DEF CrashCleaner
  <2>3. QED
    BY <1>9, <2>1, <2>2, BoundedStep DEF CrashCleaner, rows, Timely
<1>10. QED
  BY <1>4, <1>5, <1>6, <1>7, <1>8, <1>9 DEF Clean

LEMMA TickIsBounded ==
  ASSUME Bounded, Tick
  PROVE  Bounded'
<1>1. now' \in 0..MaxTime /\ now' = now + 1
  BY MediaAssumption DEF Bounded, Tick
<1>2. ASSUME NEW w \in Cleaners, pc[w] = "giveBack"
      PROVE  now' + RetryDelay <= MaxTime
  <2>1. now + RetryDelay < MaxTime
    BY <1>2 DEF Tick
  <2>2. now \in Nat /\ RetryDelay \in Nat /\ MaxTime \in Nat
    BY MediaAssumption DEF Bounded
  <2>3. QED
    BY <1>1, <2>1, <2>2
<1>3. QED
  BY <1>1, <1>2 DEF Bounded, Tick, rows, cleaning

LEMMA InitIsBounded ==
  ASSUME Init
  PROVE  Bounded
<1>1. MaxTime \in Nat /\ MaxFailures \in Nat /\ Ttl \in Nat \ {0}
  BY MediaAssumption
<1>2. Ttl \in 1..(MaxTime + Ttl) /\ now \in 0..MaxTime /\ failures \in 0..MaxFailures
  BY <1>1 DEF Init
<1>3. \A a \in Assets : media[a].status \in {"temporary", "deleting"} => media[a].expires = Ttl
  BY DEF Init, Temporary, NoRow
<1>4. \A w \in Cleaners : pc[w] = "find"
  BY DEF Init
<1>5. QED
  BY <1>2, <1>3, <1>4 DEF Bounded, Init

\* Rows of media_assets obey chk_media_assets_lifecycle: an attached file does not
\* expire, any other does, and no error gives a file back for longer than an upload
\* has; sessions, cleaners and locks keep their types.
THEOREM MediaTyping == Spec => []TypeOK
<1>1. ASSUME MediaInv, Bounded, [Next]_vars
      PROVE  Bounded'
  <2>1. CASE UNCHANGED vars
    BY <1>1, <2>1 DEF vars, rows, cleaning, Bounded
  <2>2. QED
    BY <1>1, <2>1, CallsAreBounded, CleanersAreBounded, TickIsBounded DEF Next
<1>2. ASSUME MediaInv, Bounded
      PROVE  TypeOK
  <2>1. Shapes /\ RowsOK /\ SessionsOK /\ LocksOK
    BY <1>2 DEF MediaInv, Shapes
  <2>2. ASSUME NEW a \in Assets
        PROVE  media[a] \in {NoRow} \cup [status : {"attached"}, uploader : Users]
                 \cup [status : {"temporary", "deleting"}, uploader : Users, expires : 1..(MaxTime + Ttl)]
    <3>1. media[a] \in MediaRows
      BY <2>1 DEF RowsOK
    <3>2. media[a].status \in {"temporary", "deleting"} => media[a].expires \in 1..(MaxTime + Ttl)
      BY <1>2 DEF Bounded
    <3>3. QED
      BY <3>1, <3>2 DEF MediaRows
  <2>3. media \in [Assets -> {NoRow} \cup [status : {"attached"}, uploader : Users]
                     \cup [status : {"temporary", "deleting"}, uploader : Users, expires : 1..(MaxTime + Ttl)]]
    BY <2>1, <2>2 DEF RowsOK
  <2>4. \A c \in Calls : pc[c] \in Statements \cup Outcomes
    <3>1. \A c \in Calls : LabelsOf(c) \subseteq Statements \cup Outcomes
      BY DEF LabelsOf, Statements, Outcomes
    <3>2. QED
      BY <2>1, <3>1 DEF SessionsOK
  <2>5. DOMAIN comment \subseteq Calls /\ told \subseteq Calls
    BY <2>1 DEF RowsOK
  <2>6. QED
    BY <1>2, <2>1, <2>3, <2>4, <2>5 DEF TypeOK, RowsOK, SessionsOK, LocksOK, Bounded
<1>3. QED
  BY <1>1, <1>2, InitIsBounded, MediaInvariant, PTL DEF Spec
=============================================================================
