-------------------------------- MODULE Media --------------------------------
(***************************************************************************)
(* Files of product comments: uploadCommentMedia, createComment and        *)
(* cleanupExpiredTemporaryMedia, statement by statement.                   *)
(*                                                                         *)
(* A file is put into the object storage and then registered as a          *)
(* temporary asset with a time to live.  A comment locks the assets it     *)
(* lists, checks that they are its author's and still temporary, and       *)
(* attaches them.  Cleaners claim temporary assets that have expired,      *)
(* delete the object, then the row; after an error they make the asset     *)
(* temporary again, for a short while.                                     *)
(***************************************************************************)
EXTENDS FiniteSetsExt, Functions, Sequences

CONSTANTS Users,         \* authors of comments
          Assets,        \* files, by id
          Videos,        \* those that are videos
          Keys,          \* idempotency keys of comments
          Texts,         \* product and content of a comment
          Calls,         \* concurrent requests; a comment is named after its creator
          Cleaners,      \* concurrent runs of the clean-up
          Uploaded,      \* uploaders of the files comments list
          Workloads,     \* what the calls may ask for
          Ttl,           \* how long an upload stays temporary
          RetryDelay,    \* how long it stays so after a failed clean-up
          BatchSize,     \* assets a clean-up takes
          MaxTime,       \* the clock stops here
          MaxFailures    \* errors of the storage or database, and crashes of cleaners

Requests ==
  [kind : {"comment"}, user : Users, key : Keys, text : Texts, media : Seq(Assets)]
    \cup [kind : {"upload"}, user : Users, asset : Assets]

\* The files the comments of a workload list.
Listed(w) == UNION {Range(w[c].media) : c \in {d \in Calls : w[d].kind = "comment"}}

\* Each of its uploads gets an id of its own, which no request knows before it is told.
Uploads(w) == {c \in Calls : w[c].kind = "upload"}

ASSUME MediaAssumption ==
  /\ Assets \subseteq Nat /\ Videos \subseteq Assets
  /\ Calls \cap Cleaners = {}
  /\ DOMAIN Uploaded \subseteq Assets /\ Range(Uploaded) \subseteq Users
  /\ Workloads \subseteq [Calls -> Requests]
  /\ \A w \in Workloads :
       /\ Listed(w) \subseteq DOMAIN Uploaded
       /\ \A c, d \in Uploads(w) : w[c].asset \notin Listed(w) /\ (w[c].asset = w[d].asset => c = d)
  /\ Ttl \in Nat \ {0} /\ RetryDelay \in Nat \ {0} /\ BatchSize \in Nat \ {0}
  /\ MaxTime \in Nat /\ MaxFailures \in Nat

Rows == ({"asset"} \X Assets) \cup ({"key"} \X Users \X Keys)

VARIABLES media,      \* rows of media_assets
          stored,     \* objects in the storage
          comment,    \* committed comments with their comment_media
          told,       \* comments the seller was notified of
          now,        \* the clock
          failures,   \* errors and crashes so far
          abandoned,  \* assets whose cleaner crashed or could not give them back
          input,      \* what each call asks for
          pc,         \* next statement of each call and cleaner, or its outcome
          todo,       \* candidates each cleaner has left
          current,    \* the asset each cleaner has claimed
          locks       \* row locks

INSTANCE Database WITH isolation <- "REPEATABLE READ"

rows == <<media, comment>>
cleaning == <<abandoned, todo, current>>
vars == <<rows, stored, told, now, failures, cleaning, input, pc, locks>>

NoRow == [status |-> "none"]
Temporary(user, expires) == [status |-> "temporary", uploader |-> user, expires |-> expires]

Statements ==
  {"putObject", "insertAsset", "discard", "findComment", "lockMedia", "insertComment",
   "commit", "notify"}
\* "failed": an error that says nothing of the key or the files, or no answer.
Outcomes ==
  {"uploaded", "created", "returned", "conflict", "notAccess", "failed"}
CleanerStatements == {"find", "claim", "deleteObject", "deleteRow", "giveBack"}

\* chk_media_assets_lifecycle: an attached asset does not expire, the others do.
TypeOK ==
  /\ media \in [Assets -> {NoRow} \cup [status : {"attached"}, uploader : Users]
                  \cup [status : {"temporary", "deleting"}, uploader : Users, expires : 1..(MaxTime + Ttl)]]
  /\ stored \subseteq Assets
  /\ DOMAIN comment \subseteq Calls
  /\ told \subseteq Calls
  /\ now \in 0..MaxTime /\ failures \in 0..MaxFailures
  /\ abandoned \subseteq Assets
  /\ \A c \in Calls : pc[c] \in Statements \cup Outcomes
  /\ \A w \in Cleaners : pc[w] \in CleanerStatements
  /\ todo \in [Cleaners -> SUBSET Assets]
  /\ current \in [Cleaners -> SUBSET Assets]
  /\ LocksTypeOK

\* They have been uploaded just now.
Init ==
  /\ input \in Workloads
  /\ stored = Listed(input)
  /\ media = [a \in Assets |-> IF a \in stored THEN Temporary(Uploaded[a], Ttl) ELSE NoRow]
  /\ comment = << >>
  /\ told = {}
  /\ now = 0
  /\ failures = 0
  /\ abandoned = {}
  /\ pc = [c \in Calls \cup Cleaners |-> IF c \in Cleaners THEN "find"
             ELSE IF input[c].kind = "comment" THEN "findComment" ELSE "putObject"]
  /\ todo = [w \in Cleaners |-> {}]
  /\ current = [w \in Cleaners |-> {}]
  /\ locks = NoLocks

-----------------------------------------------------------------------------
AssetLock(a) == <<"asset", a>>
KeyLock(c) == <<"key", input[c].user, input[c].key>>

Goto(p, label) == pc' = [pc EXCEPT ![p] = label]

\* The call ends; what its transaction has not committed is rolled back.
End(c, outcome) ==
  /\ Goto(c, outcome)
  /\ ReleaseLocks(c)
  /\ UNCHANGED <<rows, stored, told, failures, cleaning>>

\* A statement that neither writes nor locks.
Look(c, label) == Goto(c, label) /\ UNCHANGED <<rows, stored, told, failures, cleaning, locks>>

Lock(c, row, label) ==
  /\ Acquire(c, row, "X")
  /\ Goto(c, label)
  /\ UNCHANGED <<rows, stored, told, failures, cleaning>>

\* An error of the storage or the database, while there is time for what it delays.
Fail ==
  /\ failures < MaxFailures
  /\ now + RetryDelay <= MaxTime
  /\ failures' = failures + 1

-----------------------------------------------------------------------------
\* An upload whose request to the storage fails may have stored the object.
PutObject(c) ==
  LET a == input[c].asset
  IN  /\ pc[c] = "putObject"
      /\ \/ stored' = stored \cup {a} /\ Goto(c, "insertAsset") /\ UNCHANGED failures
         \/ stored' \in {stored, stored \cup {a}} /\ Goto(c, "discard") /\ Fail
      /\ UNCHANGED <<rows, told, cleaning, locks>>

\* An insert that is reported to have failed may have been done.
InsertAsset(c) ==
  LET inserted == [media EXCEPT ![input[c].asset] = Temporary(input[c].user, now + Ttl)]
  IN  /\ pc[c] = "insertAsset"
      /\ \/ media' = inserted /\ Goto(c, "uploaded") /\ UNCHANGED failures
         \/ media' \in {media, inserted} /\ Goto(c, "discard") /\ Fail
      /\ UNCHANGED <<comment, stored, told, cleaning, locks>>

\* deleteObjectQuietly: an error is only logged.
Discard(c) ==
  /\ pc[c] = "discard"
  /\ \/ stored' = stored \ {input[c].asset} /\ UNCHANGED failures
     \/ UNCHANGED stored /\ Fail
  /\ Goto(c, "failed")
  /\ UNCHANGED <<rows, told, cleaning, locks>>

-----------------------------------------------------------------------------
\* request_hash
Payload(r) == <<r.text, r.media>>

\* The committed comment, if any, of c's user under c's key.
SameKey(c) == {x \in DOMAIN comment : comment[x].user = input[c].user /\ comment[x].key = input[c].key}

\* Mutant of AnswerExisting: whatever has the key is returned.
AnswerExistingAny(c) == End(c, "returned")

AnswerExisting(c) ==
  \E x \in SameKey(c) :
    End(c, IF Payload(comment[x]) = Payload(input[c]) THEN "returned" ELSE "conflict")

\* Plain reads of one view: the key, then user, product, blocks and a delivered
\* purchase, whose answer is left open.
FindComment(c) ==
  /\ pc[c] = "findComment"
  /\ \/ AnswerExisting(c)
     \/ SameKey(c) = {} /\ (Look(c, "lockMedia") \/ End(c, "failed"))

\* The rows of c's assets that c has not locked.
Unlocked(c) ==
  {a \in Range(input[c].media) : media[a] # NoRow /\ ~Holds(c, AssetLock(a), "X")}

\* Mutant of NextAsset: in the order of the request.
NextAssetAsListed(c) == SelectSeq(input[c].media, LAMBDA a : a \in Unlocked(c))[1]

\* ORDER BY asset.id FOR UPDATE
NextAsset(c) == Min(Unlocked(c))

Usable(c, a) ==
  /\ media[a].status = "temporary"
  /\ media[a].uploader = input[c].user
  /\ media[a].expires > now

\* One video, or images only.
Mixed(files) == files \cap Videos # {} /\ Cardinality(files) # 1

LockMedia(c) ==
  LET files == Range(input[c].media)
  IN  /\ pc[c] = "lockMedia"
      /\ IF Unlocked(c) # {} THEN Lock(c, AssetLock(NextAsset(c)), "lockMedia")
         ELSE \/ (\E a \in files : media[a] = NoRow) /\ End(c, "failed")
              \/ /\ \A a \in files : media[a] # NoRow
                 /\ \/ (\E a \in files : ~Usable(c, a)) /\ End(c, "notAccess")
                    \/ (\A a \in files : Usable(c, a)) /\ Mixed(files) /\ End(c, "failed")
                    \/ (\A a \in files : Usable(c, a)) /\ ~Mixed(files) /\ Look(c, "insertComment")

\* uq_comments_user_idempotency: the insert waits for one of the same key; when
\* the key is taken the comment that has it is looked up after the rollback.
InsertComment(c) ==
  /\ pc[c] = "insertComment"
  /\ Blockers(c, KeyLock(c), "X") = {}
  /\ IF SameKey(c) = {} THEN Lock(c, KeyLock(c), "commit") ELSE AnswerExisting(c)

\* Mutant of Attached: the asset stays temporary.
AttachedNot(row) == row

Attached(row) == [status |-> "attached", uploader |-> row.uploader]

\* Links the assets and marks them attached: each must be in no other comment
\* (uq_comment_media_asset) and still temporary (affected).
CommitComment(c) ==
  LET files == Range(input[c].media)
  IN  /\ pc[c] = "commit"
      /\ IF \E a \in files : \/ media[a].status # "temporary"
                             \/ \E x \in DOMAIN comment : a \in Range(comment[x].media)
         THEN End(c, "conflict")
         ELSE /\ comment' = [x \in DOMAIN comment \cup {c} |->
                              IF x = c THEN input[c] ELSE comment[x]]
              /\ media' = [a \in Assets |-> IF a \in files THEN Attached(media[a]) ELSE media[a]]
              /\ Goto(c, "notify")
              /\ ReleaseLocks(c)
              /\ UNCHANGED <<stored, told, failures, cleaning>>

\* After the commit the seller is notified; an error is only logged.
Notify(c) ==
  /\ pc[c] = "notify"
  /\ told' \in {told, told \cup {c}}
  /\ Goto(c, "created")
  /\ UNCHANGED <<rows, stored, failures, cleaning, locks>>

Step(c) ==
  \/ PutObject(c)
  \/ InsertAsset(c)
  \/ Discard(c)
  \/ FindComment(c)
  \/ LockMedia(c)
  \/ InsertComment(c)
  \/ CommitComment(c)
  \/ Notify(c)

-----------------------------------------------------------------------------
Expired == {a \in Assets : media[a].status = "temporary" /\ media[a].expires <= now}

\* The timer and the start of a process begin a clean-up: the first ones to expire.
Find(w) ==
  /\ pc[w] = "find"
  /\ \E batch \in kSubset(Min({BatchSize, Cardinality(Expired)}), Expired) \ {{}} :
       /\ \A a \in batch, b \in Expired \ batch : media[a].expires <= media[b].expires
       /\ todo' = [todo EXCEPT ![w] = batch]
  /\ Goto(w, "claim")
  /\ UNCHANGED <<rows, stored, told, failures, abandoned, current, locks>>

\* Mutant of Claims: the claim does not depend on the status.
ClaimsAny(w, a) == media[a] # NoRow

\* UPDATE ... WHERE status = temporary: whether it affects the row of a candidate.
Claims(w, a) == media[a].status = "temporary"

\* The cleaner has done with its asset and goes on with the next candidate.
Continue(w) ==
  /\ Goto(w, IF todo[w] = {} THEN "find" ELSE "claim")
  /\ current' = [current EXCEPT ![w] = {}]

\* A statement of its own transaction: it waits for a comment that has the asset.
Claim(w) ==
  /\ pc[w] = "claim"
  /\ \E a \in todo[w] :
       /\ Blockers(w, AssetLock(a), "X") = {}
       /\ todo' = [todo EXCEPT ![w] = @ \ {a}]
       /\ IF Claims(w, a)
          THEN /\ media' = [media EXCEPT ![a].status = "deleting"]
               /\ current' = [current EXCEPT ![w] = {a}]
               /\ Goto(w, "deleteObject")
          ELSE Goto(w, IF todo'[w] = {} THEN "find" ELSE "claim") /\ UNCHANGED <<media, current>>
  /\ UNCHANGED <<comment, stored, told, failures, abandoned, locks>>

\* A deletion that is reported to have failed may have been done.
DeleteObject(w) ==
  /\ pc[w] = "deleteObject"
  /\ \/ stored' = stored \ current[w] /\ Goto(w, "deleteRow") /\ UNCHANGED failures
     \/ stored' \in {stored, stored \ current[w]} /\ Goto(w, "giveBack") /\ Fail
  /\ UNCHANGED <<rows, told, cleaning, locks>>

Deleting(w) == {a \in current[w] : media[a].status = "deleting"}

DeleteRow(w) ==
  LET deleted == [a \in Assets |-> IF a \in Deleting(w) THEN NoRow ELSE media[a]]
  IN  /\ pc[w] = "deleteRow"
      /\ \/ media' = deleted /\ Continue(w) /\ UNCHANGED failures
         \/ media' \in {media, deleted} /\ Goto(w, "giveBack") /\ Fail /\ UNCHANGED current
      /\ UNCHANGED <<comment, stored, told, abandoned, todo, locks>>

\* Mutant of GivenBack: the asset is left to the cleaner that failed.
GivenBackNot(row) == row

GivenBack(row) == Temporary(row.uploader, now + RetryDelay)

GiveBack(w) ==
  /\ pc[w] = "giveBack"
  /\ media' = [a \in Assets |-> IF a \in Deleting(w) THEN GivenBack(media[a]) ELSE media[a]]
  /\ Continue(w)
  /\ UNCHANGED <<comment, stored, told, failures, abandoned, todo, locks>>

Clean(w) ==
  \/ Find(w)
  \/ Claim(w)
  \/ DeleteObject(w)
  \/ DeleteRow(w)
  \/ GiveBack(w)

\* The process of a cleaner is lost and starts again, or giving an asset back
\* fails, which ends this clean-up.
CrashCleaner(w) ==
  /\ pc[w] # "find"
  /\ Fail
  /\ abandoned' = abandoned \cup current[w]
  /\ todo' = [todo EXCEPT ![w] = {}]
  /\ current' = [current EXCEPT ![w] = {}]
  /\ Goto(w, "find")
  /\ UNCHANGED <<rows, stored, told, locks>>

-----------------------------------------------------------------------------
\* The row locks the current statement of c is asking for.
Asking(c) ==
  CASE pc[c] = "lockMedia" /\ Unlocked(c) # {} -> {<<AssetLock(NextAsset(c)), "X">>}
    [] pc[c] = "insertComment" -> {<<KeyLock(c), "X">>}
    [] OTHER -> {}

Waits == Cycles([c \in Calls |-> Asking(c)])

Crash(c) == pc[c] \in Statements /\ End(c, "failed")

\* Time does not pass so far that a file that is given back could not expire again.
Tick ==
  /\ now < MaxTime
  /\ \A w \in Cleaners : pc[w] = "giveBack" => now + RetryDelay < MaxTime
  /\ now' = now + 1
  /\ UNCHANGED <<rows, stored, told, failures, cleaning, input, pc, locks>>

Ended ==
  /\ \A c \in Calls : pc[c] \in Outcomes
  /\ \A w \in Cleaners : pc[w] = "find"
  /\ now = MaxTime /\ Expired = {}

Next ==
  \/ /\ \/ \E c \in Calls : Step(c) \/ Crash(c)
        \/ \E w \in Cleaners : Clean(w) \/ CrashCleaner(w)
     /\ UNCHANGED <<now, input>>
  \/ Tick
  \/ Ended /\ UNCHANGED vars

Spec == Init /\ [][Next]_vars

\* Some statement is executed whenever one can be, the timer starts a clean-up
\* again and again, time passes.
FairSpec ==
  /\ Spec
  /\ WF_vars((\E c \in Calls : Step(c)) /\ UNCHANGED <<now, input>>)
  /\ WF_vars((\E w \in Cleaners : Clean(w)) /\ UNCHANGED <<now, input>>)
  /\ WF_vars(Tick)

-----------------------------------------------------------------------------
InComment(a) == {x \in DOMAIN comment : a \in Range(comment[x].media)}

\* "One upload is attached to one comment only" (comment_media in
\* database_schema.dbml): an asset is attached if and only if exactly one comment
\* shows it, which is its uploader's; and its file is there, whoever expires and
\* cleans while the comment is written, as long as there was no error.
ShownOnce ==
  \A a \in Assets :
    /\ Cardinality(InComment(a)) = IF media[a].status = "attached" THEN 1 ELSE 0
    /\ \A x \in InComment(a) : comment[x].user = media[a].uploader
    /\ failures = 0 /\ InComment(a) # {} => a \in stored

\* A file that c may find it has no access to: somebody else's, one that has had
\* the time to expire, or one that a comment shows.
Barred(c, a) == Uploaded[a] # input[c].user \/ now >= Ttl \/ InComment(a) # {}

\* Whoever is told "created" or "returned" has a comment with his payload under
\* his key; a conflict is reported only for another payload; access is refused
\* only if a file is barred; and the seller only hears of stored comments.  The
\* comment that bars a file may be c's own, with c's key and payload: a retry that
\* looked for the key before the first attempt was committed is refused too, and
\* is not returned the old comment that database_schema.dbml:572 promises it.
AnswersAreTrue ==
  /\ told \subseteq DOMAIN comment
  /\ \A c \in Calls : input[c].kind = "comment" =>
       LET Own == {x \in SameKey(c) : Payload(comment[x]) = Payload(input[c])}
       IN  /\ Cardinality(SameKey(c)) <= 1
           /\ pc[c] \in {"notify", "created", "returned"} => Own # {}
           /\ pc[c] = "conflict" => SameKey(c) # {} /\ Own = {}
           /\ pc[c] = "notAccess" => \E a \in Range(input[c].media) : Barred(c, a)

\* Comments that share files are written one after the other and never deadlock:
\* files are locked by id, and before the key.
CommentsNeverDeadlock == Waits = {}

\* Nothing takes a file from a comment, not even after errors and crashes.
AttachedIsKept ==
  [][\A a \in Assets : media[a].status = "attached" =>
       media'[a] = media[a] /\ (a \in stored => a \in stored')]_<<media, stored>>

\* The clean-up catches up again and again: no temporary file is left that has
\* expired or is half deleted, errors or not, but those whose cleaner was lost.
CleanUpCatchesUp ==
  []<>(Expired \cup {a \in Assets : media[a].status = "deleting"} \subseteq abandoned)

=============================================================================
