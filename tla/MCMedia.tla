------------------------------- MODULE MCMedia -------------------------------
(***************************************************************************)
(* Instances of Media for TLC: two users, two images and a video that     *)
(* expire after one tick, two requests and two cleaners at once.           *)
(***************************************************************************)
EXTENDS Media, TLC

CONSTANTS c1, c2, w1, w2, u1, u2

MCUsers == {u1, u2}
MCCalls == {c1, c2}
MCCleaners == {w1, w2}
MCUploaded == 1 :> u1 @@ 2 :> u1 @@ 3 :> u1

Comment(user, key, text, files) ==
  [kind |-> "comment", user |-> user, key |-> key, text |-> text, media |-> files]
Upload(user, a) == [kind |-> "upload", user |-> user, asset |-> a]
Work(x, y) == c1 :> x @@ c2 :> y

\* A comment sent again.
MCRetries == {Work(Comment(u1, "k", "t", <<1>>), Comment(u1, "k", "t", <<1>>))}

\* The same files in two comments; somebody else's file; a key used twice, for a
\* comment with a video; a video next to an image, during an upload.
MCWorkloads == MCRetries \cup
  { Work(Comment(u1, "k", "t", <<1, 2>>), Comment(u1, "l", "t", <<2, 1>>)),
    Work(Comment(u1, "k", "t", <<1>>), Comment(u2, "k", "t", <<1>>)),
    Work(Comment(u1, "k", "t", <<3>>), Comment(u1, "k", "s", << >>)),
    Work(Comment(u1, "k", "t", <<1, 3>>), Upload(u1, 2)) }
=============================================================================
