----------------------------- MODULE MCMembers ------------------------------
(***************************************************************************)
(* Instance of Members for TLC: four requests at a time, about one pair of *)
(* users, one account, or the notifications of one seller.                 *)
(***************************************************************************)
EXTENDS Members

CONSTANTS ann, bob, tablet, r1, r2, r3, r4

MCCalls == {r1, r2, r3, r4}
MCUsers == {ann, bob}
MCDevices == {tablet}

Four(a, b, c, d) == [x \in MCCalls |-> CASE x = r1 -> a [] x = r2 -> b [] x = r3 -> c [] x = r4 -> d]

Set(op, from, to) == [op |-> op, from |-> from, to |-> to]
Password(op, old, new) == [op |-> op, phone |-> ann, old |-> old, password |-> new]
Reset(new) == Password("reset", "none", new)
Code(op, made_by) == [op |-> op, phone |-> ann, code |-> made_by]
Info(op, name, avatar) == [op |-> op, phone |-> ann, name |-> name, avatar |-> avatar]
Act(op, u) == [op |-> op, user |-> u]
Prefer(kind, value) == [op |-> "set setting", user |-> ann, kind |-> kind, value |-> value]
Register(u) == [op |-> "set device", user |-> u, device |-> tablet]

Member(name, password, hashed) == [name |-> name, avatar |-> "none", password |-> password, hashed |-> hashed]

Workload(requests_, B, F, u, d) ==
  [requests |-> requests_, blocks |-> B, follows |-> F, users |-> [p \in {ann, bob} |-> IF p = ann THEN u ELSE Member(bob, "secret", TRUE)], devices |-> [x \in MCDevices |-> d]]

OfRelations(requests_, B, F) == Workload(requests_, B, F, NoUser, NoDevice)
OfAccount(requests_, u) == Workload(requests_, {}, {}, u, NoDevice)
OfNotices(requests_, d) == Workload(requests_, {}, {}, NoUser, d)

MCWorkloads ==
  {OfRelations(Four(Set("block", ann, bob), Set("follow", bob, ann), Set("follow", ann, bob), Set("unblock", ann, bob)), {}, {}),
   OfRelations(Four(Set("block", ann, bob), Set("block", ann, bob), Set("follow", bob, ann), Set("unfollow", bob, ann)), {}, {<<ann, bob>>, <<bob, ann>>}),
   OfRelations(Four(Set("block", bob, ann), Set("unblock", ann, bob), Set("follow", ann, bob), Set("follow", ann, bob)), {<<ann, bob>>}, {}),
   OfAccount(Four(Code("create code", r1), Code("check code", r1), Reset("new"), Reset("newer")), Member(ann, "old", TRUE)),
   OfAccount(Four(Code("create code", r1), Code("check code", r1), Code("check code", r1), Reset("new")), Member(ann, "old", TRUE)),
   OfAccount(Four(Code("create code", r1), Code("create code", r2), Code("check code", r1), Code("check code", r2)), Member(ann, "old", TRUE)),
   OfAccount(Four(Password("login", "none", "old"), Password("change", "old", "new"), Info("change info", "Ann", "none"), Info("set info", "none", "face")), Member(ann, "old", FALSE)),
   OfAccount(Four(Password("signup", "none", "old"), Password("signup", "none", "new"), Password("login", "none", "old"), Info("change info", bob, "face")), NoUser),
   OfAccount(Four(Info("set info", bob, "face"), Info("set info", "Ann", "none"), Info("set info", "none", "face"), Info("change info", bob, "none")), Member(ann, "old", TRUE)),
   OfNotices(Four(Act("like", bob), Act("get setting", ann), Prefer("like", 0), Prefer("comment", 0)), [user |-> ann, active |-> TRUE]),
   OfNotices(Four(Act("like", bob), Act("like", bob), Register(bob), Register(ann)), [user |-> ann, active |-> TRUE]),
   OfNotices(Four(Act("comment", bob), [op |-> "read", user |-> ann, notice |-> r1], Register(ann), Act("get setting", ann)), NoDevice)}
=============================================================================
