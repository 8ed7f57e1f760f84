------------------------------ MODULE Members -------------------------------
(***************************************************************************)
(* What members do apart from trade: the relations between them, their     *)
(* accounts, and what they are told.  The components share nothing but the *)
(* process that runs their requests: whose requests there are is part of   *)
(* the initial state.                                                      *)
(***************************************************************************)
EXTENDS Relations, Accounts, Notices

CONSTANTS Workloads   \* initial states: requests, blocks, follows, users and devices

\* Who blocks somebody is not followed by him, nor follows him, to begin with;
\* every user has a password; codes are those that were made, by a request; and
\* the values in requests are those that their validation lets through.
ASSUME WorkloadsAssumption ==
  /\ Earlier \notin Calls
  /\ Owner \in Users /\ Users \subseteq STRING
  /\ \A w \in Workloads :
       /\ w.blocks \cup w.follows \subseteq Users \X Users
       /\ \A p \in w.blocks, q \in w.follows : {p[1], p[2]} # {q[1], q[2]}
       /\ w.users \in [Phones -> UserRows]
       /\ \A p \in Phones : w.users[p] = NoUser \/ w.users[p].password # "none"
       /\ w.devices \in [Devices -> DeviceRows]
       /\ \A c \in Calls :
            LET r == w.requests[c]
            IN /\ r.op \in {"block", "unblock", "follow", "unfollow"} => {r.from, r.to} \subseteq Users
               /\ r.op \in AccountOps => r.phone \in Phones
               /\ r.op \in PasswordOps => r.password \in STRING /\ r.password # "none"
               /\ r.op \in AvatarOps => r.name \in STRING /\ r.avatar \in STRING
               /\ r.op = "check code" => r.code \in Calls
               /\ r.op \in Kinds \cup {"read", "get setting", "set setting", "set device"} => r.user \in Users
               /\ r.op = "set setting" => r.kind \in Kinds /\ r.value \in {0, 1}
               /\ r.op = "set device" => r.device \in Devices

vars == <<requests, relations, accounts, notifications>>

Statements ==
  {"save block", "delete follow", "delete follow back", "delete block",
   "find follow", "save follow", "delete own follow", "count follows",
   "save user", "rehash", "change password", "update info",
   "get cooldown", "set code", "set cooldown", "delete code", "set verified",
   "get verified", "reset password", "delete verified",
   "save like", "remove like", "insert notice", "count", "mark read",
   "create setting", "load setting", "write setting",
   "insert device", "load device", "write device"}

TypeOK ==
  /\ pc \in [Calls -> Statements \cup {"idle", "ended"}]
  /\ answer \in [Calls -> Answers]
  /\ before \in [Calls -> SUBSET Calls]
  /\ failures \in 0..MaxFailures
  /\ RelationsTypeOK
  /\ user \in [Phones -> UserRows]
  /\ {code, cooldown, verified} \subseteq [Phones -> Calls \cup {NoKey}]
  /\ grant \in [Calls -> Calls \cup {"none"}]
  /\ setting \in [Users -> [Kinds -> 0..2]]
  /\ device \in [Devices -> DeviceRows]
  /\ pushed \in [Calls -> SUBSET Devices]
  /\ likes \subseteq [by : Calls, user : Users]
  /\ notices \subseteq [by : Calls, kind : Kinds, is_read : BOOLEAN]

Init ==
  \E w \in Workloads :
    /\ request = w.requests
    /\ RequestsInit
    /\ RelationsInit(w.blocks, w.follows)
    /\ AccountsInit(w.users)
    /\ NoticesInit(Users, w.devices)

Next ==
  \/ \E c \in Calls : RelationsStep(c) /\ UNCHANGED <<accounts, notifications>>
  \/ \E c \in Calls : AccountsStep(c) /\ UNCHANGED <<relations, notifications>>
  \/ \E c \in Calls : NoticesStep(c) /\ UNCHANGED <<relations, accounts>>
  \/ \E c \in Calls : Lose(c) /\ UNCHANGED <<relations, accounts, notifications>>
  \/ Expire /\ UNCHANGED <<requests, relations, notifications>>

Spec == Init /\ [][Next]_vars
=============================================================================
