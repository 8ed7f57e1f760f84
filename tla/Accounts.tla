------------------------------ MODULE Accounts ------------------------------
(***************************************************************************)
(* Accounts: sign-up, log-in, passwords, reset codes and profiles          *)
(* (auth.service.ts, users.service.ts, redis.service.ts).                  *)
(*                                                                         *)
(* A user is known by the phone number, which is unique.  A hash is the    *)
(* password it hashes, with a mark; users from before hashing have their   *)
(* password in plain.  Redis keys are set with a time to live: here redis  *)
(* may forget a key at any time.  With a key the model keeps the request   *)
(* that set it, which the code does not.  Reset codes are random: a code   *)
(* is known by the request that made it.                                   *)
(***************************************************************************)
EXTENDS Requests

CONSTANTS Phones

NoUser == [name |-> "none", avatar |-> "none", password |-> "none", hashed |-> FALSE]
NoKey == "none"
PasswordOps == {"signup", "login", "change", "reset"}
AvatarOps == {"change info", "set info"}
AccountOps == PasswordOps \cup AvatarOps \cup {"create code", "check code"}
UserRows == [name : STRING, avatar : STRING, password : STRING, hashed : BOOLEAN]

ASSUME AccountsAssumption == NoKey \notin Calls /\ Phones \cup {"none"} \subseteq STRING

VARIABLES user,       \* user[p]: row of users
          wallets,    \* phones whose user has a row of wallets
          code, cooldown, verified,  \* the three keys of redis, by phone
          read,       \* read[c]: the user that c has read
          grant       \* grant[c]: the verification that c has found (history)

keys == <<code, cooldown, verified>>
accounts == <<user, wallets, keys, read, grant>>

AccountsInit(U) ==
  /\ user = U
  /\ wallets = {p \in Phones : U[p] # NoUser}
  /\ code = [p \in Phones |-> NoKey]
  /\ cooldown = [p \in Phones |-> NoKey]
  /\ verified = [p \in Phones |-> NoKey]
  /\ read = [c \in Calls |-> NoUser]
  /\ grant = [c \in Calls |-> "none"]

Phone(c) == request[c].phone
UserOf(c) == user[Phone(c)]
Hashed(u, password) == [u EXCEPT !.password = password, !.hashed = TRUE]
\* User names are unique.
Taken(c, name) == \E p \in Phones \ {Phone(c)} : user[p].name = name
Updated(c, u) == [user EXCEPT ![Phone(c)] = u]

-----------------------------------------------------------------------------
(* signup, login, changePassword.                                          *)

FindPhone(c) ==
  /\ Op(c) = "signup"
  /\ \/ UserOf(c) # NoUser /\ Return(c, "idle", "USER_EXISTED")
     \/ UserOf(c) = NoUser /\ Go(c, "idle", "save user")
  /\ UNCHANGED <<user, wallets, keys, read, grant>>

\* The user and the wallet are inserted in one transaction; the first user name
\* is the phone number.
SaveUser(c) ==
  /\ pc[c] = "save user"
  /\ \/ /\ UserOf(c) # NoUser \/ Taken(c, Phone(c))
        /\ Return(c, "save user", "EXCEPTION_ERROR")
        /\ UNCHANGED <<user, wallets>>
     \/ /\ UserOf(c) = NoUser /\ ~ Taken(c, Phone(c))
        /\ Return(c, "save user", "OK")
        /\ user' = Updated(c, [name |-> Phone(c), avatar |-> "none", password |-> request[c].password, hashed |-> TRUE])
        /\ wallets' = wallets \cup {Phone(c)}
  /\ UNCHANGED <<keys, read, grant>>

\* A password in plain is hashed at the first log-in.
FindForLogin(c) ==
  /\ Op(c) = "login"
  /\ \/ UserOf(c).password # request[c].password /\ Return(c, "idle", "USER_NOT_VALIDATED")
     \/ /\ UserOf(c).password = request[c].password
        /\ \/ UserOf(c).hashed /\ Return(c, "idle", "OK")
           \/ ~ UserOf(c).hashed /\ Go(c, "idle", "rehash")
  /\ UNCHANGED <<user, wallets, keys, read, grant>>

Rehash(c) ==
  /\ Return(c, "rehash", "OK")
  /\ user' = Updated(c, Hashed(UserOf(c), request[c].password))
  /\ UNCHANGED <<wallets, keys, read, grant>>

FindForChange(c) ==
  /\ Op(c) = "change"
  /\ \/ UserOf(c) = NoUser /\ Return(c, "idle", "USER_NOT_VALIDATED")
     \/ /\ UserOf(c) # NoUser
        /\ \/ UserOf(c).password # request[c].old
           \/ request[c].old = request[c].password
        /\ Return(c, "idle", "PARAMETER_VALUE_INVALID")
     \/ /\ UserOf(c) # NoUser
        /\ UserOf(c).password = request[c].old
        /\ request[c].old # request[c].password
        /\ Go(c, "idle", "change password")
  /\ UNCHANGED <<user, wallets, keys, read, grant>>

ChangePassword(c) ==
  /\ Return(c, "change password", "OK")
  /\ user' = Updated(c, Hashed(UserOf(c), request[c].password))
  /\ UNCHANGED <<wallets, keys, read, grant>>

-----------------------------------------------------------------------------
(* createCodeResetPassword, checkCodeResetPassword, resetPassword.         *)

FindForCode(c) ==
  /\ Op(c) = "create code"
  /\ \/ UserOf(c) = NoUser /\ Return(c, "idle", "USER_NOT_VALIDATED")
     \/ UserOf(c) # NoUser /\ Go(c, "idle", "get cooldown")
  /\ UNCHANGED <<user, wallets, keys, read, grant>>

GetCooldown(c) ==
  /\ pc[c] = "get cooldown"
  /\ \/ cooldown[Phone(c)] # NoKey /\ Return(c, "get cooldown", "SPAM")
     \/ cooldown[Phone(c)] = NoKey /\ Go(c, "get cooldown", "set code")
  /\ UNCHANGED <<user, wallets, keys, read, grant>>

SetCode(c) ==
  /\ Go(c, "set code", "set cooldown")
  /\ code' = [code EXCEPT ![Phone(c)] = c]
  /\ UNCHANGED <<user, wallets, cooldown, verified, read, grant>>

SetCooldown(c) ==
  /\ Return(c, "set cooldown", "OK")
  /\ cooldown' = [cooldown EXCEPT ![Phone(c)] = c]
  /\ UNCHANGED <<user, wallets, code, verified, read, grant>>

\* request[c].code: the request that made the code the user enters.
GetCode(c) ==
  /\ Op(c) = "check code"
  /\ \/ code[Phone(c)] # request[c].code /\ Return(c, "idle", "CODE_VERIFY_INCORRECT")
     \/ code[Phone(c)] = request[c].code /\ Go(c, "idle", "delete code")
  /\ UNCHANGED <<user, wallets, keys, read, grant>>

\* Mutant of DeleteCode: a code that was entered stays.
KeepCode(c) ==
  /\ Go(c, "delete code", "set verified")
  /\ UNCHANGED <<user, wallets, keys, read, grant>>

DeleteCode(c) ==
  /\ Go(c, "delete code", "set verified")
  /\ code' = [code EXCEPT ![Phone(c)] = NoKey]
  /\ UNCHANGED <<user, wallets, cooldown, verified, read, grant>>

SetVerified(c) ==
  /\ Return(c, "set verified", "OK")
  /\ verified' = [verified EXCEPT ![Phone(c)] = c]
  /\ UNCHANGED <<user, wallets, code, cooldown, read, grant>>

FindForReset(c) ==
  /\ Op(c) = "reset"
  /\ \/ UserOf(c) = NoUser /\ Return(c, "idle", "USER_NOT_VALIDATED")
     \/ UserOf(c) # NoUser /\ Go(c, "idle", "get verified")
  /\ read' = [read EXCEPT ![c] = UserOf(c)]
  /\ UNCHANGED <<user, wallets, keys, grant>>

\* The new password is compared with the one that was read before.
GetVerified(c) ==
  /\ pc[c] = "get verified"
  /\ LET same == read[c].password = request[c].password
     IN \/ /\ verified[Phone(c)] = NoKey
           /\ Return(c, "get verified", "CODE_VERIFY_INCORRECT")
        \/ /\ verified[Phone(c)] # NoKey /\ same
           /\ Return(c, "get verified", "PARAMETER_VALUE_INVALID")
        \/ /\ verified[Phone(c)] # NoKey /\ ~ same
           /\ Go(c, "get verified", "reset password")
  /\ grant' = [grant EXCEPT ![c] = verified[Phone(c)]]
  /\ UNCHANGED <<user, wallets, keys, read>>

ResetPassword(c) ==
  /\ Go(c, "reset password", "delete verified")
  /\ user' = Updated(c, Hashed(UserOf(c), request[c].password))
  /\ UNCHANGED <<wallets, keys, read, grant>>

DeleteVerified(c) ==
  /\ Return(c, "delete verified", "OK")
  /\ verified' = [verified EXCEPT ![Phone(c)] = NoKey]
  /\ UNCHANGED <<user, wallets, code, cooldown, read, grant>>

-----------------------------------------------------------------------------
(* changeInfoAfterSignup and setUserInfo.                                  *)

FindForInfo(c) ==
  /\ Op(c) = "change info"
  /\ \/ UserOf(c) = NoUser /\ Return(c, "idle", "USER_NOT_VALIDATED")
     \/ UserOf(c) # NoUser /\ Go(c, "idle", "update info")
  /\ read' = [read EXCEPT ![c] = UserOf(c)]
  /\ UNCHANGED <<user, wallets, keys, grant>>

\* Mutant of UpdateInfo: the whole user is saved as it was read.
UpdateInfoWhole(c) ==
  /\ Return(c, "update info", "OK")
  /\ user' = Updated(c, [read[c] EXCEPT
       !.name = request[c].name,
       !.avatar = IF request[c].avatar = "none" THEN @ ELSE request[c].avatar])
  /\ UNCHANGED <<wallets, keys, read, grant>>

\* Without an avatar in the request, the one that was read is written again.
UpdateInfo(c) ==
  /\ pc[c] = "update info"
  /\ \/ /\ Taken(c, request[c].name)
        /\ Return(c, "update info", "EXCEPTION_ERROR")
        /\ UNCHANGED user
     \/ /\ ~ Taken(c, request[c].name)
        /\ Return(c, "update info", "OK")
        /\ user' = Updated(c, [UserOf(c) EXCEPT
             !.name = request[c].name,
             !.avatar = IF request[c].avatar = "none" THEN read[c].avatar ELSE request[c].avatar])
  /\ UNCHANGED <<wallets, keys, read, grant>>

\* What the request leaves out stays as it is.
SetUserInfo(c) ==
  /\ Op(c) = "set info"
  /\ UserOf(c) # NoUser
  /\ \/ /\ request[c].name # "none" /\ Taken(c, request[c].name)
        /\ Return(c, "idle", "EXCEPTION_ERROR")
        /\ UNCHANGED user
     \/ /\ request[c].name = "none" \/ ~ Taken(c, request[c].name)
        /\ Return(c, "idle", "OK")
        /\ user' = Updated(c, [UserOf(c) EXCEPT
             !.name = IF request[c].name = "none" THEN @ ELSE request[c].name,
             !.avatar = IF request[c].avatar = "none" THEN @ ELSE request[c].avatar])
  /\ UNCHANGED <<wallets, keys, read, grant>>

\* The time to live of a key is over.
Expire ==
  /\ \E p \in Phones :
       \/ code[p] # NoKey /\ code' = [code EXCEPT ![p] = NoKey] /\ UNCHANGED <<cooldown, verified>>
       \/ cooldown[p] # NoKey /\ cooldown' = [cooldown EXCEPT ![p] = NoKey] /\ UNCHANGED <<code, verified>>
       \/ verified[p] # NoKey /\ verified' = [verified EXCEPT ![p] = NoKey] /\ UNCHANGED <<code, cooldown>>
  /\ UNCHANGED <<user, wallets, read, grant>>

AccountsStep(c) ==
  \/ FindPhone(c) \/ SaveUser(c) \/ FindForLogin(c) \/ Rehash(c) \/ FindForChange(c) \/ ChangePassword(c)
  \/ FindForCode(c) \/ GetCooldown(c) \/ SetCode(c) \/ SetCooldown(c)
  \/ GetCode(c) \/ DeleteCode(c) \/ SetVerified(c)
  \/ FindForReset(c) \/ GetVerified(c) \/ ResetPassword(c) \/ DeleteVerified(c)
  \/ FindForInfo(c) \/ UpdateInfo(c) \/ SetUserInfo(c)

-----------------------------------------------------------------------------
Succeeded(op) == {c \in Calls : Op(c) = op /\ answer[c] = "OK"}

\* A reset code is good for one reset, until another one is sent, except that
\* requests of one kind that overlap can share it: checkCodeResetPassword and
\* resetPassword read a key of redis and delete it later (auth.service.ts:285
\* and :335).
CodesWorkOnce ==
  /\ \A k \in Succeeded("check code") :
       LET c == request[k].code
       IN /\ \A d \in Succeeded("create code") :
               Phone(d) = Phone(k) /\ c \in before[d] => d \notin before[k]
          /\ \A l \in Succeeded("check code") \ {k} : request[l].code = c => Met(k, l)
  /\ \A r \in Succeeded("reset") :
       /\ Op(grant[r]) = "check code" /\ Phone(grant[r]) = Phone(r)
       /\ \A s \in Succeeded("reset") \ {r} : grant[s] = grant[r] => Met(r, s)

\* The requests that write the password of p, and those that write an avatar.
PasswordRequests(p) == {c \in Calls : Op(c) \in PasswordOps /\ Phone(c) = p /\ Begun(c)}
AvatarRequests(p) == {c \in Calls : Op(c) \in AvatarOps /\ Phone(c) = p /\ Begun(c)}

\* Everybody who signed up did so once and has a wallet.  The last password that
\* was set, or hashed at a log-in, is the user's password if no request for
\* another one overlapped, whatever is done with the profile; and so for the
\* avatar, which changeInfoAfterSignup writes again as it has read it
\* (auth.service.ts:418).
AccountsAreKept ==
  \A p \in Phones :
    /\ user[p] # NoUser => p \in wallets
    /\ \A c, d \in Succeeded("signup") : Phone(c) = p /\ Phone(d) = p => c = d
    /\ \A c \in PasswordRequests(p) :
         answer[c] = "OK" /\ PasswordRequests(p) \ {c} \subseteq before[c] =>
           user[p].hashed /\ user[p].password = request[c].password
    /\ \A c \in AvatarRequests(p) :
         /\ answer[c] = "OK" /\ request[c].avatar # "none"
         /\ \A d \in AvatarRequests(p) \ {c} :
              d \in before[c] \/ (request[d].avatar = "none" /\ c \in before[d])
         => user[p].avatar = request[c].avatar
=============================================================================
