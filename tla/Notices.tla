------------------------------ MODULE Notices -------------------------------
(***************************************************************************)
(* Notifications about likes and comments (products.service.ts,            *)
(* notifications.service.ts), and their way to the recipient's devices     *)
(* (fcm.service.ts, dev-tokens.service.ts, push-settings.service.ts).      *)
(*                                                                         *)
(* A like, a comment and a notification are known by the request that      *)
(* inserted them; the deduplication key of a notification names the row it *)
(* is about, so that each key is new.  The push is not waited for: it goes *)
(* on beside its request, and after it.                                    *)
(***************************************************************************)
EXTENDS Requests

CONSTANTS Owner,     \* the seller of the product that is liked and commented
          Devices    \* device tokens

Kinds == {"like", "comment"}   \* kinds of notifications, and their preferences
NoDevice == [user |-> "none", active |-> FALSE]
DeviceRows == [user : STRING, active : BOOLEAN]
NoSetting == [k \in Kinds |-> 2]   \* no row; a preference is 0 or 1
DefaultSetting == [k \in Kinds |-> 1]
NoPush == [at |-> "none", to |-> {}]

VARIABLES likes,       \* rows of likes: the request and the user
          picked,      \* picked[c]: the like that c has read
          notices,     \* rows of notifications: request, kind and whether it is read
          setting,     \* setting[u]: row of push_settings
          entity,      \* entity[c]: the setting that c has read and changed
          loaded,      \* loaded[c]: what its save has read of the row
          device,      \* device[d]: row of dev_tokens
          registered,  \* registered[c]: what the save of a device has read of the row
          push,        \* push[c]: the next statement of the push of c's notification
          pushed       \* pushed[c]: devices that it was sent to

settings == <<setting, entity, loaded>>
devices == <<device, registered>>
pushes == <<push, pushed>>
notifications == <<likes, picked, notices, settings, devices, pushes>>

NoticesInit(users, D) ==
  /\ likes = {}
  /\ picked = [c \in Calls |-> "none"]
  /\ notices = {}
  /\ setting = [u \in users |-> NoSetting]
  /\ entity = [c \in Calls |-> NoSetting]
  /\ loaded = [c \in Calls |-> NoSetting]
  /\ device = D
  /\ registered = [c \in Calls |-> NoDevice]
  /\ push = [c \in Calls |-> NoPush]
  /\ pushed = [c \in Calls |-> {}]

User(c) == request[c].user

\* A column after TypeORM's save, which writes those in which the entity differs
\* from what it has read of the row.
Saved(written, loaded_, current) == IF written = loaded_ THEN current ELSE written

-----------------------------------------------------------------------------
(* likeProduct, notifySeller, setReadNotification.                         *)

\* Nothing keeps a user from having two likes of one product.
FindLike(c) ==
  /\ Op(c) = "like"
  /\ \/ /\ \A l \in likes : l.user # User(c)
        /\ Go(c, "idle", "save like")
        /\ UNCHANGED picked
     \/ \E l \in likes :
          /\ l.user = User(c)
          /\ Go(c, "idle", "remove like")
          /\ picked' = [picked EXCEPT ![c] = l.by]
  /\ UNCHANGED <<likes, notices, settings, devices, pushes>>

RemoveLike(c) ==
  /\ Go(c, "remove like", "count")
  /\ likes' = {l \in likes : l.by # picked[c]}
  /\ UNCHANGED <<picked, notices, settings, devices, pushes>>

SaveLike(c) ==
  /\ Go(c, "save like", IF User(c) = Owner THEN "count" ELSE "insert notice")
  /\ likes' = likes \cup {[by |-> c, user |-> User(c)]}
  /\ UNCHANGED <<picked, notices, settings, devices, pushes>>

\* The comment itself is inserted before.
NotifySeller(c) ==
  /\ Op(c) = "comment"
  /\ Go(c, "idle", "insert notice")
  /\ UNCHANGED notifications

\* The owner is told at the gateway and, without waiting, on the devices.  If it
\* fails for a comment, the comment is answered all the same.
InsertNotice(c) ==
  /\ Go(c, "insert notice", "count")
  /\ \/ /\ notices' = notices \cup {[by |-> c, kind |-> Op(c), is_read |-> FALSE]}
        /\ push' = [push EXCEPT ![c].at = "settings"]
     \/ Op(c) = "comment" /\ UNCHANGED <<notices, push>>
  /\ UNCHANGED <<likes, picked, settings, devices, pushed>>

\* The counts that are answered: likes of the product, notifications not read.
Count(c) ==
  /\ Return(c, "count", "OK")
  /\ UNCHANGED notifications

\* request[c].notice: the request whose notification is read.
FindNotice(c) ==
  LET N == {n \in notices : n.by = request[c].notice /\ User(c) = Owner}
  IN /\ Op(c) = "read"
     /\ \/ N = {} /\ Return(c, "idle", "PARAMETER_VALUE_INVALID")
        \/ \E n \in N : Go(c, "idle", IF n.is_read THEN "count" ELSE "mark read")
     /\ UNCHANGED notifications

MarkRead(c) ==
  /\ Go(c, "mark read", "count")
  /\ notices' = {IF n.by = request[c].notice THEN [n EXCEPT !.is_read = TRUE] ELSE n : n \in notices}
  /\ UNCHANGED <<likes, picked, settings, devices, pushes>>

-----------------------------------------------------------------------------
(* getPushSetting, updatePushSetting, upsertDevToken.                      *)

Changed(c, row) ==
  IF Op(c) = "set setting" THEN [row EXCEPT ![request[c].kind] = request[c].value] ELSE row

FindSetting(c) ==
  /\ Op(c) \in {"get setting", "set setting"}
  /\ \/ /\ setting[User(c)] = NoSetting
        /\ Go(c, "idle", "create setting")
        /\ UNCHANGED entity
     \/ /\ setting[User(c)] # NoSetting
        /\ entity' = [entity EXCEPT ![c] = Changed(c, setting[User(c)])]
        /\ \/ Op(c) = "get setting" /\ Return(c, "idle", "OK")
           \/ Op(c) = "set setting" /\ Go(c, "idle", "load setting")
  /\ UNCHANGED <<likes, picked, notices, setting, loaded, devices, pushes>>

\* A user has one row; a second one is refused.
CreateSetting(c) ==
  /\ pc[c] = "create setting"
  /\ \/ /\ setting[User(c)] # NoSetting
        /\ Return(c, "create setting", "EXCEPTION_ERROR")
        /\ UNCHANGED <<setting, entity>>
     \/ /\ setting[User(c)] = NoSetting
        /\ setting' = [setting EXCEPT ![User(c)] = DefaultSetting]
        /\ entity' = [entity EXCEPT ![c] = Changed(c, DefaultSetting)]
        /\ \/ Op(c) = "get setting" /\ Return(c, "create setting", "OK")
           \/ Op(c) = "set setting" /\ Go(c, "create setting", "load setting")
  /\ UNCHANGED <<likes, picked, notices, loaded, devices, pushes>>

LoadSetting(c) ==
  /\ Go(c, "load setting", "write setting")
  /\ loaded' = [loaded EXCEPT ![c] = setting[User(c)]]
  /\ UNCHANGED <<likes, picked, notices, setting, entity, devices, pushes>>

WriteSetting(c) ==
  /\ Return(c, "write setting", "OK")
  /\ setting' = [setting EXCEPT ![User(c)] = [k \in Kinds |-> Saved(entity[c][k], loaded[c][k], @[k])]]
  /\ UNCHANGED <<likes, picked, notices, entity, loaded, devices, pushes>>

\* request[c].device: the token of the device that the user registers.
Token(c) == request[c].device
Registration(c) == [user |-> User(c), active |-> TRUE]

FindDevice(c) ==
  /\ Op(c) = "set device"
  /\ Go(c, "idle", IF device[Token(c)] = NoDevice THEN "insert device" ELSE "load device")
  /\ UNCHANGED notifications

\* A token has one row; a second one is refused.
InsertDevice(c) ==
  /\ pc[c] = "insert device"
  /\ \/ /\ device[Token(c)] # NoDevice
        /\ Return(c, "insert device", "EXCEPTION_ERROR")
        /\ UNCHANGED device
     \/ /\ device[Token(c)] = NoDevice
        /\ Return(c, "insert device", "OK")
        /\ device' = [device EXCEPT ![Token(c)] = Registration(c)]
  /\ UNCHANGED <<likes, picked, notices, settings, registered, pushes>>

LoadDevice(c) ==
  /\ Go(c, "load device", "write device")
  /\ registered' = [registered EXCEPT ![c] = device[Token(c)]]
  /\ UNCHANGED <<likes, picked, notices, settings, device, pushes>>

\* Mutant of WriteDevice: a token stays with the user who registered it first.
WriteDeviceActive(c) ==
  /\ Return(c, "write device", "OK")
  /\ device' = [device EXCEPT ![Token(c)].active = TRUE]
  /\ UNCHANGED <<likes, picked, notices, settings, registered, pushes>>

WriteDevice(c) ==
  /\ Return(c, "write device", "OK")
  /\ device' = [device EXCEPT ![Token(c)] =
       [user |-> Saved(User(c), registered[c].user, @.user),
        active |-> Saved(TRUE, registered[c].active, @.active)]]
  /\ UNCHANGED <<likes, picked, notices, settings, registered, pushes>>

-----------------------------------------------------------------------------
(* sendNotification, for the notification of c.                            *)

Push(c, from, to) ==
  /\ push[c].at = from
  /\ push' = [push EXCEPT ![c] = to]
  /\ UNCHANGED <<requests, likes, picked, notices, settings>>

\* A user without a row wants every notification.
ReadPreference(c) ==
  /\ Push(c, "settings", [at |-> IF setting[Owner][Op(c)] = 0 THEN "done" ELSE "tokens", to |-> {}])
  /\ UNCHANGED <<devices, pushed>>

ReadTokens(c) ==
  LET D == {d \in Devices : device[d] = [user |-> Owner, active |-> TRUE]}
  IN /\ Push(c, "tokens", [at |-> IF D = {} THEN "done" ELSE "send", to |-> D])
     /\ UNCHANGED <<devices, pushed>>

\* FCM answers which tokens it does not know.
Send(c) ==
  /\ \E unknown \in SUBSET push[c].to :
       Push(c, "send", [at |-> IF unknown = {} THEN "done" ELSE "deactivate", to |-> unknown])
  /\ pushed' = [pushed EXCEPT ![c] = push[c].to]
  /\ UNCHANGED devices

Deactivate(c) ==
  /\ Push(c, "deactivate", [at |-> "done", to |-> {}])
  /\ device' = [d \in Devices |-> IF d \in push[c].to THEN [device[d] EXCEPT !.active = FALSE] ELSE device[d]]
  /\ UNCHANGED <<registered, pushed>>

\* An error of FCM or the database, or the end of the process.
LosePush(c) ==
  /\ push[c].at \notin {"none", "done"}
  /\ failures < MaxFailures
  /\ failures' = failures + 1
  /\ push' = [push EXCEPT ![c] = [at |-> "done", to |-> {}]]
  /\ UNCHANGED <<request, pc, answer, before, likes, picked, notices, settings, devices, pushed>>

NoticesStep(c) ==
  \/ FindLike(c) \/ RemoveLike(c) \/ SaveLike(c) \/ NotifySeller(c) \/ InsertNotice(c) \/ Count(c)
  \/ FindNotice(c) \/ MarkRead(c)
  \/ FindSetting(c) \/ CreateSetting(c) \/ LoadSetting(c) \/ WriteSetting(c)
  \/ FindDevice(c) \/ InsertDevice(c) \/ LoadDevice(c) \/ WriteDevice(c)
  \/ ReadPreference(c) \/ ReadTokens(c) \/ Send(c) \/ Deactivate(c) \/ LosePush(c)

-----------------------------------------------------------------------------
SettingRequests == {c \in Calls : Op(c) = "set setting" /\ User(c) = Owner /\ Begun(c)}
DeviceRequests(d) == {c \in Calls : Op(c) = "set device" /\ Token(c) = d /\ Begun(c)}

\* c is the last of the requests C, met none of them, and had ended when d began.
Settled(c, C, d) == answer[c] = "OK" /\ C \ {c} \subseteq before[c] /\ c \in before[d]

\* A notification is pushed only to devices that are the recipient's, and only if
\* the recipient wants its kind, as the last requests before it have left them.
\* What overlaps, or comes while the push is on its way, may come too late, and
\* of two preferences that are saved at the same time one can be lost
\* (fcm.service.ts:53, push-settings.service.ts:80, dev-tokens.service.ts:24).
PushesAreWanted ==
  \A c \in Calls : \A d \in pushed[c] :
    /\ \A s \in SettingRequests :
         request[s].kind = Op(c) /\ Settled(s, SettingRequests, c) => request[s].value = 1
    /\ \A s \in DeviceRequests(d) : Settled(s, DeviceRequests(d), c) => User(s) = Owner
=============================================================================
