------------------------------- MODULE Bootstrap -------------------------------
(***************************************************************************)
(* How instances of the server create the first administrator when they    *)
(* start (onApplicationBootstrap of modules/user/service/user.service.ts): *)
(* unless the setting INIT_DATA says that it was done, the user is created *)
(* and then the setting is stored, by three calls of MongoDB that no       *)
(* transaction holds together.  An instance whose start throws exits, like *)
(* one that crashes, and whoever runs it starts it again                   *)
(* (docker-compose.dev.yml: restart).                                      *)
(*                                                                         *)
(* MongoDB (external) runs each call as one atomic command.  The unique    *)
(* index on usernames, which Mongoose builds, is taken to be there.        *)
(*                                                                         *)
(* MongoProofs extends this module along with MongoService: hence the      *)
(* names, BootInit, BootNext and so on.                                    *)
(***************************************************************************)
EXTENDS Integers

CONSTANTS
  Instance,  \* instances of the server
  MaxCrash,  \* bound on the number of crashes
  MaxEdit    \* bound on the number of edits by administrators

ASSUME BoundAssumption == MaxCrash \in Nat /\ MaxEdit \in Nat

VARIABLES
  boot,     \* boot[i]: what instance i is about to do
  setting,  \* INIT_DATA: not there, or there with isAdminCreated unset or set
  admin,    \* whether there is a user with the default username
  crashes,  \* number of crashes so far
  edits     \* number of edits so far

bootVars == <<boot, setting, admin, crashes, edits>>

(* INIT_DATA, when it is there, holds a value that validates.              *)
BootTypeOK ==
  /\ boot \in [Instance -> {"down", "read", "create", "store", "up"}]
  /\ setting \in {"absent", "unset", "set"}
  /\ admin \in BOOLEAN
  /\ crashes \in 0 .. MaxCrash
  /\ edits \in 0 .. MaxEdit

BootInit ==
  /\ boot = [i \in Instance |-> "down"]
  /\ setting = "absent"
  /\ admin = FALSE
  /\ crashes = 0
  /\ edits = 0
-----------------------------------------------------------------------------
Proceed(i, where) == boot' = [boot EXCEPT ![i] = where]

Start(i) ==
  /\ boot[i] = "down"
  /\ Proceed(i, "read")
  /\ UNCHANGED <<setting, admin, crashes, edits>>

(* The setting is stored before the user is created. *)
GetSettingValueEager(i) ==
  /\ boot[i] = "read"
  /\ Proceed(i, IF setting = "set" THEN "up" ELSE "create")
  /\ setting' = "set"
  /\ UNCHANGED <<admin, crashes, edits>>

GetSettingValue(i) ==
  /\ boot[i] = "read"
  /\ Proceed(i, IF setting = "set" THEN "up" ELSE "create")
  /\ UNCHANGED <<setting, admin, crashes, edits>>

(* A user that exists already is waited for. *)
CreateAdminPatient(i) ==
  /\ boot[i] = "create"
  /\ ~admin
  /\ admin' = TRUE
  /\ Proceed(i, "store")
  /\ UNCHANGED <<setting, crashes, edits>>

(* create: a user that exists already makes the start fail. *)
CreateAdmin(i) ==
  /\ boot[i] = "create"
  /\ IF admin
       THEN Proceed(i, "down") /\ UNCHANGED admin
       ELSE Proceed(i, "store") /\ admin' = TRUE
  /\ UNCHANGED <<setting, crashes, edits>>

(* Without upsert, a setting that is absent stays so. *)
SetSettingValueNoUpsert(i) ==
  /\ boot[i] = "store"
  /\ setting' = IF setting = "absent" THEN "absent" ELSE "set"
  /\ Proceed(i, "up")
  /\ UNCHANGED <<admin, crashes, edits>>

(* setSettingValue: an upsert by key. *)
SetSettingValue(i) ==
  /\ boot[i] = "store"
  /\ setting' = "set"
  /\ Proceed(i, "up")
  /\ UNCHANGED <<admin, crashes, edits>>

(* An instance dies, or a call of the database throws, before or after it  *)
(* has taken effect: bootstrap of main.ts catches nothing.                 *)
Crash(i) ==
  /\ boot[i] # "down" /\ crashes < MaxCrash
  /\ crashes' = crashes + 1
  /\ Proceed(i, "down")
  /\ UNCHANGED <<setting, admin, edits>>

(* Edits by clients of an instance that is up. *)
Edit ==
  /\ edits < MaxEdit /\ \E i \in Instance : boot[i] = "up"
  /\ edits' = edits + 1
  /\ UNCHANGED <<boot, crashes>>

(* PUT setting/value: only values that validate are stored. *)
SetSetting == Edit /\ setting' \in {"unset", "set"} /\ UNCHANGED admin

(* DELETE user/:id, PUT user/:id with another username, POST user *)
EditUser == Edit /\ admin' = ~admin /\ UNCHANGED setting

Boot(i) == Start(i) \/ GetSettingValue(i) \/ CreateAdmin(i) \/ SetSettingValue(i)

BootNext == (\E i \in Instance : Boot(i) \/ Crash(i)) \/ SetSetting \/ EditUser

(* Every await is resumed.  Start is fair because every instance that      *)
(* exits is started again.                                                 *)
BootFairness == \A i \in Instance : WF_bootVars(Boot(i))

BootSpec == BootInit /\ [][BootNext]_bootVars /\ BootFairness
-----------------------------------------------------------------------------
(* The user was created and nobody is about to say so. *)
Torn == admin /\ setting # "set" /\ \A i \in Instance : boot[i] # "store"

(* As long as nobody has edited them by hand, instances serve requests     *)
(* only when user and setting are both there, whatever crashed or started  *)
(* at the same time.                                                       *)
UpMeansInitialised ==
  edits = 0 =>
    /\ setting = "set" => admin
    /\ (\E i \in Instance : boot[i] = "up") => setting = "set"

(* Only a crash between the two writes leaves the user without the         *)
(* setting: instances that start together do not.                          *)
TornOnlyByCrash == Torn => crashes > 0 \/ edits > 0

(* Nothing but that keeps instances from coming up: however many start     *)
(* together, and whichever of them are refused because the user exists,    *)
(* each comes up in the end.                                               *)
(* With the user there and the setting not, every start fails for good,    *)
(* and nobody can edit anything until an instance is up: hence ~Torn.      *)
InstancesComeUp == ([]~Torn) => \A i \in Instance : []<>(boot[i] = "up")
=============================================================================
