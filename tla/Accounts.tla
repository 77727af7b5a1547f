------------------------------ MODULE Accounts ------------------------------
(***************************************************************************)
(* A user lives in two stores: the account in Keycloak and the row in      *)
(* Users, with the tenant mappings that refer to it.  createUser,          *)
(* updateUser and deleteUserById of src/src/user/user.service.ts change    *)
(* both, one call after the other, with no transaction around them and no  *)
(* compensation, while other requests do the same.  Every call may fail,   *)
(* and a call to Keycloak may take effect although its answer is lost.     *)
(*                                                                         *)
(* A request runs once, one action per call it awaits.  The status         *)
(* "inactive" stands for archived as well.  Custom fields, cohorts and the *)
(* caches, which fail no differently from the mappings, are left to        *)
(* WritePaths.                                                             *)
(***************************************************************************)
EXTENDS Naturals, Sequences, SequencesExt, FiniteSets

CONSTANTS
    Names,    \* usernames
    Ids,      \* the ids that Keycloak gives out
    Devices,  \* device ids
    Requests, \* the requests
    Changes,  \* the bodies of updateUser, see Change
    FirstName,\* FirstName[i]: the username of i at first; other ids are unused
    Carried,  \* the devices that users have at first
    Faults,   \* "keycloak", "database": which calls may fail
    Overlapping, \* the changes that may overlap with each other on one user; all
                 \* others run alone there
    None

\* The body of an update: a new username, other details of the account, the status,
\* an action on a device.
Change == [name : Names \cup {None}, details : BOOLEAN,
           status : {"active", "inactive", None},
           device : ({"add", "remove"} \X Devices) \cup {None}]
NoChange == [name |-> None, details |-> FALSE, status |-> None, device |-> None]

Account == [name : Names, enabled : BOOLEAN]
UserRow == [name : Names, status : {"active", "inactive"}, devices : Seq(Devices)]

ASSUME AccountAssumption ==
    /\ DOMAIN FirstName \subseteq Ids /\ Range(FirstName) \subseteq Names
    /\ IsInjective(FirstName)
    /\ Changes \subseteq Change
    /\ Carried \in Seq(Devices) /\ Len(Carried) <= 3 /\ IsInjective(Carried)
    /\ Faults \subseteq {"keycloak", "database"}
    /\ Overlapping \subseteq Changes \cup {NoChange} \* NoChange: a deletion
    /\ None \notin Names \cup Ids \cup Devices \cup {"create", "update", "delete"}
    /\ None \notin Account \cup UserRow \cup Seq(Devices)

\* Nothing that may overlap renames or deletes a user.
NamesAreKept == \A c \in Overlapping : c.name = None /\ c # NoChange

VARIABLES
    accounts, \* Keycloak: the account of an id, or None
    rows,     \* Users: the row of an id, or None
    mapped,   \* the ids that have their tenant mappings
    req,      \* the requests
    syncs,    \* per request: the status update it has left running
    issued,   \* history: the ids that Keycloak has given out
    failed,   \* history: the ids that a request has failed on
    finished  \* history: <<operation, id>> of the requests that succeeded

vars == <<accounts, rows, mapped, req, syncs, issued, failed, finished>>

\* name: of the user to create; devices, entity: what an update is about to write.
Waiting == [at |-> "new", op |-> None, id |-> None, change |-> NoChange,
            name |-> None, devices |-> None, entity |-> None]

Init ==
    /\ accounts = [i \in Ids |-> IF i \in DOMAIN FirstName
                    THEN [name |-> FirstName[i], enabled |-> TRUE] ELSE None]
    /\ rows = [i \in Ids |-> IF i \in DOMAIN FirstName
                THEN [name |-> FirstName[i], status |-> "active", devices |-> Carried]
                ELSE None]
    /\ mapped = DOMAIN FirstName
    /\ req = [r \in Requests |-> Waiting]
    /\ syncs = [r \in Requests |-> None]
    /\ issued = DOMAIN FirstName
    /\ failed = {}
    /\ finished = {}

-----------------------------------------------------------------------------
At(r, op, here) == req[r].op = op /\ req[r].at = here
GoTo(r, there) == req' = [req EXCEPT ![r].at = there]

UnderWay == {r \in Requests : req[r].at \notin {"new", "done"}}

\* The ids that requests under way are about.
Busy == {req[r].id : r \in UnderWay} \ {None}

MayStart(i, c) ==
    \A r \in UnderWay : req[r].id = i => {c, req[r].change} \subseteq Overlapping

Fail(r, i) ==
    /\ GoTo(r, "done")
    /\ failed' = failed \cup ({i} \ {None})
    /\ UNCHANGED finished

Succeed(r, i) ==
    /\ GoTo(r, "done")
    /\ finished' = finished \cup {<<req[r].op, i>>}
    /\ UNCHANGED failed

GoOn(r, there) == GoTo(r, there) /\ UNCHANGED <<failed, finished>>

\* Keycloak refuses a second account of one name, the Users table a second row.
TakenInKeycloak(n, i) == \E j \in Ids \ {i} : accounts[j] # None /\ accounts[j].name = n
TakenInRows(n, i) == \E j \in Ids \ {i} : rows[j] # None /\ rows[j].name = n

-----------------------------------------------------------------------------
(* createUser. *)

Create(r, n) ==
    /\ req[r].at = "new"
    /\ req' = [req EXCEPT ![r] = [Waiting EXCEPT !.at = "account", !.op = "create", !.name = n]]
    /\ UNCHANGED <<accounts, rows, mapped, syncs, issued, failed, finished>>

\* Mutant of CreateAccount: a 409 is taken for success.
CreateOrAdopt(r) ==
    /\ At(r, "create", "account")
    /\ \E i \in Ids :
        /\ IF TakenInKeycloak(req[r].name, None)
           THEN /\ accounts[i] # None /\ accounts[i].name = req[r].name
                /\ UNCHANGED accounts
           ELSE i \notin issued /\ accounts' = [accounts EXCEPT ![i] =
                    [name |-> req[r].name, enabled |-> TRUE]]
        /\ issued' = issued \cup {i}
        /\ req' = [req EXCEPT ![r].at = "row", ![r].id = i]
    /\ UNCHANGED <<rows, mapped, syncs, failed, finished>>

CreateAccount(r) ==
    /\ At(r, "create", "account")
    /\ ~TakenInKeycloak(req[r].name, None)
    /\ \E i \in Ids \ issued :
        /\ accounts' = [accounts EXCEPT ![i] = [name |-> req[r].name, enabled |-> TRUE]]
        /\ issued' = issued \cup {i}
        /\ req' = [req EXCEPT ![r].at = "row", ![r].id = i]
    /\ UNCHANGED <<rows, mapped, syncs, failed, finished>>

\* 409, no admin token, an error or no answer; then the account may be there.
CreateAccountFails(r) ==
    /\ At(r, "create", "account")
    /\ \/ /\ TakenInKeycloak(req[r].name, None) \/ "keycloak" \in Faults
          /\ Fail(r, None)
          /\ UNCHANGED <<accounts, issued>>
       \/ /\ "keycloak" \in Faults /\ ~TakenInKeycloak(req[r].name, None)
          /\ \E i \in Ids \ issued :
              /\ accounts' = [accounts EXCEPT ![i] =
                                [name |-> req[r].name, enabled |-> TRUE]]
              /\ issued' = issued \cup {i}
              /\ Fail(r, i)
    /\ UNCHANGED <<rows, mapped, syncs>>

InsertRow(r) ==
    /\ At(r, "create", "row")
    /\ ~TakenInRows(req[r].name, req[r].id)
    /\ rows' = [rows EXCEPT ![req[r].id] =
                    [name |-> req[r].name, status |-> "active", devices |-> <<>>]]
    /\ GoOn(r, "mappings")
    /\ UNCHANGED <<accounts, mapped, syncs, issued>>

InsertRowFails(r) ==
    /\ At(r, "create", "row")
    /\ TakenInRows(req[r].name, req[r].id) \/ "database" \in Faults
    /\ Fail(r, req[r].id)
    /\ UNCHANGED <<accounts, rows, mapped, syncs, issued>>

InsertMappings(r) ==
    /\ At(r, "create", "mappings")
    /\ rows[req[r].id] # None
    /\ mapped' = mapped \cup {req[r].id}
    /\ Succeed(r, req[r].id)
    /\ UNCHANGED <<accounts, rows, syncs, issued>>

\* Mutant of InsertMappingsFails: the error is logged and not thrown again.
ForgetsMappings(r) ==
    /\ At(r, "create", "mappings")
    /\ rows[req[r].id] = None \/ "database" \in Faults
    /\ Succeed(r, req[r].id)
    /\ UNCHANGED <<accounts, rows, mapped, syncs, issued>>

\* Also when the row that the mappings refer to is gone.
InsertMappingsFails(r) ==
    /\ At(r, "create", "mappings")
    /\ rows[req[r].id] = None \/ "database" \in Faults
    /\ Fail(r, req[r].id)
    /\ UNCHANGED <<accounts, rows, mapped, syncs, issued>>

-----------------------------------------------------------------------------
(* updateUser. *)

\* Mutant of loginDeviceIdAction: the oldest device is kept.
KeepsEveryDevice(ds, d) == IF Contains(ds, d) THEN ds ELSE Append(ds, d)

\* A fourth device replaces the oldest.
loginDeviceIdAction(ds, d) ==
    IF Contains(ds, d) THEN ds
    ELSE Append(IF Len(ds) = 3 THEN Tail(ds) ELSE ds, d)

\* The devices other than d; a function, for the proofs.
onLogoutDeviceId(ds, d) ==
    LET keep[n \in 0..Len(ds)] ==
          IF n = 0 THEN <<>>
          ELSE IF ds[n] = d THEN keep[n - 1] ELSE Append(keep[n - 1], ds[n])
    IN  keep[Len(ds)]

NewDevices(ds, c) ==
    IF c.device = None THEN None
    ELSE IF c.device[1] = "add" THEN loginDeviceIdAction(ds, c.device[2])
    ELSE onLogoutDeviceId(ds, c.device[2])

\* The row is read, and the new list of devices is made from it.
Update(r, i, c) ==
    /\ req[r].at = "new"
    /\ MayStart(i, c)
    /\ rows[i] # None
    /\ req' = [req EXCEPT ![r] = [Waiting EXCEPT
            !.at = IF c.name # None THEN "check" ELSE IF c.details THEN "account" ELSE "find",
            !.op = "update", !.id = i, !.change = c,
            !.devices = NewDevices(rows[i].devices, c)]]
    /\ UNCHANGED <<accounts, rows, mapped, syncs, issued, failed, finished>>

\* checkUserinKeyCloakandDb: the name is taken, perhaps by this user itself.  A
\* lookup that fails counts as a free name.
CheckName(r) ==
    /\ At(r, "update", "check")
    /\ ~TakenInKeycloak(req[r].change.name, None) \/ "keycloak" \in Faults
    /\ GoOn(r, "account")
    /\ UNCHANGED <<accounts, rows, mapped, syncs, issued>>

\* ... or there is no admin token.
NameRefused(r) ==
    /\ At(r, "update", "check")
    /\ TakenInKeycloak(req[r].change.name, None) \/ "keycloak" \in Faults
    /\ Fail(r, None)
    /\ UNCHANGED <<accounts, rows, mapped, syncs, issued>>

NewName(r) ==
    IF req[r].change.name # None THEN req[r].change.name ELSE accounts[req[r].id].name

CanPut(r) ==
    /\ accounts[req[r].id] # None
    /\ ~TakenInKeycloak(NewName(r), req[r].id)

\* updateUserInKeyCloak, whose body always enables the account.
Put(r) ==
    /\ CanPut(r)
    /\ accounts' = [accounts EXCEPT ![req[r].id] =
                        [name |-> NewName(r), enabled |-> TRUE]]

PutAccount(r) ==
    /\ At(r, "update", "account")
    /\ Put(r)
    /\ GoOn(r, "find")
    /\ UNCHANGED <<rows, mapped, syncs, issued>>

\* Mutant of PutAccountFails: the row is updated all the same.
PutAnyhow(r) ==
    /\ At(r, "update", "account")
    /\ \/ (~CanPut(r) \/ "keycloak" \in Faults) /\ UNCHANGED accounts
       \/ "keycloak" \in Faults /\ Put(r)
    /\ GoOn(r, "find")
    /\ UNCHANGED <<rows, mapped, syncs, issued>>

PutAccountFails(r) ==
    /\ At(r, "update", "account")
    /\ \/ (~CanPut(r) \/ "keycloak" \in Faults) /\ UNCHANGED accounts
       \/ "keycloak" \in Faults /\ Put(r)
    /\ Fail(r, req[r].id)
    /\ UNCHANGED <<rows, mapped, syncs, issued>>

\* updateBasicUserDetails reads the row again and lays the body over it; a row
\* that is gone is no error.
Assigned(row, c, ds) ==
    [name |-> IF c.name # None THEN c.name ELSE row.name,
     status |-> IF c.status # None THEN c.status ELSE row.status,
     devices |-> IF ds # None THEN ds ELSE row.devices]

FindRow(r) ==
    /\ At(r, "update", "find")
    /\ LET row == rows[req[r].id] IN
       req' = IF row = None THEN [req EXCEPT ![r].at = "status"]
              ELSE [req EXCEPT ![r].at = "save",
                        ![r].entity = Assigned(row, req[r].change, req[r].devices)]
    /\ UNCHANGED <<accounts, rows, mapped, syncs, issued, failed, finished>>

\* save writes the whole entity, and inserts it if the row is gone by now.
SaveRow(r) ==
    /\ At(r, "update", "save")
    /\ ~TakenInRows(req[r].entity.name, req[r].id)
    /\ rows' = [rows EXCEPT ![req[r].id] = req[r].entity]
    /\ GoOn(r, "status")
    /\ UNCHANGED <<accounts, mapped, syncs, issued>>

SaveRowFails(r) ==
    /\ At(r, "update", "save")
    /\ TakenInRows(req[r].entity.name, req[r].id) \/ "database" \in Faults
    /\ Fail(r, req[r].id)
    /\ UNCHANGED <<accounts, rows, mapped, syncs, issued>>

\* A new status is sent to Keycloak in the background; the reply does not wait.
StartSync(r) ==
    /\ At(r, "update", "status")
    /\ syncs' = IF req[r].change.status = None THEN syncs
                ELSE [syncs EXCEPT ![r] =
                    [id |-> req[r].id, enabled |-> req[r].change.status = "active"]]
    /\ Succeed(r, req[r].id)
    /\ UNCHANGED <<accounts, rows, mapped, issued>>

\* syncUserStatusWithKeycloak; its failure is only logged.
Sync(r) ==
    /\ syncs[r] # None
    /\ accounts[syncs[r].id] # None
    /\ accounts' = [accounts EXCEPT ![syncs[r].id].enabled = syncs[r].enabled]
    /\ syncs' = [syncs EXCEPT ![r] = None]
    /\ UNCHANGED <<rows, mapped, req, issued, failed, finished>>

SyncFails(r) ==
    /\ syncs[r] # None
    /\ accounts[syncs[r].id] = None \/ "keycloak" \in Faults
    /\ syncs' = [syncs EXCEPT ![r] = None]
    /\ UNCHANGED <<accounts, rows, mapped, req, issued, failed, finished>>

-----------------------------------------------------------------------------
(* deleteUserById. *)

Delete(r, i) ==
    /\ req[r].at = "new"
    /\ MayStart(i, NoChange)
    /\ rows[i] # None
    /\ req' = [req EXCEPT ![r] = [Waiting EXCEPT !.at = "mappings", !.op = "delete", !.id = i]]
    /\ UNCHANGED <<accounts, rows, mapped, syncs, issued, failed, finished>>

DeleteMappings(r) ==
    /\ At(r, "delete", "mappings")
    /\ mapped' = mapped \ {req[r].id}
    /\ GoOn(r, "row")
    /\ UNCHANGED <<accounts, rows, syncs, issued>>

\* A mapping made in the meantime keeps the row.
DeleteRow(r) ==
    /\ At(r, "delete", "row")
    /\ req[r].id \notin mapped
    /\ rows' = [rows EXCEPT ![req[r].id] = None]
    /\ GoOn(r, "account")
    /\ UNCHANGED <<accounts, mapped, syncs, issued>>

DeleteRowsFails(r) ==
    /\ At(r, "delete", "mappings") \/ At(r, "delete", "row")
    /\ "database" \in Faults \/ (req[r].at = "row" /\ req[r].id \in mapped)
    /\ Fail(r, req[r].id)
    /\ UNCHANGED <<accounts, rows, mapped, syncs, issued>>

DeleteAccount(r) ==
    /\ At(r, "delete", "account")
    /\ accounts[req[r].id] # None
    /\ accounts' = [accounts EXCEPT ![req[r].id] = None]
    /\ Succeed(r, req[r].id)
    /\ UNCHANGED <<rows, mapped, syncs, issued>>

\* No admin token, 404, an error or no answer; then the account may be gone.
DeleteAccountFails(r) ==
    /\ At(r, "delete", "account")
    /\ \/ (accounts[req[r].id] = None \/ "keycloak" \in Faults) /\ UNCHANGED accounts
       \/ "keycloak" \in Faults /\ accounts' = [accounts EXCEPT ![req[r].id] = None]
    /\ Fail(r, req[r].id)
    /\ UNCHANGED <<rows, mapped, syncs, issued>>

-----------------------------------------------------------------------------
Next ==
    \E r \in Requests :
        \/ \E n \in Names : Create(r, n)
        \/ CreateAccount(r) \/ CreateAccountFails(r)
        \/ InsertRow(r) \/ InsertRowFails(r)
        \/ InsertMappings(r) \/ InsertMappingsFails(r)
        \/ \E i \in Ids, c \in Changes : Update(r, i, c)
        \/ CheckName(r) \/ NameRefused(r) \/ PutAccount(r) \/ PutAccountFails(r)
        \/ FindRow(r) \/ SaveRow(r) \/ SaveRowFails(r)
        \/ StartSync(r) \/ Sync(r) \/ SyncFails(r)
        \/ \E i \in Ids : Delete(r, i)
        \/ DeleteMappings(r) \/ DeleteRow(r) \/ DeleteRowsFails(r)
        \/ DeleteAccount(r) \/ DeleteAccountFails(r)

Spec == Init /\ [][Next]_vars

-----------------------------------------------------------------------------
(* Properties. *)

\* The types of the variables.
TypeOK ==
    /\ accounts \in [Ids -> Account \cup {None}]
    /\ rows \in [Ids -> UserRow \cup {None}]
    /\ mapped \subseteq Ids /\ issued \subseteq Ids /\ failed \subseteq Ids
    /\ finished \subseteq {"create", "update", "delete"} \X Ids
    /\ syncs \in [Requests -> [id : Ids, enabled : BOOLEAN] \cup {None}]
    /\ \A r \in Requests : req[r].id \in Ids \cup {None}

\* A row always has its account, although neither store knows the other: an
\* account is made before its row and deleted after it.
RowsHaveAccounts == \A i \in Ids : rows[i] # None => accounts[i] # None

Disagree(i) ==
    \/ (accounts[i] # None) # (rows[i] # None)
    \/ accounts[i] # None /\ rows[i] # None /\ accounts[i].name # rows[i].name

\* The stores never part silently: where they disagree on a user, a request about
\* that user is under way or has answered with an error.
DivergenceIsReported == \A i \in Ids : Disagree(i) => i \in Busy \cup failed

\* A user whose creation succeeded is complete until its deletion begins.
CreatedIsComplete ==
    \A i \in Ids :
        /\ <<"create", i>> \in finished
        /\ \A r \in Requests : req[r].op = "delete" => req[r].id # i
        => accounts[i] # None /\ rows[i] # None /\ i \in mapped

\* A user has at most three devices, none of them twice, whatever the logins and
\* logouts that overlap.
DevicesBounded ==
    \A i \in Ids : rows[i] # None =>
        Len(rows[i].devices) <= 3 /\ IsInjective(rows[i].devices)
=============================================================================
