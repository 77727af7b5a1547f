------------------------------- MODULE Codes -------------------------------
(***************************************************************************)
(* The tables whose rows should be unique by a key, which no constraint    *)
(* enforces: roles by code and tenant, privileges by code, forms by        *)
(* context, type and tenant, fields by context, type and name, the values  *)
(* of fields by item and field.  Some handlers look before they insert,    *)
(* and differ in what they do when they find a row; some do not look.      *)
(***************************************************************************)
EXTENDS Handlers

CONSTANTS
    CodeIds,    \* ids of rows, of any of the tables
    Keys        \* keys, of any of the tables

VARIABLES
    codes       \* per id a row, or None

CodeTables == {"Roles", "Privileges", "Forms", "Fields", "FieldValues"}

\* looked, a column of history: its writer looked for a row with the key, and would not
\* have written it beside one.
CodeRow == [table : CodeTables, key : Keys, looked : BOOLEAN]

\* keys: of the rows to write or to delete; id: of the role or privilege to change.
CodeOp(name, table, keys, id) ==
    [name |-> name, table |-> table, keys |-> keys, id |-> id,
     of |-> {<<table, k>> : k \in keys}]

\* What may be asked for: of one key, or of several.
OpsOn(table, names, K, ids) ==
    {CodeOp(name, table, keys, id) : name \in names, keys \in K, id \in ids}
CodeOps ==
    LET One == {{k} : k \in Keys}
        Some == {K \in SUBSET Keys : K # {}}
    IN OpsOn("Roles", {"createRole"}, Some, {None})
       \cup OpsOn("Roles", {"updateRole"}, One, CodeIds)
       \cup OpsOn("Privileges", {"createPrivilege"}, Some, {None})
       \cup OpsOn("Privileges", {"deletePrivilege"}, One, CodeIds)
       \cup OpsOn("Forms", {"createForm"}, One, {None})
       \cup OpsOn("Fields", {"createFields"}, One, {None})
       \cup OpsOn("Fields", {"renameField"}, One, CodeIds)
       \cup OpsOn("FieldValues", {"deleteFieldValues"}, Some, {None})
       \cup OpsOn("FieldValues", {"createFieldValues", "updateCustomFields",
                                  "updateUserCustomFields"}, One, {None})

InitCodes == codes = [m \in CodeIds |-> None]

Having(table, k) == {m \in CodeIds : codes[m] # None /\ codes[m].table = table /\ codes[m].key = k}
Row(table, k, looked) == [table |-> table, key |-> k, looked |-> looked]
Insert(table, k, looked) ==
    \E m \in CodeIds : codes[m] = None /\ codes' = [codes EXCEPT ![m] = Row(table, k, looked)]

\* updateRole; and updateFields with a name, a context or a type of context.
Renames == {"updateRole", "renameField"}

FirstOfCode(o) ==
    CASE o.name \in Renames \cup {"updateUserCustomFields"} -> "save"
      [] o.name \in {"deletePrivilege", "deleteFieldValues"} -> "delete"
      [] o.name = "updateCustomFields" -> "update"
      [] OTHER -> "look"

\* createRole and createPrivilege, one dto after the other: what is there is passed over.
Skips == {"createRole", "createPrivilege"}
\* createForm and createFieldValues (findAndSaveFieldValues): what is there is refused.
Refuses == {"createForm", "createFieldValues"}
\* createFields: the reply is 409, and what follows runs all the same.
Repeats == {"createFields"}
Looks == Skips \cup Refuses \cup Repeats

\* Mutant of Look: the roles that are there are created again.
LookAway(r) ==
    /\ At(r, Looks, "look")
    /\ \E k \in run[r].op.keys \ run[r].left :
         IF Having(run[r].op.table, k) = {} \/ run[r].op.name \notin Refuses
         THEN Set(r, [Then(run[r], "save") EXCEPT !.seen = k, !.left = @ \cup {k}])
         ELSE End(r)
    /\ UNCHANGED <<codes, shared>>

\* Whether there is a row with the next key; left: those done.
Look(r) ==
    /\ At(r, Looks, "look")
    /\ \E k \in run[r].op.keys \ run[r].left :
         LET done == [Then(run[r], "save") EXCEPT !.seen = k, !.left = @ \cup {k}] IN
         IF Having(run[r].op.table, k) = {} \/ run[r].op.name \in Repeats THEN Set(r, done)
         ELSE IF run[r].op.name \in Refuses \/ done.left = run[r].op.keys THEN End(r)
         ELSE Set(r, [done EXCEPT !.at = "look"])
    /\ UNCHANGED <<codes, shared>>

\* checkExistingPrivilege answers a database error with an object, which is taken for
\* a privilege that exists: the loop goes on.
LookFails(r) ==
    /\ At(r, {"createPrivilege"}, "look")
    /\ "database" \in scenario.faults
    /\ \E k \in run[r].op.keys \ run[r].left :
         IF run[r].left \cup {k} = run[r].op.keys THEN End(r)
         ELSE Set(r, [run[r] EXCEPT !.left = @ \cup {k}])
    /\ UNCHANGED <<codes, shared>>

SaveCode(r) ==
    /\ At(r, Looks, "save")
    /\ LET o == run[r].op
           k == run[r].seen
       IN /\ Insert(o.table, k, o.name \notin Repeats)
          /\ Writes(r, {<<o.table, k>>})
          /\ IF run[r].left = o.keys THEN End(r)
             ELSE Set(r, [Then(run[r], "look") EXCEPT !.wrote = TRUE])
    /\ UNCHANGED <<failed, scenario>>

\* A role or a field gets another key; updateUserCustomFields, called for new users and by
\* assign-tenant for others, inserts.
SaveBlindly(r) ==
    /\ At(r, Renames \cup {"updateUserCustomFields"}, "save")
    /\ \E k \in run[r].op.keys :
        /\ IF run[r].op.name = "updateUserCustomFields" THEN Insert(run[r].op.table, k, FALSE)
           ELSE codes' = [codes EXCEPT ![run[r].op.id] =
                    IF @ # None /\ @.table = run[r].op.table
                    THEN Row(run[r].op.table, k, FALSE) ELSE @]
        /\ Writes(r, {<<run[r].op.table, k>>})
    /\ End(r)
    /\ UNCHANGED <<failed, scenario>>

\* updateCustomFields updates all rows of the item and field, and inserts one if there
\* is none: two statements.
UpdateValues(r) ==
    /\ At(r, {"updateCustomFields"}, "update")
    /\ \E k \in run[r].op.keys :
        IF Having("FieldValues", k) = {}
        THEN Set(r, [Then(run[r], "insert") EXCEPT !.seen = k]) ELSE End(r)
    /\ UNCHANGED <<codes, shared>>

InsertValue(r) ==
    /\ At(r, {"updateCustomFields"}, "insert")
    /\ Insert("FieldValues", run[r].seen, TRUE) /\ Writes(r, {<<"FieldValues", run[r].seen>>})
    /\ End(r)
    /\ UNCHANGED <<failed, scenario>>

\* A privilege by its id, and after it what roles have of it.
DeletePrivilege(r) ==
    /\ At(r, {"deletePrivilege"}, "delete")
    /\ codes' = [codes EXCEPT ![run[r].op.id] =
            IF @ # None /\ @.table = "Privileges" THEN None ELSE @]
    /\ End(r)
    /\ UNCHANGED shared

\* The values of all the keys, in one statement.
DeleteValues(r) ==
    /\ At(r, {"deleteFieldValues"}, "delete")
    /\ LET gone == UNION {Having("FieldValues", k) : k \in run[r].op.keys} IN
       codes' = [m \in CodeIds |-> IF m \in gone THEN None ELSE codes[m]]
    /\ End(r)
    /\ UNCHANGED shared

NextCodes(r) ==
    \/ Look(r) \/ LookFails(r) \/ SaveCode(r) \/ SaveBlindly(r)
    \/ UpdateValues(r) \/ InsertValue(r) \/ DeletePrivilege(r) \/ DeleteValues(r)
-----------------------------------------------------------------------------
\* Of the rows that a handler writes after it has looked for the key no two have one key,
\* unless two requests for the key overlapped.  updateRole, updateFields and
\* updateUserCustomFields do not look, and createFields, which answers that the field
\* exists, saves another all the same.
KeysUnique ==
    \A m, n \in CodeIds :
        /\ m # n /\ codes[m] # None /\ codes[n] # None
        /\ codes[m].table = codes[n].table /\ codes[m].key = codes[n].key
        /\ codes[m].looked /\ codes[n].looked
        => <<codes[m].table, codes[m].key>> \in raced
=============================================================================
