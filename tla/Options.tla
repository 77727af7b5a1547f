------------------------------ MODULE Options ------------------------------
(***************************************************************************)
(* The options that a custom field offers: a JSON list in the column       *)
(* fieldParams of the field, or the rows of a table that the field names.  *)
(* createFields and updateFields add options one by one, reading before    *)
(* they write; deleteFieldOptions takes options out.  The list is written  *)
(* back as a whole.                                                        *)
(***************************************************************************)
EXTENDS Handlers

CONSTANTS
    Params,     \* fields that keep their options in fieldParams
    Sourced,    \* fields that keep them in a table of their own
    Dependent,  \* those of them that depend on another field
    OptionNames \* names and values of options

VARIABLES
    options,    \* per field its options
    offered     \* history: per field the options that the requests answered with
                \* success amount to, but for those that are refused

optionVars == <<options, offered>>
OptionFields == Params \cup Sourced
Option == [name : OptionNames, value : OptionNames]

\* asked: the options of the body; None, if it has no fieldParams.  ruled: those that come
\* with a controllingfieldfk.  remove: the option to delete, None for none.
\* createFields: only of fields with a table, whose rows may be older than the field.
OptionOp(name, field, asked, ruled, isCreate, remove) ==
    [name |-> name, field |-> field, asked |-> asked, ruled |-> ruled, isCreate |-> isCreate,
     remove |-> remove, of |-> {<<"options", field>>}]

\* What may be asked for.
OptionOps ==
    {o \in [name : {"createFields", "updateFields", "deleteFieldOptions"},
            field : OptionFields, asked : (SUBSET Option) \cup {None}, ruled : SUBSET Option,
            isCreate : BOOLEAN, remove : OptionNames \cup {None},
            of : {{<<"options", f>>} : f \in OptionFields}] :
        /\ o.of = {<<"options", o.field>>}
        /\ o.name = "createFields" => o.field \in Sourced /\ o.asked # None
        /\ o.name = "deleteFieldOptions" => o.asked = {}}

InitOptions ==
    /\ options = [f \in OptionFields |-> {}]
    /\ offered = options

FirstOfOption(o) ==
    IF o.name = "deleteFieldOptions" THEN IF o.field \in Sourced THEN "delete" ELSE "check"
    ELSE IF o.asked = {} THEN "update" ELSE "options"

\* The options of the body that are inserted or renamed: in a table an option of a field
\* that depends on another is not inserted without its controllingfieldfk.
Taken(o) ==
    IF o.asked = None THEN {}
    ELSE IF o.field \in Dependent /\ o.isCreate THEN o.asked \cap o.ruled ELSE o.asked

WithValue(S, v) == {o \in S : o.value = v}
Updating(r, here) == At(r, {"createFields", "updateFields"}, here)

\* The next option, left: those done; after the last the field is written.
Loop(f) == [Then(f, IF f.left = f.op.asked THEN "update" ELSE "options") EXCEPT !.seen = None]

-----------------------------------------------------------------------------
(* updateFields, and createFields of a field with a table. *)

\* A body without options: fieldParams of a field that keeps them there must be given,
\* or reading them throws.
NoOptions(r) ==
    /\ Updating(r, "options") /\ run[r].op.asked = None
    /\ IF run[r].op.field \in Params THEN End(r) ELSE Go(r, "update")
    /\ UNCHANGED <<optionVars, shared>>

Done(r, o) == [Then(run[r], "update") EXCEPT !.left = @ \cup {o}, !.seen = {o}]

\* In the list: whether there is an option with the value.
FindParam(r) ==
    /\ Updating(r, "options") /\ run[r].op.field \in Params /\ run[r].op.asked # None
    /\ \E o \in run[r].op.asked \ run[r].left :
        Set(r, IF WithValue(options[run[r].op.field], o.value) # {} THEN Loop(Done(r, o))
               ELSE [Done(r, o) EXCEPT !.at = "read"])
    /\ UNCHANGED <<optionVars, shared>>

\* In a table there must be one, or must not: isCreate says which.  Otherwise 400 or
\* 409, whatever the loop has written so far.
FindRow(r) ==
    /\ Updating(r, "options") /\ run[r].op.field \in Sourced /\ run[r].op.asked # None
    /\ \E o \in run[r].op.asked \ run[r].left :
        IF (WithValue(options[run[r].op.field], o.value) # {}) = run[r].op.isCreate
        THEN End(r) /\ failed' = IF run[r].wrote THEN failed \cup run[r].op.of ELSE failed
        ELSE Set(r, [Done(r, o) EXCEPT !.at = "write"]) /\ UNCHANGED failed
    /\ UNCHANGED <<optionVars, raced, scenario>>

\* addOptionsInFieldParams reads the list, ...
ReadOptions(r) ==
    /\ Updating(r, "read")
    /\ Set(r, [Then(run[r], "write") EXCEPT !.seen = options[run[r].op.field] \cup @])
    /\ UNCHANGED <<optionVars, shared>>

\* Mutant of WriteOption: an option without its controllingfieldfk is inserted too.
WriteAnyOption(r) ==
    /\ Updating(r, "write")
    /\ options' = [options EXCEPT ![run[r].op.field] =
            IF run[r].op.field \in Params THEN run[r].seen
            ELSE {p \in @ : WithValue(run[r].seen, p.value) = {}} \cup run[r].seen]
    /\ Writes(r, run[r].op.of)
    /\ Set(r, [Loop(run[r]) EXCEPT !.wrote = TRUE])
    /\ UNCHANGED <<offered, failed, scenario>>

\* ... and writes it with the option.  A row of a table is inserted, if it is one that is
\* taken, or renamed.
WriteOption(r) ==
    /\ Updating(r, "write")
    /\ LET f == run[r].op.field
           new == run[r].seen
       IN options' = [options EXCEPT ![f] =
            IF f \in Params THEN new
            ELSE IF run[r].op.isCreate THEN @ \cup (new \cap Taken(run[r].op))
            ELSE {p \in @ : WithValue(new, p.value) = {}} \cup
                 {o \in new : WithValue(@, o.value) # {}}]
    /\ Writes(r, run[r].op.of)
    /\ Set(r, [Loop(run[r]) EXCEPT !.wrote = TRUE])
    /\ UNCHANGED <<offered, failed, scenario>>

\* fieldParams of the body replaces the list, the options that were added included; of
\* a field with a table it is deleted from the update.  The reply of createFields names
\* the options that were not inserted, that of updateFields is the same with and without them.
UpdateField(r) ==
    /\ Updating(r, "update")
    /\ LET o == run[r].op
           f == o.field
           taken == Taken(o)
           stays == {p \in offered[f] : WithValue(taken, p.value) = {}}
       IN /\ options' = IF f \in Params THEN [options EXCEPT ![f] = taken] ELSE options
          /\ offered' = [offered EXCEPT ![f] = IF f \in Params THEN taken ELSE stays \cup taken]
    /\ Writes(r, run[r].op.of)
    /\ End(r)
    /\ UNCHANGED <<failed, scenario>>

-----------------------------------------------------------------------------
(* deleteFieldOptions. *)

\* In a table; without an option, all of them.  404 if there is none.
DeleteRows(r) ==
    /\ At(r, {"deleteFieldOptions"}, "delete")
    /\ LET f == run[r].op.field
           gone == IF run[r].op.remove = None THEN options[f]
                   ELSE WithValue(options[f], run[r].op.remove)
       IN /\ options' = [options EXCEPT ![f] = @ \ gone]
          /\ offered' = IF gone = {} THEN offered ELSE [offered EXCEPT ![f] =
                IF run[r].op.remove = None THEN {} ELSE @ \ WithValue(@, run[r].op.remove)]
          /\ Writes(r, run[r].op.of)
    /\ End(r)
    /\ UNCHANGED <<failed, scenario>>

\* In the list: an option with the value is there, ...
CheckOption(r) ==
    /\ At(r, {"deleteFieldOptions"}, "check")
    /\ LET now == options[run[r].op.field] IN
       IF WithValue(now, run[r].op.remove) = {} THEN End(r)
       ELSE Set(r, [Then(run[r], "filter") EXCEPT !.seen = now])
    /\ UNCHANGED <<optionVars, shared>>

\* ... and those with the name are taken out of what was read.
FilterOptions(r) ==
    /\ At(r, {"deleteFieldOptions"}, "filter")
    /\ LET f == run[r].op.field
           x == run[r].op.remove
       IN /\ options' = [options EXCEPT ![f] = {o \in run[r].seen : o.name # x}]
          /\ offered' = [offered EXCEPT ![f] = @ \ WithValue(@, x)]
    /\ Writes(r, run[r].op.of)
    /\ End(r)
    /\ UNCHANGED <<failed, scenario>>

NextOptions(r) ==
    \/ NoOptions(r) \/ FindParam(r) \/ FindRow(r) \/ ReadOptions(r) \/ WriteOption(r) \/ UpdateField(r)
    \/ DeleteRows(r) \/ CheckOption(r) \/ FilterOptions(r)
-----------------------------------------------------------------------------
\* A field offers what the requests that were answered with success have asked for, but
\* for options that may not be inserted: those of fieldParams replace the list, those of
\* a table add to it and rename, and a deletion takes out the option of that value.  This fails if two requests for the
\* field overlapped, one failed half way, or fieldParams has an option whose name is not
\* its value: the deletion finds it by the one and filters by the other.
OptionsAsAnswered ==
    \A f \in OptionFields :
        \/ options[f] = offered[f]
        \/ ~Settled(<<"options", f>>)
        \/ f \in Params /\ \E o \in options[f] \cup offered[f] : o.name # o.value
=============================================================================
