------------------------------- MODULE Views --------------------------------
(***************************************************************************)
(* Searches, hierarchies and events over one set of tables: what is read   *)
(* in several statements, while others write.                              *)
(***************************************************************************)
EXTENDS UserSearch, Geography, Events

vars == <<tables, notes, run, events>>

Init == InitTables /\ InitEvents

\* A request arrives, once.
Arrive(r) ==
    /\ At(r, "new") /\ r \in scenario.by
    /\ \E o \in scenario.ops :
          Set(r, [run[r] EXCEPT !.op = o, !.at = CASE o.name = "search" -> "parent"
                                                   [] o.name = "hierarchy" -> "cohorts"
                                                   [] OTHER -> "write"])
    /\ UNCHANGED <<tables, notes, events>>

Next ==
    \/ \E r \in Requests :
          \/ Arrive(r)
          \/ (Search(r) \/ Hierarchy(r)) /\ UNCHANGED events
          \/ Handle(r)
    \/ Publish
    \/ Change /\ UNCHANGED events

Spec == Init /\ [][Next]_vars

TypeOK ==
    /\ mapped \in [Users -> [Tenants -> {"active", "inactive", None}]]
    /\ roles \subseteq Users \X Tenants \X Roles
    /\ DOMAIN name = Users /\ DOMAIN member = Memberships /\ DOMAIN status = Cohorts
    /\ \A p \in pubs : p.key \in Keys /\ p.by \in Requests
    /\ torn \subseteq Requests /\ moved \subseteq Requests \X Cohorts /\ excused \subseteq Keys
=============================================================================
