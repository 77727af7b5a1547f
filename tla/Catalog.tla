------------------------------ MODULE Catalog ------------------------------
(***************************************************************************)
(* The data that describe the service rather than its users: tenants,      *)
(* academic years and cohorts, rules of automatic membership, codes, and   *)
(* the options of fields.  Requests for all of them run next to each other *)
(* in one process; they meet only in the tables.                           *)
(***************************************************************************)
EXTENDS Tenants, Years, Codes, Options

ASSUME CatalogAssumption ==
    /\ IsFiniteSet(TenantIds) /\ Params \cap Sourced = {} /\ Dependent \subseteq Sourced
    /\ \A f \in FirstTenants : f \in [TenantIds -> TenantRow \cup {None}] /\ IsTree(f)
    /\ Top \notin TenantIds
    /\ None \notin TenantIds \cup TenantRow \cup Names \cup {Top} \cup Schools
                    \cup YearRow \cup RuleRow \cup CodeRow \cup RuleIds
    /\ \A c \in Scenarios :
        c.ops \subseteq TenantOps \cup YearOps \cup RuleOps \cup CodeOps \cup OptionOps

vars == <<tenants, yearVars, codes, optionVars, run, shared>>

Init == InitHandlers /\ InitTenants /\ InitYears /\ InitCodes /\ InitOptions

\* A request arrives, by what it competes for.
First(o) ==
    CASE o.name \in {"createTenants", "updateTenants", "deleteTenants"} -> FirstOfTenant(o)
      [] o.name \in {"createAcademicYear", "createCohort", "createCohortAcademicYear",
                     "updateCohort", "updateUser", "create", "update", "remove"} -> FirstOfYear(o)
      [] \E x \in o.of : x[1] \in CodeTables -> FirstOfCode(o)
      [] OTHER -> FirstOfOption(o)

Start(r, o) == Arrive(r, o, First(o)) /\ UNCHANGED <<tenants, yearVars, codes, optionVars>>

Next ==
    \E r \in Requests :
        \/ \E o \in scenario.ops : Start(r, o)
        \/ NextTenants(r) /\ UNCHANGED <<yearVars, codes, optionVars>>
        \/ NextYears(r) /\ UNCHANGED <<tenants, codes, optionVars>>
        \/ NextCodes(r) /\ UNCHANGED <<tenants, yearVars, optionVars>>
        \/ NextOptions(r) /\ UNCHANGED <<tenants, yearVars, codes>>
        \/ Abort(r) /\ UNCHANGED <<tenants, yearVars, codes, optionVars>>

Spec == Init /\ [][Next]_vars

\* The types of the variables.
TypeOK ==
    /\ tenants \in [TenantIds -> TenantRow \cup {None}]
    /\ years \in [YearIds -> YearRow \cup {None}]
    /\ cohorts \in [CohortIds -> Schools \cup {None}]
    /\ yearOf \subseteq CohortIds \X YearIds /\ moved \subseteq CohortIds
    /\ byHand \subseteq Users
    /\ rules \in [RuleIds -> RuleRow \cup {None}]
    /\ codes \in [CodeIds -> CodeRow \cup {None}]
    /\ options \in [OptionFields -> SUBSET Option]
    /\ offered \in [OptionFields -> SUBSET Option]
=============================================================================
