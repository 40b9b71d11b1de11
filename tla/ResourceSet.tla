---------------------------- MODULE ResourceSet ----------------------------
(***************************************************************************)
(* Constraint resource sets of src/pcs/lib/cib/constraint/resource_set.py *)
(* together with the report processor gate (spec.md 4.1), the validators   *)
(* of spec.md 4.2 and the unique-id allocator of spec.md 4.3.              *)
(*                                                                         *)
(* One step is one "constraint ... set" command: a new constraint element  *)
(* is added, each raw set is passed through prepare_set in order (the      *)
(* first one whose validation leaves the report processor with errors      *)
(* raises LibraryError and nothing is written), then create() appends the  *)
(* prepared sets one after another under the constraint.                   *)
(*                                                                         *)
(* An XML id is a sequence of tokens, so that "{0}_set".format(...) and    *)
(* "{0}-{1}".format(...) are concatenations and string equality is         *)
(* sequence equality.                                                      *)
(***************************************************************************)
EXTENDS Integers, FiniteSets, Sequences, TLC

CONSTANTS
    OtherIds,           \* ids of elements already in the CIB (resources, ...)
    ResourceIds,        \* ids a resource_ref may point to, subset of OtherIds
    ConstraintIds,      \* ids the commands give to their new constraints
    RawSetInput,        \* raw sets [ids, options] an operator can type
    MaxSetsPerCommand   \* bound: sets in one command

ASSUME ResourceIds \subseteq OtherIds /\ ConstraintIds \cap OtherIds = {}

VARIABLES
    schemaNew,    \* are_new_role_names_supported: CIB schema >= 3.7
    constraints,  \* ids of the constraints the commands created
    sets,         \* created resource_set elements [id, parent, ids, options],
                  \* each with the prepared set it was created from (input)
    reports,      \* report items of the last command
    lastInput     \* the raw sets of the last command (history)

vars == <<schemaNew, constraints, sets, reports, lastInput>>

-----------------------------------------------------------------------------
(* Role vocabulary (pcs.common.const) and schema translation               *)

PCMK_ROLE_PROMOTED == "Promoted"
PCMK_ROLE_UNPROMOTED == "Unpromoted"
PCMK_ROLE_PROMOTED_LEGACY == "Master"
PCMK_ROLE_UNPROMOTED_LEGACY == "Slave"
PCMK_ROLES == {"Stopped", "Started", PCMK_ROLE_PROMOTED, PCMK_ROLE_UNPROMOTED,
               PCMK_ROLE_PROMOTED_LEGACY, PCMK_ROLE_UNPROMOTED_LEGACY}
PCMK_ACTIONS == {"start", "stop", "promote", "demote"}
NewRoleNames == {PCMK_ROLE_PROMOTED, PCMK_ROLE_UNPROMOTED}
LegacyToNew == (PCMK_ROLE_PROMOTED_LEGACY :> PCMK_ROLE_PROMOTED)
                 @@ (PCMK_ROLE_UNPROMOTED_LEGACY :> PCMK_ROLE_UNPROMOTED)
NewToLegacy == (PCMK_ROLE_PROMOTED :> PCMK_ROLE_PROMOTED_LEGACY)
                 @@ (PCMK_ROLE_UNPROMOTED :> PCMK_ROLE_UNPROMOTED_LEGACY)

\* Mutant: the legacy translation maps each new role to the other one.
RoleTranslationSwapped(role, is_latest_supported) ==
    IF is_latest_supported
    THEN IF role \in DOMAIN LegacyToNew THEN LegacyToNew[role] ELSE role
    ELSE CASE role = PCMK_ROLE_PROMOTED   -> PCMK_ROLE_UNPROMOTED_LEGACY
           [] role = PCMK_ROLE_UNPROMOTED -> PCMK_ROLE_PROMOTED_LEGACY
           [] OTHER                       -> role

\* pacemaker.role.get_value_for_cib
get_value_for_cib(role, is_latest_supported) ==
    IF is_latest_supported
    THEN IF role \in DOMAIN LegacyToNew THEN LegacyToNew[role] ELSE role
    ELSE IF role \in DOMAIN NewToLegacy THEN NewToLegacy[role] ELSE role

-----------------------------------------------------------------------------
(* Validators and the report processor                                     *)

_BOOLEAN_VALUES == {"true", "false"}
_ATTRIBUTES == {"action", "require-all", "role", "sequential"}

Item(severity, code, key) == [severity |-> severity, code |-> code, key |-> key]

NamesIn(allowed, options) ==
    { Item("error", "InvalidOptions", k) : k \in DOMAIN options \ allowed }

ValueIn(name, allowed, options) ==
    IF name \in DOMAIN options /\ options[name] \notin allowed
    THEN { Item("error", "InvalidOptionValue", name) } ELSE {}

ValueDeprecated(name, mapping, severity, options) ==
    IF name \in DOMAIN options /\ options[name] \in DOMAIN mapping
    THEN { Item(severity, "DeprecatedOptionValue", name) } ELSE {}

\* resource_set._validate_options: ValidatorAll over the fixed pipeline.
_validate_options(options) ==
    NamesIn(_ATTRIBUTES, options)
    \cup ValueIn("action", PCMK_ACTIONS, options)
    \cup ValueIn("require-all", _BOOLEAN_VALUES, options)
    \cup ValueIn("role", PCMK_ROLES, options)
    \cup ValueIn("sequential", _BOOLEAN_VALUES, options)
    \cup ValueDeprecated("role", LegacyToNew, "deprecation", options)

has_errors(items) == \E i \in items : i.severity = "error"

\* prepare_set: report the validation, raise if the processor has errors;
\* find_valid_id maps ids to themselves here (the ids are already valid).
prepare_set(resource_set) ==
    [ids |-> resource_set.ids, options |-> resource_set.options]

\* Mutant: only the first set's validation can stop the command.
FirstRaisingOnlyFirst(rawSets) ==
    IF has_errors(_validate_options(rawSets[1].options)) THEN 1 ELSE 0

\* Index of the set whose prepare_set raises (0: none raises).  The report
\* processor of a command starts without errors and keeps them, so the
\* first set with an error item is the one that raises.
FirstRaising(rawSets) ==
    IF \E k \in DOMAIN rawSets : has_errors(_validate_options(rawSets[k].options))
    THEN CHOOSE k \in DOMAIN rawSets :
           /\ has_errors(_validate_options(rawSets[k].options))
           /\ \A j \in 1..(k - 1) : ~has_errors(_validate_options(rawSets[j].options))
    ELSE 0

-----------------------------------------------------------------------------
(* Unique ids and create()                                                 *)

\* cib.tools.find_unique_id: check_id, then check_id-1, check_id-2, ...
\* until no element of the whole tree has it.
find_unique_id(tree, check_id) ==
    LET RECURSIVE Try(_)
        Try(counter) ==
            LET cand == IF counter = 0 THEN check_id
                        ELSE Append(check_id, "-" \o ToString(counter))
            IN IF cand \notin tree THEN cand ELSE Try(counter + 1)
    IN Try(0)

\* Mutant: the set takes "{parent id}_set" without asking for a unique id.
CreateWithoutUniqueId(tree, parent, resource_set) ==
    LET opts == resource_set.options
        options == IF "role" \in DOMAIN opts
                   THEN [opts EXCEPT !["role"] = get_value_for_cib(opts["role"], schemaNew)]
                   ELSE opts
    IN [id |-> Append(parent, "_set"), parent |-> parent,
        ids |-> resource_set.ids, options |-> options, input |-> resource_set]

\* Mutant: the role is written as the operator typed it.
CreateWithoutRoleTranslation(tree, parent, resource_set) ==
    [id |-> find_unique_id(tree, Append(parent, "_set")), parent |-> parent,
     ids |-> resource_set.ids, options |-> resource_set.options, input |-> resource_set]

\* create(): translate the role for the schema, write the options, take a
\* unique id "{parent id}_set" in the tree as it is now, add the refs.
create(tree, parent, resource_set) ==
    LET opts == resource_set.options
        options == IF "role" \in DOMAIN opts
                   THEN [opts EXCEPT !["role"] = get_value_for_cib(opts["role"], schemaNew)]
                   ELSE opts
    IN [id |-> find_unique_id(tree, Append(parent, "_set")), parent |-> parent,
        ids |-> resource_set.ids, options |-> options, input |-> resource_set]

\* The command's create() calls, in order: each sees the ids of the sets
\* created before it.
RECURSIVE CreateAll(_, _, _)
CreateAll(tree, parent, prepared) ==
    IF prepared = <<>> THEN {}
    ELSE LET e == create(tree, parent, Head(prepared))
         IN {e} \cup CreateAll(tree \cup {e.id}, parent, Tail(prepared))

\* get_resource_id_set_list: the resource_ref ids in document order.
get_resource_id_set_list(element) == element.ids

\* export: the refs and export_attributes(element), every attribute of the
\* element, its own id among them.
export(element) ==
    [ids |-> get_resource_id_set_list(element),
     options |-> ("id" :> element.id) @@ element.options]

Tree == OtherIds \cup constraints \cup { s.id : s \in sets }

-----------------------------------------------------------------------------
(* Operations                                                              *)

\* constraint <type> set ...: the raw sets are prepared first; only when
\* none raises does the command add its constraint and create the sets.
CreateWithSets ==
    \E n \in 1..MaxSetsPerCommand :
    \E rawSets \in [1..n -> RawSetInput] :
      LET k == FirstRaising(rawSets)
          stop == IF k = 0 THEN n ELSE k
      IN /\ reports' = UNION { _validate_options(rawSets[j].options) : j \in 1..stop }
         /\ lastInput' = rawSets
         /\ IF k = 0
            THEN \E parent \in ConstraintIds \ constraints :
                   LET prepared == [j \in 1..n |-> prepare_set(rawSets[j])]
                   IN /\ constraints' = constraints \cup {parent}
                      /\ sets' = sets \cup CreateAll(Tree \cup {parent}, parent, prepared)
            ELSE UNCHANGED <<constraints, sets>>
         /\ UNCHANGED schemaNew

\* cib upgrade: the schema only moves forward.
UpgradeCib ==
    /\ ~schemaNew
    /\ schemaNew' = TRUE
    /\ UNCHANGED <<constraints, sets, reports, lastInput>>

Init ==
    /\ schemaNew \in BOOLEAN
    /\ constraints = {}
    /\ sets = {}
    /\ reports = {}
    /\ lastInput = <<>>

Next == CreateWithSets \/ UpgradeCib

Spec == Init /\ [][Next]_vars

-----------------------------------------------------------------------------
(* Properties                                                              *)

TypeOK ==
    /\ schemaNew \in BOOLEAN
    /\ constraints \subseteq ConstraintIds
    /\ \A s \in sets : /\ s.parent \in constraints
                      /\ s.ids \in Seq(ResourceIds)
                      /\ DOMAIN s.options \subseteq _ATTRIBUTES
    /\ lastInput \in Seq(RawSetInput)

\* Ids stay unique in the whole document across commands: a resource_set
\* never takes the id of another set, a constraint or any other element,
\* whichever "{parent}_set" / "-N" names already exist.
IdsUnique ==
    /\ \A s, t \in sets : s.id = t.id => s = t
    /\ \A s \in sets : s.id \notin OtherIds \cup constraints

\* A CIB whose schema predates the new role names never receives one: every
\* set written while the schema is old carries the legacy vocabulary.
RolesMatchSchema ==
    ~schemaNew => \A s \in sets : "role" \in DOMAIN s.options
                                  => s.options["role"] \notin NewRoleNames

\* A role in either vocabulary, named in the new one.
NormalRole(role) == IF role \in DOMAIN LegacyToNew THEN LegacyToNew[role] ELSE role

\* spec.md 3: export(create(parent, resource_set)) gives back the same ids
\* in the same order and the same options, the role only renamed between
\* the legacy and the new vocabulary for the schema, whatever the schema
\* was and whichever vocabulary the operator used, plus the "id" the set
\* was given (which the CLI shows as "(id:...)").
ExportRoundTrip ==
    \A e \in sets :
      LET out == export(e)
          in == e.input
      IN /\ out.ids = in.ids
         /\ DOMAIN out.options = DOMAIN in.options \cup {"id"}
         /\ out.options["id"] = e.id
         /\ \A k \in DOMAIN in.options :
              IF k = "role" THEN NormalRole(out.options[k]) = NormalRole(in.options[k])
                            ELSE out.options[k] = in.options[k]

\* spec.md 3 and 7: validation of one operation is collect-all; every
\* problem of every set the operator typed is reported before the command
\* fails, not only those of the first set whose prepare_set raises.
ValidationExhaustive ==
    \A k \in DOMAIN lastInput : _validate_options(lastInput[k].options) \subseteq reports

-----------------------------------------------------------------------------
(* Refinement of the command's promise (ConstraintCommands)               *)

\* The CIB as the abstract spec sees it: the set elements without the
\* prepared input they were created from; reports are not part of it.
AbsElements ==
    { [id |-> s.id, parent |-> s.parent, ids |-> s.ids, options |-> s.options] : s \in sets }

Abs == INSTANCE ConstraintCommands WITH elements <- AbsElements

\* Every "constraint ... set" command and every upgrade is a step that
\* ConstraintCommands allows: nothing is written unless every set the
\* operator typed is acceptable, and then exactly those sets are written
\* under one new constraint, with fresh ids and roles in the schema's
\* vocabulary.  prepare_set raising part-way must leave no set behind.
AbsSpec == Abs!Spec

=============================================================================
