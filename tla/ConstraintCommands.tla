------------------------- MODULE ConstraintCommands -------------------------
(***************************************************************************)
(* What a "constraint ... set" command promises (spec.md 3, 4.1, 4.4),     *)
(* stated without prepare_set, the report processor or find_unique_id:    *)
(* "validate exhaustively, then commit atomically".  A command either      *)
(* changes nothing in the CIB, or, when every set it was given is          *)
(* acceptable, adds one new constraint with exactly those sets: each under *)
(* an id of the "<constraint>_set[-N]" family that no element of the       *)
(* document had, with the refs in the given order and the role written in *)
(* the vocabulary of the CIB's schema.                                     *)
(***************************************************************************)
EXTENDS Integers, FiniteSets, Sequences, TLC

CONSTANTS
    OtherIds,          \* ids of the elements already in the CIB
    ConstraintIds,     \* ids the commands give to their new constraints
    RawSetInput,       \* raw sets [ids, options] an operator can type
    MaxSetsPerCommand

VARIABLES
    schemaNew,   \* the CIB schema knows the new role names
    constraints, \* constraints the commands created
    elements,    \* resource_set elements [id, parent, ids, options]
    lastInput    \* the sets of the last command (history)

absVars == <<schemaNew, constraints, elements, lastInput>>

CommandInput == UNION { [1..n -> RawSetInput] : n \in 1..MaxSetsPerCommand }

(* The legal set options of spec.md 3 and 4.4, and the role vocabularies.  *)
LegalValues ==
    ("action" :> {"start", "stop", "promote", "demote"})
    @@ ("role" :> {"Stopped", "Started", "Promoted", "Unpromoted", "Master", "Slave"})
    @@ ("sequential" :> {"true", "false"})
    \* spec.md 4.4 lists ValueIn for action, role and sequential only;
    \* require-all takes the same booleans as sequential.
    @@ ("require-all" :> {"true", "false"})
LegacyName == [Promoted |-> "Master", Unpromoted |-> "Slave"]

Acceptable(options) ==
    /\ DOMAIN options \subseteq DOMAIN LegalValues
    /\ \A k \in DOMAIN options : options[k] \in LegalValues[k]

\* A role in the new vocabulary.
Current(role) ==
    IF \E r \in DOMAIN LegacyName : LegacyName[r] = role
    THEN CHOOSE r \in DOMAIN LegacyName : LegacyName[r] = role ELSE role

\* The options as the CIB holds them: the role in the schema's vocabulary.
InSchema(options) ==
    IF "role" \notin DOMAIN options THEN options
    ELSE [options EXCEPT !["role"] =
            IF schemaNew \/ Current(@) \notin DOMAIN LegacyName THEN Current(@)
            ELSE LegacyName[Current(@)]]

Tree == OtherIds \cup constraints \cup { e.id : e \in elements }

\* The ids a set of constraint `parent` may take.
SetIds(parent) ==
    { Append(parent, "_set") } \cup
    { Append(Append(parent, "_set"), "-" \o ToString(i)) :
        i \in 1..(Cardinality(OtherIds) + MaxSetsPerCommand) }

\* The command adds constraint `parent` and one element per given set.
Commit(rawSets, parent) ==
    LET new == elements' \ elements
    IN /\ parent \in ConstraintIds \ constraints
       /\ constraints' = constraints \cup {parent}
       /\ elements \subseteq elements'
       /\ Cardinality({ e.id : e \in new }) = Len(rawSets)
       /\ Cardinality(new) = Len(rawSets)
       /\ \A e \in new : /\ e.parent = parent
                         /\ e.id \in SetIds(parent) \ (Tree \cup {parent})
                         /\ \E k \in DOMAIN rawSets :
                              /\ e.ids = rawSets[k].ids
                              /\ e.options = InSchema(rawSets[k].options)
       /\ \A k \in DOMAIN rawSets :
            \E e \in new : e.ids = rawSets[k].ids
                           /\ e.options = InSchema(rawSets[k].options)

\* One command: committed whole if every set is acceptable, else nothing
\* in the CIB changes.
Command ==
    /\ lastInput' \in CommandInput
    /\ \/ /\ \A k \in DOMAIN lastInput' : Acceptable(lastInput'[k].options)
          /\ \E parent \in ConstraintIds : Commit(lastInput', parent)
       \/ UNCHANGED <<constraints, elements>>
    /\ UNCHANGED schemaNew

\* A schema upgrade; the elements already written keep their roles.
Upgrade ==
    /\ ~schemaNew /\ schemaNew'
    /\ UNCHANGED <<constraints, elements, lastInput>>

Init ==
    /\ schemaNew \in BOOLEAN
    /\ constraints = {}
    /\ elements = {}
    /\ lastInput = <<>>

Spec == Init /\ [][Command \/ Upgrade]_absVars

=============================================================================
