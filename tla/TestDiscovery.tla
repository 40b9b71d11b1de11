---------------------------- MODULE TestDiscovery ----------------------------
(***************************************************************************)
(* Test selection of src/pcs_test/suite.py: prepare_test_name,            *)
(* tests_from_suite, discover_tests and tier1_fixtures_needed, which      *)
(* decide what main() runs and whether it sets up the tier1 fixtures.    *)
(*                                                                         *)
(* A test id or a test name is its sequence of dotted components, so      *)
(* "pcs_test/tier0/test_acl.py" after replace("/", ".") is                 *)
(* <<"pcs_test", "tier0", "test_acl", "py">>, str.endswith(".py") is a    *)
(* last component "py" and str.startswith(p + ".") is a strict prefix.    *)
(* unittest is the environment: a name loads the tests it is a prefix of  *)
(* (module, class or method), discovery loads the tests under a directory, *)
(* and a suite nests one suite per module with one case per test.         *)
(***************************************************************************)
EXTENDS Integers, Sequences, SequencesExt

CONSTANTS
    AllTests,          \* ids of the test methods under pcs_test
    ImportableModules  \* dotted names importlib.import_module accepts

\* A suite holds suites and cases; a case is one test.
Case(id) == [kind |-> "case", id |-> id, tests |-> <<>>]
Suite(seq) == [kind |-> "suite", id |-> <<>>, tests |-> seq]

ModuleOf(id) == SubSeq(id, 1, Len(id) - 2)

\* The suite unittest builds for a set of tests: one suite per module.
SuiteOf(ts) ==
    LET mods == SetToSeq({ ModuleOf(t) : t \in ts })
        cases(m) == SetToSeq({ t \in ts : ModuleOf(t) = m })
    IN Suite([i \in DOMAIN mods |->
               Suite([j \in DOMAIN cases(mods[i]) |-> Case(cases(mods[i])[j])])])

\* TestLoader().loadTestsFromNames: one suite per name.
loadTestsFromNames(names) ==
    Suite([i \in DOMAIN names |-> SuiteOf({ t \in AllTests : IsPrefix(names[i], t) })])

\* autodiscover_tests: everything under pcs_test, or under pcs_test/tier<N>.
autodiscover_tests(tier) ==
    LET dir == IF tier = "none" THEN <<"pcs_test">> ELSE <<"pcs_test", tier>>
    IN SuiteOf({ t \in AllTests : IsPrefix(dir, t) })

\* prepare_test_name: "/" already read as "."; a trailing ".py" is dropped
\* unless the name with it imports.
prepare_test_name(candidate) ==
    IF candidate = <<>> \/ Last(candidate) # "py" THEN candidate
    ELSE IF candidate \in ImportableModules THEN candidate
    ELSE Front(candidate)

\* Mutant: only the cases directly in the suite are listed.
TestsFromSuiteShallow(test_candidate) ==
    IF test_candidate.kind = "case" THEN <<test_candidate.id>>
    ELSE FlattenSeq([i \in DOMAIN test_candidate.tests |->
                       IF test_candidate.tests[i].kind = "case"
                       THEN <<test_candidate.tests[i].id>> ELSE <<>>])

\* tests_from_suite: the ids of the cases, depth first, in suite order.
RECURSIVE tests_from_suite(_)
tests_from_suite(test_candidate) ==
    IF test_candidate.kind = "case" THEN <<test_candidate.id>>
    ELSE FlattenSeq([i \in DOMAIN test_candidate.tests |->
                       tests_from_suite(test_candidate.tests[i])])

\* discover_tests: everything discovered, everything discovered whose id
\* is not one of the names (--all-but), or what the names load.
discover_tests(explicitly_enumerated_tests, exclude_enumerated_tests, tier) ==
    IF explicitly_enumerated_tests = <<>> THEN autodiscover_tests(tier)
    ELSE IF exclude_enumerated_tests
    THEN loadTestsFromNames(
           SelectSeq(tests_from_suite(autodiscover_tests(tier)),
                     LAMBDA t : t \notin ToSet(explicitly_enumerated_tests)))
    ELSE loadTestsFromNames(explicitly_enumerated_tests)

Tier1Legacy == <<"pcs_test", "tier1", "legacy">>

\* tier1_fixtures_needed: some test id starts with "pcs_test.tier1.legacy.".
tier1_fixtures_needed(test_list) ==
    \E i \in DOMAIN tests_from_suite(test_list) :
      IsStrictPrefix(Tier1Legacy, tests_from_suite(test_list)[i])

\* The tests a suite holds, as a set (reference for tests_from_suite).
RECURSIVE SuiteTests(_)
SuiteTests(s) ==
    IF s.kind = "case" THEN {s.id}
    ELSE UNION { SuiteTests(s.tests[i]) : i \in DOMAIN s.tests }

=============================================================================
