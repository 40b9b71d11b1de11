--------------------------- MODULE FixtureThreads ---------------------------
(***************************************************************************)
(* main() and run_tier1_fixtures of src/pcs_test/suite.py: when the       *)
(* discovered tests include tier1 legacy tests, the tier1 CIB fixtures are *)
(* set up either one after another or, when tests run concurrently, in one *)
(* daemon thread each, which the main thread polls with join(timeout=10)   *)
(* until its list of live threads is empty or its timeout counter has gone *)
(* below zero.  The tests then run, the cleanup run_tier1_fixtures        *)
(* returned is called, and main() exits with the tests' result.           *)
(*                                                                         *)
(* The main thread's steps follow the code line by line; a fixture thread  *)
(* has a single step, the end of its set_up (returned or raised).  A       *)
(* set_up may hang, so fixture threads get no fairness.                    *)
(***************************************************************************)
EXTENDS Integers, Sequences, SequencesExt, TestDiscovery

CONSTANTS
    FixtureOrder,  \* fixture_instances, in the order the code lists them
    TimeoutCounter, \* timeout_counter's initial value (30 in the code)
    ArgvInput       \* command lines: [names, allBut, list, tier]

Fixture == ToSet(FixtureOrder)

VARIABLES
    run_concurrently, \* can_concurrency and "--no-parallel" not in argv
    pc,               \* where the main thread is
    setUp,            \* fixture -> "idle" | "running" | "done" | "failed"
    thread_list,      \* the threads still polled
    idx,              \* position of the for loop's list iterator
    timeout_counter,
    tier1_fixtures_cleanup, \* run_tier1_fixtures returned its cleanup
    wasSuccessful,    \* the test run's result
    cleanedUp,        \* clean_up was called on every fixture instance
    argv,             \* sys.argv: the test names and the options given
    tests_to_run      \* the suite discover_tests returned

vars == <<run_concurrently, pc, setUp, thread_list, idx, timeout_counter,
          tier1_fixtures_cleanup, wasSuccessful, cleanedUp, argv, tests_to_run>>

\* main() has exited, normally or by an exception out of run_tier1_fixtures.
Ended == {"exit", "timeout", "raised"}

mainVars == <<tier1_fixtures_cleanup, wasSuccessful, cleanedUp, argv, tests_to_run>>

-----------------------------------------------------------------------------
(* main()                                                                  *)

\* The discovery is a function of sys.argv alone: tabulated once.
DiscoveredTests ==
    [a \in ArgvInput |->
       LET explicitly_enumerated_tests ==
             [i \in DOMAIN a.names |-> prepare_test_name(a.names[i])]
       IN discover_tests(explicitly_enumerated_tests, a.allBut, a.tier)]

FixturesNeeded == [a \in ArgvInput |-> tier1_fixtures_needed(DiscoveredTests[a])]

\* The arguments other than the known options are the test names, each
\* passed through prepare_test_name; the tests are discovered; with
\* "--list" they are printed and main() exits; otherwise the tier1
\* fixtures are set up when tier1_fixtures_needed(tests_to_run).
MainStart ==
    /\ pc = "main"
    /\ tests_to_run' = DiscoveredTests[argv]
    /\ pc' = CASE argv.list              -> "exit"
            [] ~FixturesNeeded[argv] -> "tests"
            [] run_concurrently      -> "start"
            [] OTHER                 -> "sequential"
    /\ UNCHANGED <<run_concurrently, setUp, thread_list, idx, timeout_counter,
                   tier1_fixtures_cleanup, wasSuccessful, cleanedUp, argv>>

\* test_runner.run(tests_to_run); the cleanup is set only if
\* run_tier1_fixtures returned.
RunTests ==
    /\ pc \in {"tests", "prepared"}
    /\ tier1_fixtures_cleanup' = (pc = "prepared")
    /\ \E ok \in BOOLEAN : wasSuccessful' = ok
    /\ pc' = "ran"
    /\ UNCHANGED <<run_concurrently, setUp, thread_list, idx, timeout_counter, cleanedUp,
                   argv, tests_to_run>>

\* Mutant: a failed test run exits before the cleanup.
FinishExitFirst ==
    /\ pc = "ran"
    /\ cleanedUp' = (tier1_fixtures_cleanup /\ wasSuccessful)
    /\ pc' = "exit"
    /\ UNCHANGED <<run_concurrently, setUp, thread_list, idx, timeout_counter,
                   tier1_fixtures_cleanup, wasSuccessful, argv, tests_to_run>>

\* if tier1_fixtures_cleanup: cleanup(); then sys.exit(1) on failure.
Finish ==
    /\ pc = "ran"
    /\ cleanedUp' = tier1_fixtures_cleanup
    /\ pc' = "exit"
    /\ UNCHANGED <<run_concurrently, setUp, thread_list, idx, timeout_counter,
                   tier1_fixtures_cleanup, wasSuccessful, argv, tests_to_run>>

-----------------------------------------------------------------------------
(* Sequential branch: for instance in fixture_instances: set_up()          *)

\* The call set_up() of the next fixture ends: it returns, or it raises and
\* the exception leaves run_tier1_fixtures.  The call runs in the main
\* thread and may hang like any set_up.
SequentialSetUp ==
    /\ pc = "sequential"
    /\ idx <= Len(FixtureOrder)
    /\ \/ /\ setUp' = [setUp EXCEPT ![FixtureOrder[idx]] = "done"]
          /\ idx' = idx + 1
          /\ UNCHANGED pc
       \/ /\ setUp' = [setUp EXCEPT ![FixtureOrder[idx]] = "failed"]
          /\ pc' = "raised"
          /\ UNCHANGED idx
    /\ UNCHANGED <<run_concurrently, thread_list, timeout_counter, mainVars>>

\* The for loop is exhausted: the fixtures are reported prepared.
SequentialDone ==
    /\ pc = "sequential"
    /\ idx > Len(FixtureOrder)
    /\ pc' = "prepared"
    /\ UNCHANGED <<run_concurrently, setUp, thread_list, idx, timeout_counter, mainVars>>

-----------------------------------------------------------------------------
(* Concurrent branch                                                       *)

\* One thread per fixture is created, started and appended.
StartThreads ==
    /\ pc = "start"
    /\ setUp' = [f \in Fixture |-> "running"]
    /\ thread_list' = FixtureOrder
    /\ timeout_counter' = TimeoutCounter
    /\ pc' = "while"
    /\ UNCHANGED <<run_concurrently, idx, mainVars>>

\* A fixture thread's set_up ends; an exception only ends the thread.
ThreadEnds(f) ==
    /\ setUp[f] = "running"
    /\ \E r \in {"done", "failed"} : setUp' = [setUp EXCEPT ![f] = r]
    /\ UNCHANGED <<run_concurrently, pc, thread_list, idx, timeout_counter, mainVars>>

\* Mutant: the timeout test is missing.
WhileTestNoTimeout ==
    /\ pc = "while"
    /\ pc' = IF thread_list = <<>> THEN "prepared" ELSE "for"
    /\ idx' = 1
    /\ UNCHANGED <<run_concurrently, setUp, thread_list, timeout_counter, mainVars>>

\* while thread_list: if timeout_counter < 0: raise; for thread in ...
WhileTest ==
    /\ pc = "while"
    /\ pc' = CASE thread_list = <<>>  -> "prepared"
               [] timeout_counter < 0 -> "timeout"
               [] OTHER               -> "for"
    /\ idx' = 1
    /\ UNCHANGED <<run_concurrently, setUp, thread_list, timeout_counter, mainVars>>

\* Mutant: the counter is not decremented.
ForStepNoCountdown ==
    /\ pc = "for"
    /\ IF idx > Len(thread_list)
       THEN pc' = "while" /\ UNCHANGED <<thread_list, idx>>
       ELSE /\ thread_list' = IF setUp[thread_list[idx]] = "running" THEN thread_list
                              ELSE RemoveAt(thread_list, idx)
            /\ idx' = idx + 1
            /\ UNCHANGED pc
    /\ UNCHANGED <<run_concurrently, setUp, timeout_counter, mainVars>>

\* One iteration of the for loop: join(timeout=10), count down, drop the
\* thread if it is no longer alive.  The list iterator moves on to the next
\* position even after a remove, so the thread behind a removed one is
\* skipped in this pass.
ForStep ==
    /\ pc = "for"
    /\ IF idx > Len(thread_list)
       THEN pc' = "while" /\ UNCHANGED <<thread_list, idx, timeout_counter>>
       ELSE /\ timeout_counter' = timeout_counter - 1
            /\ thread_list' = IF setUp[thread_list[idx]] = "running" THEN thread_list
                              ELSE RemoveAt(thread_list, idx)
            /\ idx' = idx + 1
            /\ UNCHANGED pc
    /\ UNCHANGED <<run_concurrently, setUp, mainVars>>

-----------------------------------------------------------------------------

Init ==
    /\ run_concurrently \in BOOLEAN
    /\ pc = "main"
    /\ setUp = [f \in Fixture |-> "idle"]
    /\ thread_list = <<>>
    /\ idx = 1
    /\ timeout_counter = TimeoutCounter
    /\ tier1_fixtures_cleanup = FALSE
    /\ wasSuccessful = FALSE
    /\ cleanedUp = FALSE
    /\ argv \in ArgvInput
    /\ tests_to_run = Suite(<<>>)

\* The run is over once main() has exited; fixture threads may still be
\* running (they are daemon threads).
\* The main thread's steps other than a set_up call of its own.
Main == MainStart \/ SequentialDone \/ StartThreads \/ WhileTest \/ ForStep
        \/ RunTests \/ Finish

Next == Main \/ SequentialSetUp \/ (\E f \in Fixture : ThreadEnds(f))

\* join(timeout=10) always returns, so the main thread moves on from every
\* step but a set_up call; the test run itself is taken to end.  A set_up
\* may hang, in the main thread (sequential branch) or in a fixture
\* thread: no fairness for SequentialSetUp or ThreadEnds.
Spec == Init /\ [][Next]_vars /\ WF_vars(Main)

-----------------------------------------------------------------------------
(* Properties                                                              *)

TypeOK ==
    /\ run_concurrently \in BOOLEAN
    /\ pc \in {"main", "sequential", "start", "while", "for", "prepared",
               "tests", "ran"} \cup Ended
    /\ setUp \in [Fixture -> {"idle", "running", "done", "failed"}]
    /\ thread_list \in Seq(Fixture)
    /\ idx \in 1..(Len(FixtureOrder) + 1)
    /\ timeout_counter \in (-Len(FixtureOrder) - 1)..TimeoutCounter
    /\ {tier1_fixtures_cleanup, wasSuccessful, cleanedUp} \subseteq BOOLEAN
    /\ argv \in ArgvInput
    /\ SuiteTests(tests_to_run) \subseteq AllTests

\* Once the fixture threads are started, main() exits whether their
\* set_up calls return, raise or hang: the countdown of timeout_counter,
\* tested at the top of the while loop, ends the polling of a hung thread.
\* (In the sequential branch a hung set_up hangs main(); no timeout exists
\* there.)
ThreadedSetupEnds == (pc = "start") ~> (pc \in Ended)

\* Once run_tier1_fixtures has reported the fixtures prepared, main() calls
\* clean_up on them before it exits, whether the tests passed or failed.
PreparedFixturesCleanedUp == (pc = "prepared") ~> cleanedUp

\* "Tier1 fixtures prepared" is printed only when every fixture's set_up
\* has returned normally, as in the sequential branch where an exception
\* propagates to the caller.
PreparedOnlyIfAllSetUp ==
    pc = "prepared" => \A f \in Fixture : setUp[f] = "done"

\* No tier1 legacy test runs without its fixtures: when the suite main()
\* hands to test_runner.run holds a test under pcs_test.tier1.legacy,
\* whatever the test names, "--all-but" and "--tierN" options were,
\* run_tier1_fixtures has returned before the run.
LegacyTestsRunWithFixtures ==
    (pc = "ran" /\ \E t \in SuiteTests(tests_to_run) : IsStrictPrefix(Tier1Legacy, t))
      => tier1_fixtures_cleanup

\* The usage notes at the end of suite.py: "run all test except some:
\* pcs_test/suite.py pcs_test.tier0.test_acl.ACLTest --all-but".  With
\* "--all-but" no test under a given module, class or method name is run.
AllButExcludesNamed ==
    pc # "main" /\ argv.allBut =>
      \A t \in SuiteTests(tests_to_run), i \in DOMAIN argv.names :
        ~IsPrefix(prepare_test_name(argv.names[i]), t)

=============================================================================
