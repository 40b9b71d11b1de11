# TLA+ models of pcs (SBD fencing, constraint resource sets, tier1 fixtures)

This directory holds TLA+ specifications of parts of the pcs source under
`src/`, the TLC configurations that check them, and `PROJECT.json`, which
records the components, the runs, the mutants, the source lines each
definition models, the findings and the hazards.

## 1. Inventory of the system

| Part | Source | State it touches | Operations |
|---|---|---|---|
| Quorum/fencing safety engine | `src/pcs/lib/sbd.py` 25-105 | corosync node list, quorum device present, `auto_tie_breaker`, local SBD config | `_even_number_of_nodes_and_no_qdevice`, `is_auto_tie_breaker_needed`, `atb_has_to_be_enabled_pre_enable_check`, `atb_has_to_be_enabled` |
| SBD device validation | `sbd.py` 108-169 | per-node device lists | `validate_new_nodes_devices`, `validate_nodes_devices` |
| SBD config file | `sbd.py` 172-230, 275-296 | `/etc/sysconfig/sbd` (`SBD_DEVICE="a;b"`), service state | `create_sbd_config`, `get_default_sbd_config`, `get_local_sbd_config`, `get_local_sbd_device_list`, `is_device_set_local`, `is_sbd_enabled`, `is_sbd_installed` |
| SBD device operations | `sbd.py` 233-400 | headers on block devices, the `sbd` tool | `initialize_block_devices`, `get_device_messages_info`, `get_device_sbd_header_dump`, `set_message`, `get_available_watchdogs`, `test_watchdog` |
| Resource-set builder | `src/pcs/lib/cib/constraint/resource_set.py` | CIB tree (ids, `resource_set` elements), report processor | `prepare_set`, `_validate_options`, `create`, `get_resource_id_set_list`, `export` |
| Validators, report processor, `find_unique_id`, role translation | not under `src/` (spec.md 3, 4.1-4.3) | report list, CIB ids, CIB schema version | `ValidatorAll`, `NamesIn`, `ValueIn`, `ValueDeprecated`, `has_errors`, `find_unique_id`, `get_value_for_cib` |
| Test runner | `src/pcs_test/suite.py` 25-251 | `sys.argv`, the discovered suite, fixture threads, `thread_list`, `timeout_counter`, the cleanup, the exit status | `prepare_test_name`, `tests_from_suite`, `autodiscover_tests`, `discover_tests`, `tier1_fixtures_needed`, `main`, `run_tier1_fixtures` |
| Daemon UI test helpers | `src/pcs_test/tier0/daemon/app/fixtures_app.py` 59-142 | the keyword arguments of a request, the `headers` dicts a test holds, the daemon's Set-Cookie | `AppTest.fetch`, `get`, `post`, `AppUiTestMixin.fetch`, `extract_sid`, `assert_session_in_response` |
| Declarations, mocks, tests | `reports/types.py`, `error_codes.py`, `bin_mock/pcmk/crm_resource.py`, two test files | none | none |

**How the parts interact.**
- The cluster commands decide whether ATB must be on before they change the
  topology. Those commands are sbd enable, node add/remove, qdevice add/remove
  and quorum update, and they are outside `src/`. They make that decision by
  calling the quorum engine.
- The engine reads only the local node's SBD config, through
  `is_device_set_local`. Its answer is right for the whole cluster only if
  the device validation kept every node in the same mode (all with devices
  or all watchdog-only).
- `initialize_block_devices` writes the headers that messages and dumps need.
- The constraint commands call `prepare_set` for each raw set, one after
  another, against one report processor. When all of them succeed, the
  commands call `create` for each set. `create` names the new element with
  `find_unique_id` against the tree, which already holds the sets created
  before it.
- `main()` turns `sys.argv` into a suite through `prepare_test_name` and
  `discover_tests`. It sets up the tier1 fixtures only when
  `tier1_fixtures_needed` finds a `pcs_test.tier1.legacy.` test in it.
  `run_tier1_fixtures` runs the fixture `set_up`s either sequentially or in
  daemon threads that the main thread polls.

**The hard behaviours.**
- Cluster operations run from any node, in any order.
- The parity of the node count is taken after a change, through
  `node_number_modifier`.
- `has_errors` is cumulative, so `prepare_set` raises at the first bad set.
- Ids must be unique across the sets of one command and across commands.
- The role vocabulary depends on a schema that can be upgraded between
  commands.
- The `sbd` tool can fail part way through a multi-device `create`.
- `test_watchdog` branches on the exit code before it looks at the output.
- Fixture threads end, raise or hang in any order. The `for` loop skips the
  thread that follows a removed one, and the timeout counter counts joins,
  not passes.

**Properties per part.**
- Quorum engine: an even, watchdog-only SBD cluster without a qdevice always
  has ATB on. Device mode is uniform.
- Device operations: every answer of the `sbd` tool, a partial `create`
  included, leaves the reports and errors well formed (type invariant only;
  see section 7 and the hazards for the watchdog phrase and the partial
  write).
- Resource sets: ids are unique. Roles fit the schema. Validation is
  collect-all.
- SBD config: the devices read back are the devices written.
- SBD config read errors: a command that cannot read the local config
  aborts; it never takes the error for "no devices".
- UI test helpers: a request carries what its own call asked for, and a
  session check passes only for the session the answer set.
- Fixtures: `main()` always exits. "Prepared" means every fixture was set up,
  and prepared fixtures are always cleaned up. No tier1 legacy test runs
  without its fixtures, and `--all-but` excludes the names it is given.
- Constraint commands as a whole: all or nothing, and what is written is
  exactly what was typed (refinement of `ConstraintCommands`).

## 2. Modules

| Module | Models | State (variables) | Actions |
|---|---|---|---|
| `SbdQuorum` | quorum engine, device validation, the SBD config read with its read error | `nodes`, `qdevice`, `atb`, `sbdInstalled`, `sbdEnabled`, `sbdDevices` (per node device list), `sbdConfigExists` (nodes with a config file), `sbdConfigReadable` (per node: the file opens) | `EnableSbd`, `DisableSbd`, `AddNodes`, `RemoveNodes`, `AddQdevice`, `RemoveQdevice`, `DisableAtb`, `EnableAtb`, each `\E at \in nodes` (the node the command runs on); faults `ConfigOpenFails(n)`, `ConfigOpenRecovers(n)` |
| `SbdConfig` | the local SBD config round trip: `create_sbd_config`, `get_default_sbd_config`, `get_local_sbd_config`, `get_local_sbd_device_list`, `is_device_set_local` | `sbdConfigExists`, `sbdConfigReadable`, `sbdConfigFile` (the dictionary in the file), `written` (history: the list last written) | `SetUpSbdConfig` (validate the given list, write the config) |
| `SbdDeviceOps` | device operations with the `sbd` tool as environment | `header` per device, `reports`, `raised`, `tool` (the last watchdog test answer), `watchdogs` (last listing) | `InitializeBlockDevices`, `get_device_messages_info`, `get_device_sbd_header_dump`, `set_message`, `test_watchdog`, `get_available_watchdogs` |
| `ResourceSet` | `prepare_set`, `_validate_options`, `create`, `export`, plus the validators, report gate, `find_unique_id` and role translation from spec.md | `schemaNew`, `constraints`, `sets`, `reports`, `lastInput` | `CreateWithSets` (one whole constraint command), `UpgradeCib` |
| `QuorumSafety` | what the quorum/fencing engine promises the cluster (spec.md 4.5, 4.6, 9), over cluster-wide facts only | `size`, `qdevice`, `atb`, `fencing` (`"off"`, `"devices"`, `"watchdog"`) | `Resize`, `SetQdevice`, `EnableFencing`, `DisableFencing`, `AtbOn`, `AtbOff` |
| `ConstraintCommands` | what a constraint-with-sets command promises (spec.md 3, 4.1, 4.4), without the validators, the report processor or `find_unique_id` | `schemaNew`, `constraints`, `elements`, `lastInput` | `Command` (commit whole or change nothing), `Upgrade` |
| `TestDiscovery` | test selection of `suite.py`: `prepare_test_name`, `tests_from_suite` (RECURSIVE), `autodiscover_tests`, `discover_tests`, `tier1_fixtures_needed`, with unittest's loader as environment | none (operators) | none |
| `AppUiFetch` | `AppUiTestMixin.fetch`, `AppTest.fetch`, `get`, `post` of `fixtures_app.py`; the daemon answering is the environment | `dicts` (the headers each caller-held dict holds), `last` (the last call, the request sent and the daemon's Set-Cookie), `check` (the last session check) | `Get`, `Post` (each a whole fetch: headers, default `follow_redirects`, HSTS assertion, any Set-Cookie), `AssertSessionInResponse` (`extract_sid` or `assert_session_in_response(response, sid)` on the last answer). A failed assertion or a `KeyError` ends the test method, so no step follows it (`TestRunning`) |
| `FixtureThreads` | `main()` and `run_tier1_fixtures`; extends `TestDiscovery` | `run_concurrently`, `argv` (fixed at start), `tests_to_run` (the discovered suite), `pc`, `setUp`, `thread_list`, `idx` (list iterator position), `timeout_counter`, `tier1_fixtures_cleanup`, `wasSuccessful`, `cleanedUp` | `MainStart` (discovery, `--list`, fixtures needed), `SequentialSetUp` (one `set_up()` call of the main thread), `SequentialDone`, `StartThreads`, `WhileTest`, `ForStep`, `RunTests`, `Finish` (main thread), `ThreadEnds(f)` (a fixture thread) |

The cluster commands are not under `src/`. They are modelled from spec.md
and marked `spec_modelled` in the map. Each one calls the `src/` functions
exactly as the spec describes:
- `AddNodes` calls `validate_new_nodes_devices`, then `atb_has_to_be_enabled`
  with a modifier of `+|new|`.
- `RemoveNodes` passes a modifier of `-|removed|`, and the local node cannot
  remove itself.
- `EnableSbd` calls `validate_nodes_devices`, or
  `atb_has_to_be_enabled_pre_enable_check` when no devices are given.

Each action is one whole command. A command that raises changes nothing.

**Fault model of the SBD config.** `get_local_sbd_config` raises
`UnableToGetSbdConfig` when `open` fails (an `EnvironmentError`, or the
file removed after `get_local_sbd_device_list`'s `path.exists`). In
`SbdQuorum` the environment action `ConfigOpenFails(n)` makes an existing
config stop opening and `ConfigOpenRecovers(n)` makes it open again; a
config written by sbd enable or node add opens. `get_local_sbd_device_list`
returns `Raise("UnableToGetSbdConfig")` then, and a command aborts exactly
when it reaches that read: `validate_new_nodes_devices` always reads, while
`is_auto_tie_breaker_needed` reads only once the parity, installed and
enabled conjuncts before it hold (`AtbNeededRaises`). A config that stays
removed reads as "no devices"; removing it is an operator's act, not a
step of pcs, and is not modelled.

**Abstraction of the data.**
- In `SbdQuorum`, device paths are model values in two sets: absolute and
  relative. In `SbdConfig`, a path is a sequence of characters, so that the
  `;` join, the quote stripping, the `;` split and `strip()` are modelled by
  what they do. The environment-file format is outside `src/` (spec.md
  calls it an external collaborator), so the file holds the dictionary.
- XML ids are sequences of tokens. `"{0}_set"` is `Append(parent, "_set")`
  and `"-N"` is the token `"-" \o ToString(N)`, so string equality is
  sequence equality.
- Option maps are small functions over the attribute names.
- A test id or name is its sequence of dotted components. `replace("/",
  ".")` makes both spellings the same sequence, `endswith(".py")` is a last
  component `"py"`, and `startswith("pcs_test.tier1.legacy.")` is a strict
  prefix. unittest's loader is the environment: a name loads the tests it
  is a prefix of, and discovery builds one suite per module with one case
  per test. `DiscoveredTests` tabulates the discovery per command line once,
  because it depends on `sys.argv` alone.

**Refinement of the quorum engine.** `SbdQuorum` defines `Abs == INSTANCE
QuorumSafety WITH size <- Cardinality(nodes), fencing <- Fencing`. `Fencing`
is `"off"` unless SBD is installed and enabled. It is `"watchdog"` as soon as
one node has no devices, and `"devices"` otherwise. The abstract spec
decides ATB from these cluster facts; the config faults are stuttering
steps of it. The code decides it from the config
of the node the command runs on. The refinement holds only because device
validation keeps every node in the same mode. It also says more than
`SplitBrainGuarded`: ATB is forced on *only* when the resulting cluster
needs it. It is checked in the `sbd_quorum` run under the node symmetry,
which is sound here because `AbsSpec` is a safety property and the
mapping (a node count and a cluster-wide mode) does not depend on node
names.

**Refinement of the constraint commands.** `ResourceSet` defines `Abs == INSTANCE ConstraintCommands
WITH elements <- AbsElements`, where `AbsElements` forgets the prepared
input each set was created from. `reports` is not mapped: the abstract spec
does not say what is reported. `schemaNew`, `constraints` and `lastInput`
map to themselves. A rejected command is a stuttering step of the abstract
spec. In `ConstraintCommands`, a command commits only if every set passes
`Acceptable`, which is stated directly from the legal values of spec.md 3
and 4.4. spec.md 4.4 lists `ValueIn` only for `action`, `role` and
`sequential`. The code also checks `require-all`, and the abstract spec
accepts only booleans for it too. A commit adds one free constraint id and
exactly one element per typed set. Each element's id is fresh in the whole
document and belongs to the `<constraint>_set[-N]` family, its refs are the
typed ids, and its role is written in the schema's vocabulary.

## 3. Runs

| Run | Config | Expect | What it shows |
|---|---|---|---|
| `sbd_quorum` | `MCSbdQuorum.cfg` | pass | `SplitBrainGuarded`: every reachable configuration with SBD enabled, a node without devices, no qdevice and an even node count has ATB on. `SbdDeviceConfigConsistent`: while SBD is enabled, all nodes have devices or none do, within the limit and all absolute. `AbsSpec`: every operation, on any node, is a step of `QuorumSafety`. All three hold with configs failing to open and recovering at any time. 3,666 states, about 30 s. |
| `resource_set` | `MCResourceSet.cfg` | pass | `AbsSpec`: every command and upgrade is a step of `ConstraintCommands` under the refinement mapping. `IdsUnique` holds across commands, across their sets and against pre-existing `c1_set` elements. `RolesMatchSchema`: an old-schema CIB never gets `Promoted`/`Unpromoted`, also for input given in the new vocabulary. `ExportRoundTrip` (spec.md 3): `export` of every created set gives back its ids in order and its options, the role only renamed between vocabularies, plus the set's own `id` (which `export_attributes` includes and the CLI shows as `(id:...)`). 62,752 states, about 2 min. |
| `resource_set_exhaustive` | `MCResourceSetExhaustive.cfg` | violation | `ValidationExhaustive`: the first set has the invalid role `Leader`, the second the deprecated role `Master`. The first set's error raises, so the second set's deprecation warning is never reported (finding). |
| `fixture_threads` | `MCFixtureThreads.cfg` | pass | `ThreadedSetupEnds`: once the fixture threads are started, `main()` exits under every interleaving of ending, failing and hanging threads. A hung `set_up` in the sequential branch hangs `main()`, since that branch has no timeout, so the property covers the threaded branch only. `PreparedFixturesCleanedUp`: fixtures reported prepared are cleaned up before exit, also when tests fail. `LegacyTestsRunWithFixtures`: for all eight command lines, a run whose suite holds a tier1 legacy test had `run_tier1_fixtures` return first. |
| `fixture_all_but` | `MCFixtureThreadsAllBut.cfg` | violation | `AllButExcludesNamed`: `pcs_test.tier0.test_acl.ACLTest --all-but`, the example in suite.py's usage notes, still runs `ACLTest`'s tests (finding). |
| `fixture_prepared` | `MCFixtureThreadsPrepared.cfg` | violation | `PreparedOnlyIfAllSetUp`: in threaded mode a set_up that raised is swallowed, and "Tier1 fixtures prepared" is printed anyway (finding). |
| `sbd_device_ops` | `MCSbdDeviceOps.cfg` | pass | `TypeOK` under every answer of the `sbd` tool, a `create` failing on any device of the list included; fires every device operation. 657 states. |
| `sbd_config` | `MCSbdConfig.cfg` | pass | With `/`, a name character, `;` and a blank in paths: `PlainDeviceListRoundTrip`: for paths without `;` and surrounding blanks the list read back is the list validated and written, or the read raises. `LocalDeviceSetAsWritten`: for any paths, `is_device_set_local` is true exactly when devices were written, so the finding of `sbd_config_separator` does not change the mode the quorum engine sees. |
| `app_ui_fetch` | `MCAppUiFetch.cfg` | pass | `RequestedHeadersSent`: a request made with `sid=s` carries the cookie of `s`, one made with `is_ajax=True` the AJAX header, and `follow_redirects` is false unless given, whichever branch creates the headers dict and whatever a reused dict held. `SessionCheckSound`: `extract_sid` and `assert_session_in_response` pass only on an answer that set a session, return it, and with `sid` given only for that session, although the helper's `assertTrue(PCSD_SESSION, cookie)` checks nothing. 5,921 states. |
| `app_ui_fetch_cookie` | `MCAppUiFetchCookie.cfg` | violation | `SessionCookieOnlyWithSid`: a test reusing a headers dict for a request without `sid=` sends the session of an earlier request (finding). |
| `sbd_config_separator` | `MCSbdConfigSeparator.cfg` | violation | `DeviceListRoundTrip` with `;` and blanks in the alphabet: the validated path `"/ "` is read back as `"/"`, and a path with `;` as several devices (finding). |
| `watchdog_test` | `MCSbdDeviceOpsWatchdog.cfg` | violation | `WatchdogMultipleDevicesDetected`: exit 0 with "Multiple watchdog devices discovered" gives `SbdWatchdogTestFailed`, not the specific error spec.md 4.6 describes (finding). |

Every property of a passing run has a mutant in `PROJECT.json`. A mutant is
a plausible bug in a mapped definition, and TLC must find the property
broken when it is applied. The mutants are:
- a parity test that ignores the modifier;
- new nodes always required to have devices;
- a node removing itself;
- ids looked up among the sets only;
- roles always translated to the new vocabulary;
- only the first set validated;
- no countdown in the polling loop, or no timeout test;
- the first device reported in place of the device list;
- a set created without a unique id, or without translating its role;
- the legacy role translation swapped;
- `sys.exit(1)` before the cleanup;
- `follow_redirects` passed on without its default;
- the session check returning the session without comparing it with `sid`;
- the SBD config built from an empty dictionary, or its devices joined
  without `;`;
- `is_device_set_local` testing for more than one device;
- a read error taken as "no devices" (`ReadErrorAsNoDevices`), against
  `SbdDeviceConfigConsistent`;
- the `is_ajax` branch of the UI `fetch` starting a new headers dict,
  which drops the cookie of the `sid` branch;
- only the first set's errors able to stop a command (a valid first set
  and an invalid second one are then both written), against `AbsSpec`;
- `is_auto_tie_breaker_needed` without the local device check, against
  `AbsSpec` of `QuorumSafety` (the invariants of `sbd_quorum` still hold
  under it);
- `tests_from_suite` not recursing into nested suites, against
  `LegacyTestsRunWithFixtures`.

## 4. Bounds

- **`SbdQuorum`:**
  - 4 nodes (n1-n4). This gives odd and even clusters, and adds and removes
    of up to 2 nodes (`MaxNodesPerChange`) that change the parity.
  - 2 paths: one absolute, one relative.
  - `SbdMaxDeviceNum = 1`, with lists of up to 2 devices, so "too many" is
    reached. The code's 3 only lengthens lists without adding new branches.
  - Node symmetry is used, which is sound because nodes are
    interchangeable model values and every property, `AbsSpec` included,
    is a safety property symmetric in them.
  - Each node's config may fail to open and recover at any time, with no
    bound on how often.
- **`ResourceSet`:**
  - 2 sets per command and 2 constraint ids.
  - A pre-existing `c1_set` element, so the `-1` suffix happens.
  - 7 option maps that cover valid, invalid, legacy, new and unknown roles.
- **`SbdDeviceOps`:**
  - 3 devices, so `create` can fail on the first, middle or last device of
    a list.
  - One watchdog name with two kinds of record, so a listing can repeat a
    name.
- **`SbdConfig`:**
  - The pass run: paths of up to 2 characters over `/`, `a`, `;` and a
    blank, and `SbdMaxDeviceNum = 2`, so two-device lists are joined and
    split again, and paths like `"/;"` and `"/ "` are written.
  - The violation run: paths of up to 3 characters over the same alphabet,
    with `SbdMaxDeviceNum = 1`.
- **`AppUiFetch`:** 2 session ids and 1 caller-held dict, so that the dict
  is reused with another session or none, and a session check can be asked
  for the session set or another; the Set-Cookie header absent, without
  the session cookie, or setting either session; `is_ajax` absent, true or false;
  `follow_redirects` absent or given. Only the last request is kept, since
  every property is about one request and the dicts it left behind.
- **`FixtureThreads`:**
  - 3 fixtures (the code has 3).
  - Four test methods: two in one tier0 class, one tier1 legacy test and one
    other tier1 test. Eight command lines: everything, `--tier0`, `--list`,
    the legacy module as a `.py` path with and without `--all-but --tier1`,
    a full test id with `--all-but --tier0`, and a class name with and
    without `--all-but`. Together they reach every branch of
    `discover_tests` and both answers of `tier1_fixtures_needed`.
  - `TimeoutCounter = 4` instead of 30. This is enough for the countdown to
    reach zero with threads still alive, and for the skip after a remove to
    matter.

## 5. Fairness

Only `FixtureThreads` has liveness properties. The main thread's steps get
weak fairness, because `join(timeout=10)` always returns. The exception is
its own `set_up()` call in the sequential branch (`SequentialSetUp`). The
test run itself is assumed to end: the tests are not part of the model.
The fixture threads get no fairness, and neither does `SequentialSetUp`,
because a `set_up` can hang forever. The
configuration sets `CHECK_DEADLOCK FALSE` because `run_tier1_fixtures`
really stops: once it returns or raises, nothing is left to do.
The `AppUiFetch` configurations also set `CHECK_DEADLOCK FALSE`: a test
method stops at its first failed assertion or `KeyError`, and no step
follows it.

## 6. Not modelled

- `reports/types.py` and `error_codes.py`: declarations only.
- The `crm_resource` mock: argv to canned output, which is pure I/O.
- The two test files (CLI constraint listing, pacemaker_remote CLI).
- The rest of `fixtures_app.py`: the `RubyPcsdWrapper` stub and
  `assert_wrappers_response`, `setUp` with the session storage,
  `create_login_session`, the auth stubs (`check_user_groups`,
  `authorize_user`) and the code and body assertions. They return or
  compare data of the daemon and its session storage, which are not under
  `src/`, and have no control of their own to check. The
  is_ajax presence test (`is_ajax=False` sends the AJAX header) is
  reachable in `AppUiFetch` in one call, which a unit test of the helper
  reaches directly; no run states it.
- The `crm_resource` mock maps argv to canned files and exit codes, and holds
  no state that a property could relate.
- The `sys.path` and `settings` setup at the top of `main()` changes
  nothing that the model tells apart.
- An SBD config removed for good: nothing in pcs removes it. A removal
  inside a command, between `path.exists` and `open`, is part of the fault
  model.
- Logging, report wording and the layout of command lines.

## 7. Findings

- **`sbd.py:388` (spec_code_divergence, run `watchdog_test`):**
  `test_watchdog` checks the multiple-watchdogs phrase only on a non-zero
  exit. spec.md 4.6 says it comes with a successful exit.
- **`resource_set.py:25` (spec_code_divergence, run
  `resource_set_exhaustive`):** `prepare_set` raises at the first set with
  errors. The other sets' reports are lost, although spec.md 3 and 7 say
  validation is collect-all. In the trace, the first set's invalid role
  `Leader` raises, and the deprecation warning for the second set's role
  `Master` is never reported.
- **`suite.py:129` (code_bug, run `fixture_prepared`):** a fixture thread's
  exception is swallowed, and the fixtures are reported prepared.
- **`sbd.py:288` (code_bug, run `sbd_config_separator`):** a validated
  absolute path with `;` or surrounding blanks is not read back as written.
- **`suite.py:83` (code_bug, run `fixture_all_but`):** `--all-but` drops a
  discovered test only if its full id equals a given name. So the usage
  example `pcs_test.tier0.test_acl.ACLTest --all-but` excludes nothing.

- **`fixtures_app.py:130` (code_bug, run `app_ui_fetch_cookie`):**
  `AppUiTestMixin.fetch` writes the Cookie into the caller's headers dict,
  so the dict carries the session into later requests made without `sid=`.

## 8. Plan for the next sittings

1. **`SbdConfig` and `SbdQuorum`:** `LocalDeviceSetAsWritten` shows that the
   text round trip does not change what the engine reads, so the two are
   checked apart; a composition with per-node character paths would only
   add states.
2. **Reference checks:** check `_validate_options`, `find_unique_id` and
   `SplitSemicolon`/`Strip` against reference definitions over bounded
   inputs.

The "stuck" timeout (hazard `suite.py:122`) is reachable, but no property
is stated about it; PROJECT.json gives the reason.
