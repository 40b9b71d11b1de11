---------------------------- MODULE SbdDeviceOps ----------------------------
(***************************************************************************)
(* The SBD device operations of src/pcs/lib/sbd.py: each builds one sbd    *)
(* command line, runs it synchronously and turns a failure into a          *)
(* LibraryError.  One step is one call together with the tool's answer.    *)
(*                                                                         *)
(* The sbd tool is the environment: "create" writes the device headers one *)
(* device after another and may fail part way, leaving the devices before  *)
(* the failing one initialized; "message" needs an initialized header;     *)
(* "test-watchdog" answers with an exit code and an output text that may   *)
(* hold "Multiple watchdog devices discovered".                            *)
(***************************************************************************)
EXTENDS Integers, FiniteSets, Sequences, SequencesExt

CONSTANTS
    Device,        \* block devices (model values)
    NodeName,      \* node names a message can be addressed to
    Message,       \* message types of "sbd message"
    WatchdogName,  \* watchdog device names "sbd query-watchdog" lists
    WatchdogInfo   \* [identity, driver, caution] a record of it carries

VARIABLES
    header,        \* device -> "none" | "valid": what the sbd tool left on it
    reports,       \* items reported to the report processor by the last call
    raised,        \* code of the LibraryError the last call raised, or "none"
    tool,          \* [exit, multiple]: the tool's answer if the last call
                   \* was test_watchdog, NoAnswer otherwise
    watchdogs      \* what the last get_available_watchdogs returned

vars == <<header, reports, raised, tool, watchdogs>>

NoAnswer == [exit |-> 0, multiple |-> FALSE]

\* Device lists an operator passes: non-empty, no device twice.
DeviceLists == { s \in BoundedSeq(Device, Cardinality(Device)) : s # <<>> /\ IsInjective(s) }

Item(severity, code, devices) ==
    [severity |-> severity, code |-> code, devices |-> devices]

-----------------------------------------------------------------------------

\* The sbd tool's "create": devices 1..k-1 are written; k = Len + 1 is a
\* success, any smaller k the device it failed on.
CreateOutcomes(device_list) == 1..(Len(device_list) + 1)

Initialized(device_list, k) ==
    [d \in Device |-> IF \E i \in 1..(k - 1) : device_list[i] = d THEN "valid"
                      ELSE header[d]]

\* Mutant: the first device is reported instead of the list.
InitializeReportingDevice(device_list, k) ==
    /\ header' = Initialized(device_list, k)
    /\ reports' = << Item("info", "SbdDeviceInitializationStarted", device_list[1]) >>
    /\ raised' = IF k <= Len(device_list) THEN "SbdDeviceInitializationError" ELSE "none"

\* initialize_block_devices: report Started, run "sbd -d ... create", raise
\* on a non-zero exit, otherwise report Success.
initialize_block_devices(device_list, k) ==
    /\ header' = Initialized(device_list, k)
    /\ IF k <= Len(device_list)
       THEN /\ reports' = << Item("info", "SbdDeviceInitializationStarted", device_list) >>
            /\ raised' = "SbdDeviceInitializationError"
       ELSE /\ reports' = << Item("info", "SbdDeviceInitializationStarted", device_list),
                             Item("info", "SbdDeviceInitializationSuccess", device_list) >>
            /\ raised' = "none"

InitializeBlockDevices ==
    \E device_list \in DeviceLists :
    \E k \in CreateOutcomes(device_list) :
      /\ initialize_block_devices(device_list, k)
      /\ tool' = NoAnswer
      /\ UNCHANGED watchdogs

\* get_device_messages_info / get_device_sbd_header_dump: "list" and "dump"
\* fail on a device without a header; nothing is reported, the error text
\* is taken from stdout.
ReadDevice(code) ==
    \E device \in Device :
      /\ reports' = <<>>
      /\ raised' = IF header[device] = "valid" THEN "none" ELSE code
      /\ UNCHANGED <<header, watchdogs>>
      /\ tool' = NoAnswer

get_device_messages_info == ReadDevice("SbdDeviceListError")
get_device_sbd_header_dump == ReadDevice("SbdDeviceDumpError")

\* set_message: "sbd -d device message node message".
set_message ==
    \E device \in Device, node_name \in NodeName, message \in Message :
      /\ reports' = <<>>
      /\ raised' = IF header[device] = "valid" THEN "none" ELSE "SbdDeviceMessageError"
      /\ UNCHANGED <<header, watchdogs>>
      /\ tool' = NoAnswer

\* test_watchdog: every outcome raises; the output text is only looked at
\* when the exit code is non-zero.
test_watchdog ==
    \E exit \in {0, 1}, multiple \in BOOLEAN :
      /\ tool' = [exit |-> exit, multiple |-> multiple]
      /\ raised' = IF exit # 0
                   THEN IF multiple THEN "SbdWatchdogTestMultipleDevices"
                                    ELSE "SbdWatchdogTestError"
                   ELSE "SbdWatchdogTestFailed"
      /\ reports' = <<>>
      /\ UNCHANGED <<header, watchdogs>>

\* The records re.finditer matches in the output of "sbd query-watchdog",
\* in order; a name may occur twice.
WatchdogRecords == BoundedSeq([watchdog : WatchdogName, info : WatchdogInfo], 2)

\* The dict comprehension keyed by the watchdog name: a later record with
\* the same name replaces an earlier one.
WatchdogDict(records) ==
    LET names == { records[i].watchdog : i \in DOMAIN records }
        last(w) == Max({ i \in DOMAIN records : records[i].watchdog = w })
    IN [w \in names |-> records[last(w)].info]

\* get_available_watchdogs: a non-zero exit raises SbdListWatchdogError,
\* otherwise the parsed records are returned.
get_available_watchdogs ==
    \E exit \in {0, 1}, records \in WatchdogRecords :
      /\ raised' = IF exit # 0 THEN "SbdListWatchdogError" ELSE "none"
      /\ watchdogs' = IF exit # 0 THEN watchdogs ELSE WatchdogDict(records)
      /\ reports' = <<>>
      /\ tool' = NoAnswer
      /\ UNCHANGED header

Init ==
    /\ header = [d \in Device |-> "none"]
    /\ reports = <<>>
    /\ raised = "none"
    /\ tool = NoAnswer
    /\ watchdogs = <<>>

Next ==
    \/ InitializeBlockDevices
    \/ get_device_messages_info
    \/ get_device_sbd_header_dump
    \/ set_message
    \/ test_watchdog
    \/ get_available_watchdogs

Spec == Init /\ [][Next]_vars

-----------------------------------------------------------------------------
(* Properties                                                              *)

TypeOK ==
    /\ header \in [Device -> {"none", "valid"}]
    /\ reports \in Seq([severity : {"info"}, code : STRING, devices : DeviceLists])
    /\ raised \in STRING
    /\ tool \in [exit : {0, 1}, multiple : BOOLEAN]
    /\ DOMAIN watchdogs \subseteq WatchdogName

\* spec.md 4.6: the watchdog test tool signals "multiple watchdog devices"
\* by a successful exit with that phrase in its output, and pcs raises the
\* specific SbdWatchdogTestMultipleDevices error for it.
WatchdogMultipleDevicesDetected ==
    tool.multiple => raised = "SbdWatchdogTestMultipleDevices"

=============================================================================
