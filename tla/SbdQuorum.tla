----------------------------- MODULE SbdQuorum -----------------------------
(***************************************************************************)
(* The SBD / quorum safety engine of src/pcs/lib/sbd.py and the cluster    *)
(* operations that consult it.                                             *)
(*                                                                         *)
(* State: the corosync.conf facts the engine reads (node list, quorum      *)
(* device present, auto_tie_breaker enabled), the SBD service state and    *)
(* the SBD_DEVICE list of each node's SBD config file.  Every operation is *)
(* run on some cluster node `at`: is_device_set_local reads that node's    *)
(* config, so the decision depends on where the command runs.              *)
(*                                                                         *)
(* The operations themselves (sbd enable, node add/remove, quorum device   *)
(* remove, quorum update) live outside src/ and are modelled from spec.md  *)
(* 4.5/4.6: each one calls the decision functions of sbd.py exactly as the *)
(* spec says a caller does before committing a topology change.           *)
(***************************************************************************)
EXTENDS Integers, FiniteSets, Sequences, SequencesExt

CONSTANTS
    Node,             \* node names (model values)
    Path,             \* device paths (model values)
    AbsPath,          \* the paths that are non-empty and os.path.isabs
    SbdMaxDeviceNum,  \* settings.sbd_max_device_num
    MaxNodesPerChange \* bound: nodes added or removed by one command

ASSUME AbsPath \subseteq Path /\ SbdMaxDeviceNum \in Nat \ {0}

VARIABLES
    nodes,         \* corosync_conf_facade.get_nodes()
    qdevice,       \* corosync_conf_facade.has_quorum_device()
    atb,           \* corosync_conf_facade.is_enabled_auto_tie_breaker()
    sbdInstalled,  \* service_manager.is_installed(sbd service)
    sbdEnabled,    \* service_manager.is_enabled(sbd service)
    sbdDevices,    \* node -> SBD_DEVICE of its local SBD config, <<>> if none
    sbdConfigExists,   \* nodes whose settings.sbd_config file exists
    sbdConfigReadable  \* node -> open(settings.sbd_config) succeeds there

vars == <<nodes, qdevice, atb, sbdInstalled, sbdEnabled, sbdDevices,
          sbdConfigExists, sbdConfigReadable>>
cfgFileVars == <<sbdConfigExists, sbdConfigReadable>>

\* Device lists an operator can type: one longer than the limit, so that the
\* "too many devices" branch is reachable.
DeviceList == BoundedSeq(Path, SbdMaxDeviceNum + 1)

\* A call's outcome: a value, or the LibraryError it raises.
Ok(v) == [raised |-> "none", value |-> v]
Raise(code) == [raised |-> code, value |-> <<>>]

MkReport(code, node, inCluster, index) ==
    [code |-> code, node |-> node, sbd_enabled_in_cluster |-> inCluster,
     index |-> index]

-----------------------------------------------------------------------------
(* Decision functions of sbd.py                                            *)

\* Mutant: a config that cannot be opened is read as one without devices.
ReadErrorAsNoDevices(at) ==
    IF at \notin sbdConfigExists \/ ~sbdConfigReadable[at] THEN Ok(<<>>)
    ELSE Ok(sbdDevices[at])

\* get_local_sbd_device_list, read on node `at`: no file means no devices;
\* a file that exists but does not open (removed after path.exists, or an
\* I/O error) makes get_local_sbd_config raise UnableToGetSbdConfig.
get_local_sbd_device_list(at) ==
    IF at \notin sbdConfigExists THEN Ok(<<>>)
    ELSE IF ~sbdConfigReadable[at] THEN Raise("UnableToGetSbdConfig")
    ELSE Ok(sbdDevices[at])

LocalReadFails(at) == get_local_sbd_device_list(at).raised # "none"

is_device_set_local(at) == Len(get_local_sbd_device_list(at).value) > 0

\* is_sbd_installed / is_sbd_enabled: both ask the service manager about the
\* name get_sbd_service_name picks (sbd or sbd_helper); that choice does not
\* change the answer, so it is folded into the two flags.
is_sbd_installed == sbdInstalled
is_sbd_enabled == sbdEnabled

\* Mutant: the parity ignores the node count change the caller asks about.
EvenNodesIgnoringModifier(nodeSet, hasQdevice, node_number_modifier) ==
    ~hasQdevice /\ Cardinality(nodeSet) % 2 = 0

\* The facts are passed explicitly so that a caller can evaluate the
\* functions on the configuration it is about to write.
_even_number_of_nodes_and_no_qdevice(nodeSet, hasQdevice, node_number_modifier) ==
    /\ ~hasQdevice
    /\ (Cardinality(nodeSet) + node_number_modifier) % 2 = 0

\* Mutant: the local device check is dropped, as if every SBD cluster
\* fenced by watchdog only.
AtbNeededIgnoringDevices(at, nodeSet, hasQdevice, node_number_modifier) ==
    /\ _even_number_of_nodes_and_no_qdevice(nodeSet, hasQdevice, node_number_modifier)
    /\ is_sbd_installed
    /\ is_sbd_enabled

is_auto_tie_breaker_needed(at, nodeSet, hasQdevice, node_number_modifier) ==
    /\ _even_number_of_nodes_and_no_qdevice(nodeSet, hasQdevice, node_number_modifier)
    /\ is_sbd_installed
    /\ is_sbd_enabled
    /\ ~is_device_set_local(at)

\* is_auto_tie_breaker_needed evaluates its conjuncts left to right, so it
\* reads the local config, and raises with it, only past the first three.
AtbNeededRaises(at, nodeSet, hasQdevice, node_number_modifier) ==
    /\ _even_number_of_nodes_and_no_qdevice(nodeSet, hasQdevice, node_number_modifier)
    /\ is_sbd_installed
    /\ is_sbd_enabled
    /\ LocalReadFails(at)

atb_has_to_be_enabled_pre_enable_check(nodeSet, hasQdevice, atbEnabled) ==
    /\ ~atbEnabled
    /\ _even_number_of_nodes_and_no_qdevice(nodeSet, hasQdevice, 0)

atb_has_to_be_enabled(at, nodeSet, hasQdevice, atbEnabled, node_number_modifier) ==
    /\ ~atbEnabled
    /\ is_auto_tie_breaker_needed(at, nodeSet, hasQdevice, node_number_modifier)

AtbHasToBeEnabledRaises(at, nodeSet, hasQdevice, atbEnabled, node_number_modifier) ==
    ~atbEnabled /\ AtbNeededRaises(at, nodeSet, hasQdevice, node_number_modifier)

\* validate_nodes_devices: every node, every device, no short-circuit.  The
\* empty and the too-many checks are an if/elif; the path check runs for
\* every device regardless.
validate_nodes_devices(node_device_dict, adding_nodes_to_sbd_enabled_cluster) ==
    LET N == DOMAIN node_device_dict IN
      { MkReport("SbdNoDeviceForNode", n, adding_nodes_to_sbd_enabled_cluster, 0) :
            n \in { m \in N : node_device_dict[m] = <<>> } }
      \cup
      { MkReport("SbdTooManyDevicesForNode", n, FALSE, 0) :
            n \in { m \in N : Len(node_device_dict[m]) > SbdMaxDeviceNum } }
      \cup
      { MkReport("SbdDevicePathNotAbsolute", p[1], FALSE, p[2]) :
            p \in UNION { { <<m, i>> : i \in { j \in DOMAIN node_device_dict[m] :
                                                node_device_dict[m][j] \notin AbsPath } } :
                           m \in N } }

\* Mutant: new nodes always validated as if the cluster used devices.
ValidateNewNodesAlwaysWithDevices(at, nodes_devices) ==
    validate_nodes_devices(nodes_devices, TRUE)

\* validate_new_nodes_devices: new nodes must follow the device mode of the
\* node the command runs on.
validate_new_nodes_devices(at, nodes_devices) ==
    IF is_device_set_local(at)
    THEN validate_nodes_devices(nodes_devices, TRUE)
    ELSE { MkReport("SbdWithDevicesNotUsedCannotSetDevice", n, FALSE, 0) :
               n \in { m \in DOMAIN nodes_devices : nodes_devices[m] # <<>> } }

-----------------------------------------------------------------------------
(* Cluster operations (callers outside src/, modelled from spec.md)        *)

\* sbd enable: with devices every node's list is validated; without devices
\* the pre-enable check decides whether auto_tie_breaker is switched on.
EnableSbd(at) ==
    /\ sbdInstalled /\ ~sbdEnabled
    /\ \/ \E ndd \in [nodes -> DeviceList] :
             /\ validate_nodes_devices(ndd, FALSE) = {}
             /\ sbdDevices' = [n \in Node |-> IF n \in nodes THEN ndd[n]
                                                             ELSE sbdDevices[n]]
             /\ UNCHANGED atb
       \/ /\ sbdDevices' = [n \in Node |-> IF n \in nodes THEN <<>>
                                                          ELSE sbdDevices[n]]
          /\ atb' = (atb \/ atb_has_to_be_enabled_pre_enable_check(nodes, qdevice, atb))
    /\ sbdEnabled' = TRUE
    /\ sbdConfigExists' = sbdConfigExists \cup nodes
    /\ sbdConfigReadable' = [n \in Node |-> n \in nodes \/ sbdConfigReadable[n]]
    /\ UNCHANGED <<nodes, qdevice, sbdInstalled>>

DisableSbd(at) ==
    /\ sbdEnabled
    /\ sbdEnabled' = FALSE
    /\ UNCHANGED <<nodes, qdevice, atb, sbdInstalled, sbdDevices, cfgFileVars>>

\* cluster node add: devices of the new nodes are validated when SBD is
\* enabled, then ATB is forced on if the grown cluster needs it.  Either
\* check aborts the command when it cannot read the local config.
AddNodes(at) ==
    \E new \in SUBSET (Node \ nodes) :
      /\ new # {} /\ Cardinality(new) <= MaxNodesPerChange
      /\ sbdEnabled => ~LocalReadFails(at)
      /\ ~AtbHasToBeEnabledRaises(at, nodes, qdevice, atb, Cardinality(new))
      /\ \E ndd \in [new -> DeviceList] :
           /\ sbdEnabled => validate_new_nodes_devices(at, ndd) = {}
           /\ sbdDevices' = [n \in Node |-> IF n \in new /\ sbdEnabled THEN ndd[n]
                                                                       ELSE sbdDevices[n]]
      /\ atb' = (atb \/ atb_has_to_be_enabled(at, nodes, qdevice, atb, Cardinality(new)))
      /\ nodes' = nodes \cup new
      /\ sbdConfigExists' = IF sbdEnabled THEN sbdConfigExists \cup new ELSE sbdConfigExists
      /\ sbdConfigReadable' = [n \in Node |-> (sbdEnabled /\ n \in new) \/ sbdConfigReadable[n]]
      /\ UNCHANGED <<qdevice, sbdInstalled, sbdEnabled>>

\* Mutant: the node the command runs on may be removed as well.
RemoveNodesIncludingLocal(at) ==
    \E rm \in SUBSET nodes :
      /\ rm # {} /\ Cardinality(rm) <= MaxNodesPerChange
      /\ ~AtbHasToBeEnabledRaises(at, nodes, qdevice, atb, -Cardinality(rm))
      /\ atb' = (atb \/ atb_has_to_be_enabled(at, nodes, qdevice, atb, -Cardinality(rm)))
      /\ nodes' = nodes \ rm
      /\ UNCHANGED <<qdevice, sbdInstalled, sbdEnabled, sbdDevices, cfgFileVars>>

\* cluster node remove: the shrunk cluster is checked with a negative
\* modifier; the node the command runs on stays.
RemoveNodes(at) ==
    \E rm \in SUBSET (nodes \ {at}) :
      /\ rm # {} /\ Cardinality(rm) <= MaxNodesPerChange
      /\ ~AtbHasToBeEnabledRaises(at, nodes, qdevice, atb, -Cardinality(rm))
      /\ atb' = (atb \/ atb_has_to_be_enabled(at, nodes, qdevice, atb, -Cardinality(rm)))
      /\ nodes' = nodes \ rm
      /\ UNCHANGED <<qdevice, sbdInstalled, sbdEnabled, sbdDevices, cfgFileVars>>

AddQdevice(at) ==
    /\ ~qdevice
    /\ qdevice' = TRUE
    /\ UNCHANGED <<nodes, atb, sbdInstalled, sbdEnabled, sbdDevices, cfgFileVars>>

\* quorum device remove: the check runs on the configuration with the
\* device already removed.
RemoveQdevice(at) ==
    /\ qdevice
    /\ ~AtbHasToBeEnabledRaises(at, nodes, FALSE, atb, 0)
    /\ qdevice' = FALSE
    /\ atb' = (atb \/ atb_has_to_be_enabled(at, nodes, FALSE, atb, 0))
    /\ UNCHANGED <<nodes, sbdInstalled, sbdEnabled, sbdDevices, cfgFileVars>>

\* quorum update auto_tie_breaker=0 is refused while SBD needs it.
DisableAtb(at) ==
    /\ atb
    /\ ~AtbNeededRaises(at, nodes, qdevice, 0)
    /\ ~is_auto_tie_breaker_needed(at, nodes, qdevice, 0)
    /\ atb' = FALSE
    /\ UNCHANGED <<nodes, qdevice, sbdInstalled, sbdEnabled, sbdDevices, cfgFileVars>>

EnableAtb(at) ==
    /\ ~atb
    /\ atb' = TRUE
    /\ UNCHANGED <<nodes, qdevice, sbdInstalled, sbdEnabled, sbdDevices, cfgFileVars>>

-----------------------------------------------------------------------------
(* Faults of the local config file                                         *)

\* open(settings.sbd_config) starts failing on node n: the file is removed
\* between path.exists and open, or it cannot be read (EnvironmentError).
\* A removal that outlasts the command is a config without devices, which
\* is an operator's doing and not modelled.
ConfigOpenFails(n) ==
    /\ n \in sbdConfigExists /\ sbdConfigReadable[n]
    /\ sbdConfigReadable' = [sbdConfigReadable EXCEPT ![n] = FALSE]
    /\ UNCHANGED <<nodes, qdevice, atb, sbdInstalled, sbdEnabled, sbdDevices, sbdConfigExists>>

\* The file opens again.
ConfigOpenRecovers(n) ==
    /\ ~sbdConfigReadable[n]
    /\ sbdConfigReadable' = [sbdConfigReadable EXCEPT ![n] = TRUE]
    /\ UNCHANGED <<nodes, qdevice, atb, sbdInstalled, sbdEnabled, sbdDevices, sbdConfigExists>>

\* A freshly set up cluster: any node set, no quorum device, default quorum
\* options, SBD installed or not, disabled and without config.
Init ==
    /\ nodes \in SUBSET Node \ {{}}
    /\ qdevice = FALSE
    /\ atb = FALSE
    /\ sbdInstalled \in BOOLEAN
    /\ sbdEnabled = FALSE
    /\ sbdDevices = [n \in Node |-> <<>>]
    /\ sbdConfigExists = {}
    /\ sbdConfigReadable = [n \in Node |-> TRUE]

Next ==
    \/ \E at \in nodes : EnableSbd(at)
    \/ \E at \in nodes : DisableSbd(at)
    \/ \E at \in nodes : AddNodes(at)
    \/ \E at \in nodes : RemoveNodes(at)
    \/ \E at \in nodes : AddQdevice(at)
    \/ \E at \in nodes : RemoveQdevice(at)
    \/ \E at \in nodes : DisableAtb(at)
    \/ \E at \in nodes : EnableAtb(at)
    \/ \E n \in nodes : ConfigOpenFails(n)
    \/ \E n \in Node : ConfigOpenRecovers(n)

Spec == Init /\ [][Next]_vars

-----------------------------------------------------------------------------
(* Properties                                                              *)

TypeOK ==
    /\ nodes \in SUBSET Node /\ nodes # {}
    /\ qdevice \in BOOLEAN /\ atb \in BOOLEAN
    /\ sbdInstalled \in BOOLEAN /\ sbdEnabled \in BOOLEAN
    /\ sbdDevices \in [Node -> DeviceList]
    /\ sbdConfigExists \in SUBSET Node
    /\ sbdConfigReadable \in [Node -> BOOLEAN]

\* Split-brain protection (spec.md 4.5): whenever SBD runs in watchdog-only
\* mode on some node of an even cluster without a quorum device,
\* auto_tie_breaker is on.  It must survive every node add/remove (the
\* node_number_modifier arithmetic), quorum device removal, SBD enable and
\* ATB disable, each decided on the node the command happens to run on.
SplitBrainGuarded ==
    ( /\ sbdInstalled /\ sbdEnabled
      /\ \E n \in nodes : sbdDevices[n] = <<>>
      /\ ~qdevice
      /\ Cardinality(nodes) % 2 = 0 ) => atb

\* While SBD is enabled all nodes use devices or none does (the all-or-
\* nothing policy of validate_new_nodes_devices), and every node's list is
\* within the limit and holds absolute paths only.
SbdDeviceConfigConsistent ==
    sbdEnabled =>
      /\ \A m, n \in nodes : (sbdDevices[m] = <<>>) = (sbdDevices[n] = <<>>)
      /\ \A n \in nodes : /\ Len(sbdDevices[n]) <= SbdMaxDeviceNum
                          /\ ToSet(sbdDevices[n]) \subseteq AbsPath

-----------------------------------------------------------------------------
(* Refinement of the cluster-wide promise (QuorumSafety)                   *)

\* How SBD fences, as a fact of the cluster: off unless installed and
\* enabled, watchdog-only as soon as some node has no devices.
Fencing ==
    IF ~(sbdInstalled /\ sbdEnabled) THEN "off"
    ELSE IF \E n \in nodes : sbdDevices[n] = <<>> THEN "watchdog" ELSE "devices"

Abs == INSTANCE QuorumSafety WITH size <- Cardinality(nodes), fencing <- Fencing

\* Every cluster operation, decided on whichever node it runs, is a step of
\* QuorumSafety: auto_tie_breaker is switched on exactly when the cluster
\* the operation leaves behind needs it, switching it off is refused while
\* it is needed, and the SBD mode does not change while SBD runs.  The
\* engine reads only the local node's config, so this holds only as long
\* as device validation keeps every node in the same mode.
AbsSpec == Abs!Spec

=============================================================================
