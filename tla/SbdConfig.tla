----------------------------- MODULE SbdConfig -----------------------------
(***************************************************************************)
(* The local SBD config of src/pcs/lib/sbd.py: create_sbd_config writes   *)
(* the validated device list as SBD_DEVICE="<d1>;<d2>;...", and            *)
(* get_local_sbd_device_list / is_device_set_local read it back, which is *)
(* what every later quorum decision of the node is based on.               *)
(*                                                                         *)
(* A device path is a sequence of characters, so that joining, quoting,    *)
(* splitting and stripping are modelled by what they do.  The environment *)
(* file format itself (dict_to_environment_file, environment_file_to_dict) *)
(* is outside this repository: the file holds the dictionary.              *)
(***************************************************************************)
EXTENDS Integers, Sequences, SequencesExt

CONSTANTS
    Char,            \* characters a device path may contain
    MaxPathLen,      \* bound: characters in a device path
    SbdMaxDeviceNum, \* settings.sbd_max_device_num
    NodeLabel,       \* the local node's name
    Watchdog,        \* watchdog devices an operator may give
    NoWatchdog,      \* the watchdog argument when none is given ("")
    DefaultWatchdog  \* settings.sbd_watchdog_default

VARIABLES
    sbdConfigExists, \* path.exists(settings.sbd_config)
    sbdConfigReadable, \* open(settings.sbd_config) succeeds
    sbdConfigFile,   \* the dictionary the config file holds
    written          \* the device list the last write was given

vars == <<sbdConfigExists, sbdConfigReadable, sbdConfigFile, written>>

\* The outcome of a call that may raise: its value, or the error it raised.
Ok(value) == [raised |-> "none", value |-> value]
Raise(code) == [raised |-> code, value |-> <<>>]

Quote == "\""
Whitespace == {" "}

Path == UNION { [1..n -> Char] : n \in 1..MaxPathLen }

\* Device lists an operator can give: up to one more than the limit.
DeviceListInput == BoundedSeq(Path, SbdMaxDeviceNum + 1)

-----------------------------------------------------------------------------
(* String operations on character sequences                                *)

\* ";".join(device_list)
JoinSemicolon(list) ==
    IF list = <<>> THEN <<>>
    ELSE FoldLeft(LAMBDA acc, p : acc \o <<";">> \o p, list[1], Tail(list))

\* str.split(";"): the pieces between separators, empty ones included.
RECURSIVE SplitSemicolon(_)
SplitSemicolon(s) ==
    LET i == SelectInSeq(s, LAMBDA c : c = ";")
    IN IF i = 0 THEN <<s>>
       ELSE <<SubSeq(s, 1, i - 1)>> \o SplitSemicolon(SubSeq(s, i + 1, Len(s)))

\* str.strip(): leading and trailing whitespace removed.
Strip(s) ==
    LET kept == { i \in DOMAIN s : s[i] \notin Whitespace }
    IN IF kept = {} THEN <<>> ELSE SubSeq(s, Min(kept), Max(kept))

\* os.path.isabs on POSIX.
IsAbs(p) == Len(p) > 0 /\ p[1] = "/"

-----------------------------------------------------------------------------
(* sbd.py                                                                  *)

\* validate_nodes_devices for the local node's list.
validate_nodes_devices(device_list) ==
    (IF device_list = <<>> THEN {[code |-> "SbdNoDeviceForNode", device |-> <<>>]}
     ELSE IF Len(device_list) > SbdMaxDeviceNum
          THEN {[code |-> "SbdTooManyDevicesForNode", device |-> <<>>]}
          ELSE {})
    \cup { [code |-> "SbdDevicePathNotAbsolute", device |-> device_list[i]] :
           i \in { j \in DOMAIN device_list : ~IsAbs(device_list[j]) } }

get_default_sbd_config ==
    [SBD_DELAY_START |-> "no", SBD_PACEMAKER |-> "yes", SBD_STARTMODE |-> "always",
     SBD_WATCHDOG_DEV |-> DefaultWatchdog, SBD_WATCHDOG_TIMEOUT |-> "5"]

\* get_local_sbd_config: the file's content, or UnableToGetSbdConfig raised
\* when it cannot be opened.
get_local_sbd_config(readable, cfg) ==
    IF readable THEN Ok(cfg) ELSE Raise("UnableToGetSbdConfig")

\* Mutant: the quotes are stripped one character short at the end.
ReadStripOnlyOpeningQuote(exists, readable, cfg) ==
    IF ~exists THEN Ok(<<>>)
    ELSE IF get_local_sbd_config(readable, cfg).raised # "none"
    THEN get_local_sbd_config(readable, cfg)
    ELSE IF "SBD_DEVICE" \notin DOMAIN cfg THEN Ok(<<>>)
    ELSE LET devices == cfg["SBD_DEVICE"]
             unquoted == IF Len(devices) > 0 /\ devices[1] = Quote
                         THEN Tail(devices) ELSE devices
         IN Ok(SelectSeq([k \in DOMAIN SplitSemicolon(unquoted) |->
                             Strip(SplitSemicolon(unquoted)[k])],
                         LAMBDA d : d # <<>>))

\* get_local_sbd_device_list: [] without a config file or SBD_DEVICE; the
\* read error of get_local_sbd_config passes through; otherwise one pair
\* of surrounding quotes removed, split on ";", every piece stripped,
\* empty pieces dropped.
get_local_sbd_device_list(exists, readable, cfg) ==
    IF ~exists THEN Ok(<<>>)
    ELSE IF get_local_sbd_config(readable, cfg).raised # "none"
    THEN get_local_sbd_config(readable, cfg)
    ELSE IF "SBD_DEVICE" \notin DOMAIN cfg THEN Ok(<<>>)
    ELSE LET devices == cfg["SBD_DEVICE"]
             unquoted == IF /\ Len(devices) > 0
                            /\ devices[1] = Quote /\ devices[Len(devices)] = Quote
                         THEN SubSeq(devices, 2, Len(devices) - 1) ELSE devices
             pieces == SplitSemicolon(unquoted)
         IN Ok(SelectSeq([k \in DOMAIN pieces |-> Strip(pieces[k])],
                         LAMBDA d : d # <<>>))

\* Mutant: "at least one device" tested as more than one.
IsDeviceSetLocalSeveral(exists, readable, cfg) ==
    LET list == get_local_sbd_device_list(exists, readable, cfg)
    IN IF list.raised # "none" THEN list ELSE Ok(Len(list.value) > 1)

\* is_device_set_local: raises like get_local_sbd_device_list.
is_device_set_local(exists, readable, cfg) ==
    LET list == get_local_sbd_device_list(exists, readable, cfg)
    IN IF list.raised # "none" THEN list ELSE Ok(Len(list.value) > 0)

\* Mutant: the devices are concatenated without a separator.
CreateJoiningWithoutSeparator(base_config, node_label, watchdog, device_list) ==
    LET c1 == ("SBD_OPTS" :> node_label) @@ base_config
        c2 == IF watchdog # NoWatchdog THEN ("SBD_WATCHDOG_DEV" :> watchdog) @@ c1 ELSE c1
    IN IF device_list # <<>>
       THEN ("SBD_DEVICE" :> <<Quote>> \o FlattenSeq(device_list) \o <<Quote>>) @@ c2
       ELSE c2

\* Mutant: the config starts empty instead of from the base config.
CreateFromEmptyBase(base_config, node_label, watchdog, device_list) ==
    LET c1 == [k \in {"SBD_OPTS"} |-> node_label]
        c2 == IF watchdog # NoWatchdog THEN ("SBD_WATCHDOG_DEV" :> watchdog) @@ c1 ELSE c1
    IN IF device_list # <<>>
       THEN ("SBD_DEVICE" :> <<Quote>> \o JoinSemicolon(device_list) \o <<Quote>>) @@ c2
       ELSE c2

\* create_sbd_config: the base config with SBD_OPTS, the watchdog if one
\* is given and SBD_DEVICE if the list is not empty.
create_sbd_config(base_config, node_label, watchdog, device_list) ==
    LET c1 == ("SBD_OPTS" :> node_label) @@ base_config
        c2 == IF watchdog # NoWatchdog THEN ("SBD_WATCHDOG_DEV" :> watchdog) @@ c1 ELSE c1
    IN IF device_list # <<>>
       THEN ("SBD_DEVICE" :> <<Quote>> \o JoinSemicolon(device_list) \o <<Quote>>) @@ c2
       ELSE c2

-----------------------------------------------------------------------------
(* Operations                                                              *)

\* Enabling SBD on the node: a given device list is validated first and a
\* list with errors stops the command; then the config is written.
SetUpSbdConfig ==
    \E watchdog \in Watchdog \cup {NoWatchdog}, device_list \in DeviceListInput :
      /\ device_list # <<>> => validate_nodes_devices(device_list) = {}
      /\ sbdConfigExists' = TRUE
      /\ sbdConfigFile' = create_sbd_config(get_default_sbd_config, NodeLabel,
                                            watchdog, device_list)
      /\ written' = device_list
      /\ UNCHANGED sbdConfigReadable

Init ==
    /\ sbdConfigExists = FALSE
    /\ sbdConfigReadable \in BOOLEAN
    /\ sbdConfigFile = <<>>
    /\ written = <<>>

Next == SetUpSbdConfig

\* The config can be written again at any time.
Spec == Init /\ [][Next]_vars

-----------------------------------------------------------------------------
(* Properties                                                              *)

SbdConfigKeys == DOMAIN get_default_sbd_config \cup {"SBD_OPTS"}

TypeOK ==
    /\ sbdConfigExists \in BOOLEAN /\ sbdConfigReadable \in BOOLEAN
    /\ sbdConfigExists => DOMAIN sbdConfigFile \in
                             {SbdConfigKeys, SbdConfigKeys \cup {"SBD_DEVICE"}}
    /\ written \in DeviceListInput

\* The device list the node reads back from its config is exactly the list
\* that was validated and written: same devices, same order, and still
\* within sbd_max_device_num and absolute, so is_device_set_local and the
\* quorum decisions built on it see what the operator configured.  A
\* config that cannot be opened makes the read raise instead.
DeviceListRoundTrip ==
    LET read == get_local_sbd_device_list(sbdConfigExists, sbdConfigReadable, sbdConfigFile)
    IN read.raised = "none" => read.value = written

\* A path the read-back cannot split apart: no ";" and no blank at either
\* end (validate_nodes_devices checks only that it is absolute).
PlainPath(p) == (\A i \in DOMAIN p : p[i] # ";") /\ Strip(p) = p

\* For device paths without ";" and surrounding blanks, the list the node
\* reads back is the list that was validated and written: same devices,
\* same order (create_sbd_config's join and quoting undone exactly by
\* get_local_sbd_device_list).  A config that cannot be opened raises.
PlainDeviceListRoundTrip ==
    LET read == get_local_sbd_device_list(sbdConfigExists, sbdConfigReadable, sbdConfigFile)
    IN (read.raised = "none" /\ \A i \in DOMAIN written : PlainPath(written[i]))
         => read.value = written

\* Whatever characters the paths hold (";" and blanks included), the node
\* that wrote a config reads back "devices are set" exactly when it was
\* given devices: is_device_set_local, on which every auto_tie_breaker and
\* new-node decision of the node rests (SbdQuorum), either raises or
\* agrees with the write, even where the list itself does not round-trip.
LocalDeviceSetAsWritten ==
    LET set == is_device_set_local(sbdConfigExists, sbdConfigReadable, sbdConfigFile)
    IN set.raised = "none" => set.value = (written # <<>>)

=============================================================================
