---------------------------- MODULE MCSbdConfig ----------------------------
(* Paths of up to three characters.  The plain alphabet has only "/" and  *)
(* a name character; the full one adds the two characters the read-back   *)
(* treats specially, ";" and a blank.                                      *)
EXTENDS SbdConfig

CONSTANTS nodeA, wd1, wdDefault

MCPlainChar == {"/", "a"}
MCFullChar == {"/", "a", ";", " "}
=============================================================================
