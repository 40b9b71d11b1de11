---------------------------- MODULE MCAppUiFetch ----------------------------
(* Two sessions and one caller-held header dict: enough for the dict to  *)
(* be reused by calls with different sessions or none.                     *)
EXTENDS AppUiFetch

CONSTANTS s1, s2, h1

MCSid == {s1, s2}
MCHeaderDict == {h1}
=============================================================================
