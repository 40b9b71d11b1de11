--------------------------- MODULE MCResourceSet ---------------------------
(* Model of ResourceSet for TLC.  The CIB already holds resources r1, r2  *)
(* and an element with id "c1_set", the id create() first tries for sets *)
(* of constraint c1.  Options cover a legacy, a new and an unknown role,   *)
(* an unknown option name and an illegal boolean.                         *)
EXTENDS ResourceSet

NoOptions == [x \in {} |-> "true"]

MCOtherIds == {<<"r1">>, <<"r2">>, <<"c1", "_set">>}
MCResourceIds == {<<"r1">>, <<"r2">>}
MCConstraintIds == {<<"c1">>, <<"c2">>}

MCOptions ==
    { NoOptions,
      "role" :> "Master",
      "role" :> "Promoted",
      "role" :> "Started",
      "role" :> "Leader",
      ("sequential" :> "true") @@ ("score" :> "10"),
      "require-all" :> "yes" }

MCRawSetInput ==
    [ids : {<< <<"r2">>, <<"r1">> >>}, options : MCOptions]
=============================================================================
