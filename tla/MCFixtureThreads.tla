-------------------------- MODULE MCFixtureThreads --------------------------
(* Three fixtures, as in run_tier1_fixtures (constraints, resources,       *)
(* stonith levels).  A counter of 4 instead of 30 still lets the polling  *)
(* loop run several passes before the timeout fires.                       *)
(*                                                                         *)
(* Four test methods: two in a tier0 class, one tier1 legacy test and one *)
(* other tier1 test.  The command lines cover discovery of everything, of *)
(* one tier, "--list", a legacy module given as a file path, a full test *)
(* id and a class name, each with and without "--all-but".                *)
EXTENDS FixtureThreads

CONSTANTS fConstraint, fResource, fStonith

MCFixtureOrder == <<fConstraint, fResource, fStonith>>

AclTestA == <<"pcs_test", "tier0", "test_acl", "ACLTest", "testA">>
AclTestB == <<"pcs_test", "tier0", "test_acl", "ACLTest", "testB">>
LegacyTest == <<"pcs_test", "tier1", "legacy", "test_constraints", "ConstraintTest", "testC">>
ClusterTest == <<"pcs_test", "tier1", "test_cluster", "ClusterTest", "testD">>

MCAllTests == {AclTestA, AclTestB, LegacyTest, ClusterTest}

AclClass == <<"pcs_test", "tier0", "test_acl", "ACLTest">>
LegacyFile == <<"pcs_test", "tier1", "legacy", "test_constraints", "py">>

Argv(names, allBut, list, tier) ==
    [names |-> names, allBut |-> allBut, list |-> list, tier |-> tier]

MCArgvInput ==
    { Argv(<<>>, FALSE, FALSE, "none"),
      Argv(<<>>, FALSE, FALSE, "tier0"),
      Argv(<<>>, FALSE, TRUE, "none"),
      Argv(<<LegacyFile>>, FALSE, FALSE, "none"),
      Argv(<<LegacyFile>>, TRUE, FALSE, "tier1"),
      Argv(<<AclTestA>>, TRUE, FALSE, "tier0"),
      Argv(<<AclClass>>, FALSE, FALSE, "none"),
      Argv(<<AclClass>>, TRUE, FALSE, "none") }
=============================================================================
