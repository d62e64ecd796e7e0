---------------------------- MODULE MCNodeRuntime ----------------------------
(***************************************************************************)
(* Instances of NodeRuntime for TLC.  User 1 has two credentials, so that   *)
(* a change of UUID occurs; the configurations are of the kinds the code    *)
(* tells apart.                                                             *)
(***************************************************************************)
EXTENDS NodeRuntime

CONSTANTS plain, strict, m1, m2

U(id, uuid) == [id |-> id, uuid |-> uuid]
MCUsers == {U(1, "a"), U(1, "b")}
MCConfigs == {plain, strict}
MCCerts == {m1, m2}
MCLanding == {strict}
MCRemoteCert == {strict}
MCNeedsCert == {strict}
MCUsesClock == {plain}
MCOneUser == {U(1, "a")}
=============================================================================
