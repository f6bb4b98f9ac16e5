------------------------------- MODULE MCBoot -------------------------------
(* Instances of Boot for TLC: the two authorities, ipc_bus, and two UI       *)
(* daemons; selinux_manager, which is not supervised, and system_manager may *)
(* be missing.                                                               *)
EXTENDS Boot
MCSed == <<"permission_arbiter", "system_manager", "selinux_manager", "ipc_bus">>
MCUid == <<"display_server", "system_ui">>
MCSupervised ==
  <<"permission_arbiter", "system_manager", "ipc_bus", "display_server", "system_ui">>
MCMissable == {"selinux_manager", "system_manager"}
=============================================================================
