---------------------------- MODULE MCAuthChain ----------------------------
(* Small instances of AuthChain for TLC: one process, pid 1, to authorise;  *)
(* the other pids are those of system_manager instances.                    *)
EXTENDS AuthChain
MCPids == {1, 10, 11}
MCMgrs == {10, 11}
\* Denied commands are all handled alike: the guest tries one of them.
MCCommands ==
  [c \in {"root", "guest"} |->
     IF c = "root" THEN {"AUTHORIZE", "DEAUTHORIZE", "SERVICE", "QUIT"}
                   ELSE {"AUTHORIZE"}]
MCAuthorizeOnly == [c \in {"root", "guest"} |-> {"AUTHORIZE"}]
MCGrantLevels == {8}
MCSetLevels == {8}
=============================================================================
