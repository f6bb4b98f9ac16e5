----------------------------- MODULE MCArbiter -----------------------------
(* A small instance of Arbiter for TLC. *)
EXTENDS Arbiter
MCPids == {1, 2}
MCReqLevels == {-1, 0, 8}
MCDomains == {"uid_dom_t"}
=============================================================================
