---------------------------- MODULE MCPmsLinks -----------------------------
(***************************************************************************)
(* Two connections, of which an adapter that dials uses one.               *)
(***************************************************************************)
EXTENDS PmsLinks

CONSTANTS c1, c2

MCConns == {c1, c2}
=============================================================================
