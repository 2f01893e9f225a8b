-------------------------- MODULE MCSiteConnector --------------------------
(***************************************************************************)
(* All eight configurations of an output: see MCSiteConnector.cfg.         *)
(***************************************************************************)
EXTENDS SiteConnector
=============================================================================
