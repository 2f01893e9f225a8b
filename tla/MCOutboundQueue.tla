-------------------------- MODULE MCOutboundQueue --------------------------
(***************************************************************************)
(* The instance TLC checks. Events "a" and "b" belong to one tenant; "c"   *)
(* is another tenant's and carries the key of "a".                         *)
(***************************************************************************)
EXTENDS OutboundQueue

MCEvents == {"a", "b", "c"}
MCKeys == {"k1", "k2"}
MCIdemKey == [e \in MCEvents |-> IF e = "b" THEN "k2" ELSE "k1"]
MCStrategy == [e \in MCEvents |-> IF e = "b" THEN "unregistered" ELSE "ilink_cdr"]
MCStrategyCloud == [e \in MCEvents |-> IF e = "b" THEN "cloud_hmac" ELSE "ilink_cdr"]
=============================================================================
