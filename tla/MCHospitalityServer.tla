------------------------ MODULE MCHospitalityServer ------------------------
(***************************************************************************)
(* A server that has either tenants or PBX systems: they share nothing but *)
(* the process, so that both at once would show nothing more.              *)
(***************************************************************************)
EXTENDS HospitalityServer

CONSTANTS t1, w1, w2, s1, fias, renamed, moved, tiger

MCConfigs == {fias, renamed, moved, tiger}

\* "renamed" differs from "fias" in other settings than those of the PMS.
MCPmsOf == [c \in MCConfigs |-> CASE c \in {fias, renamed} -> 1 [] c = moved -> 2 [] OTHER -> 0]

NoTenants == (\A id \in TenantIds : rows[id] = None /\ tokens[id] = "none") /\ adapters = <<>>
NoSystems == (\A s \in Systems : bicom_systems[s] = "none") /\ providers = <<>>

OneSide == NoTenants \/ NoSystems

\* A tenant has a token from the start only if it has a use for it.
UsefulTokens == \A id \in TenantIds : tokens[id] = "enabled" => SpeaksILink(id)

\* "fias" and "renamed" may change places: every behaviour that begins with one is, up to their
\* names, one that begins with the other.
FirstConfigs == \A id \in TenantIds : rows[id] # None => rows[id].cfg # renamed

\* So may the two goroutines: w1 takes the first request.
W1First == requests = 1 => work[w2] = Idle

MCInit == Init /\ OneSide /\ UsefulTokens /\ FirstConfigs

MCSpec == MCInit /\ [][Next]_vars /\ Fairness
=============================================================================
