--------------------------- MODULE AdminProcess ---------------------------
(***************************************************************************)
(* The process of cmd/bicom-hospitality/main.go as its parts see it: the   *)
(* phases main goes through, and the goroutines that serve requests of the *)
(* HTTP API. TenantManager, PbxManager and ILink add the steps a request   *)
(* takes in each of them; HospitalityServer puts them together.            *)
(***************************************************************************)
EXTENDS Naturals, Sequences, FiniteSets

CONSTANTS
    TenantIds,
    Workers,        \* goroutines that serve requests
    Main,           \* the main goroutine
    None,           \* no row, no entry, no holder
    MaxRequests,    \* bound: requests of a behaviour
    MaxFailures     \* bound: connections and queries that fail

ASSUME ProcessAssumption ==
    /\ Main \notin Workers
    /\ None \notin Workers \cup {Main} \cup TenantIds
    /\ MaxRequests \in Nat
    /\ MaxFailures \in Nat

VARIABLES
    phase,      \* how far main is
    work,       \* what each goroutine is doing
    requests,   \* requests served so far
    failures    \* what has failed so far

processVars == <<phase, work, requests, failures>>

Phases == {"systems", "connect", "load", "tenants", "start", "routes", "serve",
           "stop", "close", "ended", "fatal", "panicked"}
Goroutines == Workers \cup {Main}

Idle == [at |-> "idle"]

ProcessInit ==
    /\ phase = "systems"
    /\ work = [g \in Goroutines |-> Idle]
    /\ requests = 0
    /\ failures = 0

Running == phase \notin {"ended", "fatal", "panicked"}

\* A handler begins. The server stops taking requests when main begins to stop; main
\* waits 30 s for those under way and then goes on whether they are done or not.
Request(w, job) ==
    /\ phase = "serve"
    /\ w \in Workers
    /\ work[w] = Idle
    /\ requests < MaxRequests
    /\ requests' = requests + 1
    /\ work' = [work EXCEPT ![w] = job]
    /\ UNCHANGED <<phase, failures>>

Goes(w, job) ==
    /\ work' = [work EXCEPT ![w] = job]
    /\ UNCHANGED <<phase, requests, failures>>

\* main goes on with a list of its own.
MainGoes(next, todo) ==
    /\ phase' = next
    /\ work' = [work EXCEPT ![Main] = [at |-> "main", todo |-> todo]]
    /\ UNCHANGED <<requests, failures>>

MainHas(at, id) ==
    /\ phase = at
    /\ id \in work[Main].todo

MainDid(at) ==
    /\ phase = at
    /\ work[Main].todo = {}

\* A step that may fail, within the bound.
Fails(broken) ==
    /\ broken => failures < MaxFailures
    /\ failures' = IF broken THEN failures + 1 ELSE failures

=============================================================================
