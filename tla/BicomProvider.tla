--------------------------- MODULE BicomProvider ---------------------------
(***************************************************************************)
(* The connections of internal/pbx/bicom/provider.go to ARI: Connect and   *)
(* Close, the subscription whose end makes the provider connect again, and *)
(* the events a subscription delivers. Each provider is dialled by the     *)
(* goroutine that created it and, later, by its own event loop.            *)
(***************************************************************************)
EXTENDS AdminProcess

CONSTANTS
    Systems,        \* Bicom systems
    MaxTries        \* attempts of handleReconnect

ASSUME ProviderAssumption ==
    /\ None \notin Systems
    /\ MaxTries \in Nat \ {0}

VARIABLES
    bicom_systems,  \* the table: "none", "enabled" or "disabled"
    systems,        \* Manager.systems: the entry of each system
    providers       \* every provider that was created, in that order

SystemRows == {"none", "enabled", "disabled"}

pbxVars == <<bicom_systems, systems, providers>>

\* `dial` is the goroutine of Manager.Connect, `retry` that of handleReconnect.
NewProvider(s) ==
    [system |-> s, dial |-> "dialling", retry |-> "none", tries |-> 0,
     connected |-> FALSE, client |-> FALSE, subscribed |-> FALSE,
     lost |-> FALSE, handling |-> FALSE, closed |-> FALSE, overtaken |-> FALSE]

Providers == 1..Len(providers)

Provider(n, p) ==
    /\ providers' = [providers EXCEPT ![n] = p]
    /\ UNCHANGED <<bicom_systems, systems>>

\* Connect: the client, then the subscription. Nothing looks whether Close came first.
Connected(p) == [p EXCEPT !.connected = TRUE, !.client = TRUE, !.subscribed = TRUE]

Dialled(n, ok) ==
    /\ providers[n].dial = "dialling"
    /\ Fails(~ok)
    /\ Provider(n, IF ok THEN [Connected(providers[n]) EXCEPT !.dial = "up"]
                         ELSE [providers[n] EXCEPT !.dial = "down"])
    /\ UNCHANGED <<phase, work, requests>>

\* The connection to ARI is lost and the subscription ends. Bound: once in a behaviour.
SubscriptionLost(n) ==
    /\ providers[n].subscribed
    /\ \A m \in Providers : ~providers[m].lost
    /\ Provider(n, [providers[n] EXCEPT !.subscribed = FALSE, !.retry = "check", !.lost = TRUE])
    /\ UNCHANGED processVars

\* Mutant: the attempts are not counted.
ReconnectForEver(n) ==
    /\ providers[n].retry = "check"
    /\ ~providers[n].handling
    /\ Provider(n, [providers[n] EXCEPT !.retry = IF providers[n].connected THEN "dialling" ELSE "none",
                                        !.tries = @ + 1])
    /\ UNCHANGED processVars

\* handleReconnect: up to five attempts, none of a provider that is not connected.
ReconnectChecks(n) ==
    LET p == providers[n] IN
    /\ p.retry = "check"
    /\ ~p.handling
    /\ Provider(n, IF p.connected /\ p.tries < MaxTries
                   THEN [p EXCEPT !.retry = "dialling", !.tries = @ + 1]
                   ELSE [p EXCEPT !.retry = "none", !.tries = 0])
    /\ UNCHANGED processVars

Reconnected(n, ok) ==
    LET p == providers[n] IN
    /\ p.retry = "dialling"
    /\ Fails(~ok)
    /\ Provider(n, IF ok THEN [Connected(p) EXCEPT !.retry = "none", !.tries = 0]
                         ELSE [p EXCEPT !.retry = "check"])
    /\ UNCHANGED <<phase, work, requests>>

\* An event is taken from the subscription, and put into the channel a moment later. Bound: one
\* such event at a time.
EventArrives(n) ==
    /\ providers[n].subscribed
    /\ \A m \in Providers : ~providers[m].handling
    /\ Provider(n, [providers[n] EXCEPT !.handling = TRUE])
    /\ UNCHANGED processVars

\* The channel of a closed provider is closed: the send panics in a goroutine of its own.
EventSent(n) ==
    /\ providers[n].handling
    /\ Provider(n, [providers[n] EXCEPT !.handling = FALSE])
    /\ phase' = IF providers[n].closed THEN "panicked" ELSE phase
    /\ UNCHANGED <<work, requests, failures>>

\* What Close overtakes: a connection that is being made, an event that is being handled.
Busy(p) == p.dial = "dialling" \/ p.retry = "dialling" \/ p.handling

\* Mutant: the provider is not marked as not connected.
ClosedConnected(p) ==
    [p EXCEPT !.client = FALSE, !.subscribed = FALSE, !.closed = TRUE,
              !.retry = IF p.subscribed THEN "check" ELSE @,
              !.overtaken = Busy(p)]

\* Close cancels the subscription, whose loop then looks whether to connect again.
Closed(p) ==
    [p EXCEPT !.connected = FALSE, !.client = FALSE, !.subscribed = FALSE, !.closed = TRUE,
              !.retry = IF p.subscribed THEN "check" ELSE @,
              !.overtaken = Busy(p)]

ProviderNext ==
    \E n \in Providers :
        \/ \E ok \in BOOLEAN : Dialled(n, ok) \/ Reconnected(n, ok)
        \/ SubscriptionLost(n) \/ ReconnectChecks(n) \/ EventArrives(n) \/ EventSent(n)

=============================================================================
