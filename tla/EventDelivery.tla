--------------------------- MODULE EventDelivery ---------------------------
(***************************************************************************)
(* What the outbound queue promises of each event, with no tables, rows or *)
(* goroutines: an event is enqueued once; it is tried, each try gives the  *)
(* receiver at most one copy; a try ends in success, in a later try or,    *)
(* once the budget is spent, in giving up.                                 *)
(***************************************************************************)
EXTENDS Integers

CONSTANTS
    Events,     \* what is delivered
    Limit       \* per event, the tries after which it may be given up

VARIABLES
    stage,      \* where each event is
    tries,      \* how often its delivery has been started
    copies      \* how many copies the receiver has taken

vars == <<stage, tries, copies>>

Stages == {"unknown", "waiting", "trying", "sent", "dropped"}

Init ==
    /\ stage = [e \in Events |-> "unknown"]
    /\ tries = [e \in Events |-> 0]
    /\ copies = [e \in Events |-> 0]

Move(e, from, to) == stage[e] = from /\ stage' = [stage EXCEPT ![e] = to]

Produce(e) == Move(e, "unknown", "waiting") /\ UNCHANGED <<tries, copies>>

\* A batch of waiting events is taken up, all at once.
Take(S) ==
    /\ \A e \in S : stage[e] = "waiting"
    /\ stage' = [e \in Events |-> IF e \in S THEN "trying" ELSE stage[e]]
    /\ tries' = [e \in Events |-> IF e \in S THEN tries[e] + 1 ELSE tries[e]]
    /\ UNCHANGED copies

Copy(e) ==
    /\ stage[e] = "trying" /\ copies[e] < tries[e]
    /\ copies' = [copies EXCEPT ![e] = @ + 1]
    /\ UNCHANGED <<stage, tries>>

Succeed(e) == Move(e, "trying", "sent") /\ UNCHANGED <<tries, copies>>

\* Tries end without success, several at once when the process that made them dies.
Retry(S) ==
    /\ \A e \in S : stage[e] = "trying"
    /\ stage' = [e \in Events |-> IF e \in S THEN "waiting" ELSE stage[e]]
    /\ UNCHANGED <<tries, copies>>

GiveUp(e) ==
    /\ tries[e] >= Limit[e]
    /\ Move(e, "trying", "dropped")
    /\ UNCHANGED <<tries, copies>>

Next ==
    \/ \E e \in Events : Produce(e) \/ Copy(e) \/ Succeed(e) \/ GiveUp(e)
    \/ \E S \in SUBSET Events : Take(S) \/ Retry(S)

Spec == Init /\ [][Next]_vars
=============================================================================
