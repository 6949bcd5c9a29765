---------------------------- MODULE WebhookQueue ----------------------------
(***************************************************************************)
(* What the webhook relay promises its callers (docs/webhooks.md, "Relay   *)
(* through the cloud"): a request that was taken stays open until it is    *)
(* answered, the answer is one that processing this very request produced, *)
(* and once given it neither changes nor goes away. A request may be       *)
(* processed more than once. WebhookRelay is shown to implement this.      *)
(***************************************************************************)
CONSTANTS Requests, Results, NoResult

VARIABLES
    state,     \* what a caller sees of a request
    produced,  \* the results of processing it so far
    answer     \* the stored result

vars == <<state, produced, answer>>

Init ==
    /\ state = [r \in Requests |-> "absent"]
    /\ produced = [r \in Requests |-> {}]
    /\ answer = [r \in Requests |-> NoResult]

Submit(r) ==
    /\ state[r] = "absent"
    /\ state' = [state EXCEPT ![r] = "open"]
    /\ UNCHANGED <<produced, answer>>

Process(r, res) ==
    /\ state[r] # "absent"
    /\ produced' = [produced EXCEPT ![r] = @ \cup {res}]
    /\ UNCHANGED <<state, answer>>

Answer(r) ==
    /\ state[r] = "open"
    /\ state' = [state EXCEPT ![r] = "answered"]
    /\ \E res \in produced[r] : answer' = [answer EXCEPT ![r] = res]
    /\ UNCHANGED produced

Next ==
    \E r \in Requests :
        Submit(r) \/ (\E res \in Results : Process(r, res)) \/ Answer(r)

Spec == Init /\ [][Next]_vars
=============================================================================
