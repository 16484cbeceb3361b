--------------------------- MODULE RequestService ---------------------------
(***************************************************************************)
(* What the server promises its clients, whichever runner serves them: a   *)
(* request is taken once and answered at most once; "503" is said only     *)
(* once ctrl-c was pressed; nothing is taken after the server was stopped; *)
(* and the process does not end while a client waits for its answer.       *)
(* Workers, queues, threads and timeouts are the runners' business.        *)
(***************************************************************************)
CONSTANT Requests

VARIABLES
    client,        \* what each client sees
    stage          \* "open", "closing" after ctrl-c, "stopped", "exited"

serviceVars == <<client, stage>>

ServiceInit ==
    /\ client = [r \in Requests |-> "idle"]
    /\ stage = "open"

Become(r, c) == client' = [client EXCEPT ![r] = c]

Accept(r) ==
    /\ stage \in {"open", "closing"}
    /\ client[r] = "idle"
    /\ Become(r, "waiting") /\ UNCHANGED stage

Answer(r) ==
    /\ stage # "exited"
    /\ client[r] = "waiting"
    /\ \/ Become(r, "ok") \/ Become(r, "500")
       \/ stage # "open" /\ Become(r, "503")
    /\ UNCHANGED stage

(* A late request may fail at once.                                         *)
Reject(r) ==
    /\ stage = "closing"
    /\ client[r] = "idle"
    /\ Become(r, "500") /\ UNCHANGED stage

Disconnect(r) ==
    /\ stage # "exited"
    /\ client[r] = "waiting"
    /\ Become(r, "gone") /\ UNCHANGED stage

Close == stage = "open" /\ stage' = "closing" /\ UNCHANGED client

Stop == stage = "closing" /\ stage' = "stopped" /\ UNCHANGED client

Exit ==
    /\ stage = "stopped"
    /\ \A r \in Requests : client[r] # "waiting"
    /\ stage' = "exited" /\ UNCHANGED client

ServiceNext ==
    \/ \E r \in Requests : Accept(r) \/ Answer(r) \/ Reject(r) \/ Disconnect(r)
    \/ Close \/ Stop \/ Exit

ServiceSpec == ServiceInit /\ [][ServiceNext]_serviceVars
=============================================================================
