---------------------------- MODULE ExecutionLog ----------------------------
(***************************************************************************)
(* What the events of KAR-12 and KAR-13 promise whoever reads them, with   *)
(* no server, no call, no ticket state and no crash: a claim is issued     *)
(* once, a ticket is bound once, only the bound execution works and        *)
(* publishes, its outcome is said once and says what happened, and a claim *)
(* is closed when its outcome is there.  Dispatch implements it.           *)
(***************************************************************************)

CONSTANTS Tickets, Claims, Outcomes, NoTicket, NoClaim

VARIABLES issue,     \* the ticket of a claim, or NoTicket
          bound,     \* the execution of a ticket, or NoClaim
          worked,    \* the executions that had a provider run
          raised,    \* the tickets with evidence of a pull request
          terminal,  \* the outcome of an execution, or "none"
          completed  \* the claims that are closed

log == <<issue, bound, worked, raised, terminal, completed>>

Init ==
    /\ issue = [c \in Claims |-> NoTicket]
    /\ bound = [t \in Tickets |-> NoClaim]
    /\ worked = {} /\ raised = {} /\ completed = {}
    /\ terminal = [c \in Claims |-> "none"]

Holds(c) == issue[c] \in Tickets /\ bound[issue[c]] = c

Issue(c, t) ==
    /\ issue[c] = NoTicket
    /\ issue' = [issue EXCEPT ![c] = t]
    /\ UNCHANGED <<bound, worked, raised, terminal, completed>>

Bind(c) ==
    /\ issue[c] \in Tickets /\ bound[issue[c]] = NoClaim
    /\ terminal[c] = "none"
    /\ bound' = [bound EXCEPT ![issue[c]] = c]
    /\ UNCHANGED <<issue, worked, raised, terminal, completed>>

Work(c) ==
    /\ Holds(c)
    /\ worked' = worked \cup {c}
    /\ UNCHANGED <<issue, bound, raised, terminal, completed>>

Publish(c) ==
    /\ Holds(c) /\ c \in worked
    /\ raised' = raised \cup {issue[c]}
    /\ UNCHANGED <<issue, bound, worked, terminal, completed>>

(* A conflict is what an execution says whose ticket belongs to another; a  *)
(* raised pull request needs one, and the work that went into it.           *)
Conclude(c, outcome) ==
    /\ issue[c] \in Tickets /\ bound[issue[c]] # NoClaim
    /\ terminal[c] = "none"
    /\ outcome = "CONFLICT" <=> ~Holds(c)
    /\ outcome = "PR_RAISED" => c \in worked /\ issue[c] \in raised
    /\ terminal' = [terminal EXCEPT ![c] = outcome]
    /\ UNCHANGED <<issue, bound, worked, raised, completed>>

Close(closed) ==
    /\ \A c \in closed : terminal[c] # "none"
    /\ completed' = completed \cup closed
    /\ UNCHANGED <<issue, bound, worked, raised, terminal>>

Next ==
    \/ \E c \in Claims :
          \/ \E t \in Tickets : Issue(c, t)
          \/ Bind(c) \/ Work(c) \/ Publish(c)
          \/ \E outcome \in Outcomes : Conclude(c, outcome)
    \/ \E closed \in SUBSET Claims : Close(closed)

Spec == Init /\ [][Next]_log
=============================================================================
