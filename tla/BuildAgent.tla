----------------------------- MODULE BuildAgent -----------------------------
(***************************************************************************)
(* One Teepin Build session as its agent sees it: the budget and what its  *)
(* completions spend (teepinbuild/gateway.go, session.go), the agent's     *)
(* pod (agent.go), and the customer's messages to it (messages.go).        *)
(* Completions, messages, raises of the budget and the deletion of the     *)
(* session are requests of their own and interleave at every statement.    *)
(***************************************************************************)
EXTENDS Integers, FiniteSets

CONSTANTS Calls,        \* completions under way at once
          Costs,        \* what one completion may cost
          Dearest,      \* a bound of Costs
          Messages,     \* the messages sent, each by a request of its own
          Raises,       \* requests to raise the budget
          FirstBudget,  \* the budget a session is created with
          Budgets,      \* the budgets a raise may ask for
          MaxLosses     \* bound: completions whose spend a fault lost

ASSUME AgentAssumption ==
    /\ Costs \subseteq Nat /\ FirstBudget \in Nat \ {0} /\ Budgets \subseteq Nat \ {0}
    /\ Dearest \in Nat /\ \A cost \in Costs : cost <= Dearest
    /\ IsFiniteSet(Calls)

VARIABLES session,    \* the row: status, budget, spent and the agent's pod name
          podUp,      \* the session's agent pod is pending or running
          completions, sends, poll, raises,   \* the requests under way
          closing,    \* how far DeleteSessions has come
          losses

agentVars == <<session, podUp, completions, sends, poll, raises, closing, losses>>

AgentInit ==
    /\ session = [status |-> "open", budget |-> FirstBudget, spent |-> 0, agent |-> FALSE]
    /\ podUp = FALSE
    /\ completions = [c \in Calls |-> [pc |-> "idle", cost |-> 0]]
    /\ sends = [m \in Messages |-> "new"]
    /\ poll = {}
    /\ raises = [r \in Raises |-> 0]
    /\ closing = "no" /\ losses = 0

----------------------------------------------------------------------------
(* Completions.                                                            *)

\* Complete: the pre-flight check, on the session as the request loaded it.
\* (Inclusive: a session that has spent its budget is let through.)
CheckBudgetInclusive(c) ==
    /\ completions[c].pc = "idle"
    /\ session.status = "open" /\ session.spent <= session.budget
    /\ completions' = [completions EXCEPT ![c].pc = "checked"]
    /\ UNCHANGED <<session, podUp, sends, poll, raises, closing, losses>>

CheckBudget(c) ==
    /\ completions[c].pc = "idle"
    /\ session.status = "open" /\ session.spent < session.budget
    /\ completions' = [completions EXCEPT ![c].pc = "checked"]
    /\ UNCHANGED <<session, podUp, sends, poll, raises, closing, losses>>

\* serve: credit is short or the model fails, or it answers at some cost.
Serve(c) ==
    /\ completions[c].pc = "checked"
    /\ \/ completions' = [completions EXCEPT ![c].pc = "idle"]
       \/ \E cost \in Costs : completions' = [completions EXCEPT ![c] = [pc |-> "served", cost |-> cost]]
    /\ UNCHANGED <<session, podUp, sends, poll, raises, closing, losses>>

\* Accrue, then AccrueServed once the budget is passed: the spend counts while
\* the session is open.  A session closed meanwhile or a fault loses it; the
\* usage lines are billed to the account all the same.
Accrued(c) ==
    /\ session.status = "open"
    /\ session' = [session EXCEPT !.spent = @ + completions[c].cost]
    /\ UNCHANGED losses

NotAccrued ==
    /\ \/ session.status # "open" /\ UNCHANGED losses
       \/ losses < MaxLosses /\ losses' = losses + 1
    /\ UNCHANGED session

Accrue(c) ==
    /\ completions[c].pc = "served"
    /\ Accrued(c) \/ NotAccrued
    /\ completions' = [completions EXCEPT ![c] = [pc |-> "idle", cost |-> 0]]
    /\ UNCHANGED <<podUp, sends, poll, raises, closing>>

\* Gateway.IncreaseBudget reads the budget and refuses one that is no higher;
AskToRaise(r, budget) ==
    /\ raises[r] = 0 /\ session.status = "open" /\ budget > session.budget
    /\ raises' = [raises EXCEPT ![r] = budget]
    /\ UNCHANGED <<session, podUp, completions, sends, poll, closing, losses>>

\* ... Store.IncreaseBudget compares again as it writes.  (AsAsked: it does not.)
BudgetAsAsked(r) == raises[r]
BudgetAfter(r) == IF raises[r] > session.budget THEN raises[r] ELSE session.budget

IncreaseBudget(r) ==
    /\ raises[r] # 0
    /\ session' = IF session.status = "open"
                  THEN [session EXCEPT !.budget = BudgetAfter(r)] ELSE session
    /\ raises' = [raises EXCEPT ![r] = 0]
    /\ UNCHANGED <<podUp, completions, sends, poll, closing, losses>>

----------------------------------------------------------------------------
(* The agent's pod and the messages to it.                                 *)

\* DeliverMessage looks at the pod's status first; the first prompt of a
\* session takes the same way.
LookAtAgent(m) ==
    /\ sends[m] = "new" /\ session.status # "deleted"
    /\ sends' = [sends EXCEPT ![m] = IF session.agent /\ podUp THEN "queue" ELSE "launch"]
    /\ UNCHANGED <<session, podUp, completions, poll, raises, closing, losses>>

\* SendMessage: only an open session queues one.
SendMessage(m) ==
    /\ sends[m] = "queue"
    /\ sends' = [sends EXCEPT ![m] = IF session.status = "open" THEN "queued" ELSE "refused"]
    /\ UNCHANGED <<session, podUp, completions, poll, raises, closing, losses>>

\* LaunchAgent: one pod name per session, so a create that finds the pod up
\* is answered as a redelivered one and its prompt is dropped.
LaunchAgent(m) ==
    /\ sends[m] = "launch"
    /\ \/ sends' = [sends EXCEPT ![m] = "refused"] /\ UNCHANGED podUp
       \/ /\ podUp' = TRUE
          /\ sends' = [sends EXCEPT ![m] = IF podUp THEN "recordDropped" ELSE "recordPrompt"]
    /\ UNCHANGED <<session, completions, poll, raises, closing, losses>>

\* SetAgentInstanceID; when the row is gone or the write fails the pod is
\* deleted again.  (Only: without the cleanup.)
RecordAgentOnly(m) ==
    /\ sends[m] \in {"recordDropped", "recordPrompt"}
    /\ \/ session' = [session EXCEPT !.agent = TRUE]
       \/ UNCHANGED session
    /\ sends' = [sends EXCEPT ![m] = "read"]
    /\ UNCHANGED <<podUp, completions, poll, raises, closing, losses>>

RecordAgent(m) ==
    /\ sends[m] \in {"recordDropped", "recordPrompt"}
    /\ \/ /\ session.status # "deleted"
          /\ session' = [session EXCEPT !.agent = TRUE]
          /\ sends' = [sends EXCEPT ![m] = IF @ = "recordPrompt" THEN "read" ELSE "dropped"]
          /\ UNCHANGED podUp
       \/ /\ podUp' = FALSE
          /\ sends' = [sends EXCEPT ![m] = "refused"]
          /\ UNCHANGED session
    /\ UNCHANGED <<completions, poll, raises, closing, losses>>

Queued == {m \in Messages : sends[m] = "queued"}

\* PollMessages, by the pod: it reads the undelivered messages,
PollRead ==
    /\ podUp /\ poll = {} /\ Queued # {}
    /\ poll' = Queued
    /\ UNCHANGED <<session, podUp, completions, sends, raises, closing, losses>>

\* ... and marks all that are undelivered by then.
PollMark ==
    /\ poll # {}
    /\ sends' = [m \in Messages |-> IF m \in Queued
                                    THEN IF m \in poll /\ podUp THEN "read" ELSE "dropped"
                                    ELSE sends[m]]
    /\ poll' = {}
    /\ UNCHANGED <<session, podUp, completions, raises, closing, losses>>

\* StopAgent, or the pod's own exit.
AgentEnds ==
    /\ podUp
    /\ podUp' = FALSE
    /\ UNCHANGED <<session, completions, sends, poll, raises, closing, losses>>

----------------------------------------------------------------------------
(* DeleteSessions: close, tear the pod down, delete the row.               *)

CloseBuild ==
    /\ closing = "no"
    /\ closing' = "closed"
    /\ session' = [session EXCEPT !.status = "closed"]
    /\ UNCHANGED <<podUp, completions, sends, poll, raises, losses>>

\* A teardown that fails is logged, and the row is deleted all the same.
TearDown ==
    /\ closing = "closed"
    /\ closing' = "torn"
    /\ \/ podUp' = FALSE
       \/ UNCHANGED podUp
    /\ UNCHANGED <<session, completions, sends, poll, raises, losses>>

DeleteRow ==
    /\ closing = "torn"
    /\ closing' = "deleted"
    /\ session' = [session EXCEPT !.status = "deleted", !.agent = FALSE]
    /\ UNCHANGED <<podUp, completions, sends, poll, raises, losses>>

AgentNext ==
    \/ \E c \in Calls : CheckBudget(c) \/ Serve(c) \/ Accrue(c)
    \/ \E r \in Raises : IncreaseBudget(r) \/ \E budget \in Budgets : AskToRaise(r, budget)
    \/ \E m \in Messages : LookAtAgent(m) \/ SendMessage(m) \/ LaunchAgent(m) \/ RecordAgent(m)
    \/ PollRead \/ PollMark \/ AgentEnds
    \/ CloseBuild \/ TearDown \/ DeleteRow

AgentSpec == AgentInit /\ [][AgentNext]_agentVars

----------------------------------------------------------------------------
\* The completions whose cost is not on the session yet.
UnderWay == {c \in Calls : completions[c].pc # "idle"}

\* The overshoot is bounded (AccrueServed), though nothing is reserved before
\* the model answers, completions overlap and raises of the budget race each other:
\* a session passes its budget by less than its completions can cost at once.
BudgetBoundsSpend ==
    session.spent + Cardinality(UnderWay) * Dearest
        < session.budget + Cardinality(Calls) * Dearest

\* A pod that is up can be found to be stopped or deleted (LaunchAgent: "clean
\* up immediately rather than leak a pod nothing can find to delete later"):
\* the session names it, or a launch that will is under way.
AgentIsFindable ==
    podUp /\ session.status # "deleted"
    => session.agent \/ \E m \in Messages : sends[m] \in {"recordDropped", "recordPrompt"}
=============================================================================
