---------------------------- MODULE GreedyDecode ----------------------------
(***************************************************************************)
(* What a decode call promises its caller, whatever is done inside to go   *)
(* faster: the context grows by the target model's greedy tokens, one      *)
(* after the other, a call that completes has delivered every token it     *)
(* owed, and a call that is cut short leaves a correct prefix behind.      *)
(***************************************************************************)
EXTENDS TargetModel

CONSTANTS
  Prompts,   \* contexts the caller may start from
  Targets    \* numbers of tokens a call may ask for

VARIABLES
  context,   \* the caller's token vector
  running,   \* is a call in progress?
  owed,      \* tokens the running call still has to append
  outcome    \* how the last call ended

vars == <<context, running, owed, outcome>>

Init ==
  /\ context \in Prompts
  /\ running = FALSE
  /\ owed = 0
  /\ outcome = "none"

\* A call for n > 0 tokens starts.
Begin(n) ==
  /\ ~running
  /\ n > 0
  /\ running' = TRUE
  /\ owed' = n
  /\ outcome' = "none"
  /\ UNCHANGED context

\* A call that asks for nothing, or is refused for its arguments.
Immediate ==
  /\ ~running
  /\ outcome' \in {"complete", "aborted"}
  /\ UNCHANGED <<context, running, owed>>

Emit ==
  /\ running
  /\ owed > 0
  /\ context' = Append(context, NextToken(context))
  /\ owed' = owed - 1
  /\ UNCHANGED <<running, outcome>>

Complete ==
  /\ running
  /\ owed = 0
  /\ running' = FALSE
  /\ outcome' = "complete"
  /\ UNCHANGED <<context, owed>>

\* The caller's callback said stop, or one of the callbacks failed.
Abort ==
  /\ running
  /\ running' = FALSE
  /\ owed' = 0
  /\ outcome' = "aborted"
  /\ UNCHANGED context

Next ==
  \/ \E n \in Targets : Begin(n)
  \/ Immediate
  \/ Emit
  \/ Complete
  \/ Abort

Safety == Init /\ [][Next]_vars

\* A call that runs goes on emitting until it ends.
Spec == Safety /\ WF_vars(Emit \/ Complete \/ Abort)
=============================================================================
