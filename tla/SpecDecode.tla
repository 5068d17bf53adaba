----------------------------- MODULE SpecDecode -----------------------------
(***************************************************************************)
(* speculative_greedy_decode of src/mtp.cpp.  A call drafts a few tokens,  *)
(* has the target model verify them, keeps the matching prefix, corrects   *)
(* the first mismatch or takes the verifier's bonus token, and repeats     *)
(* until the requested number of tokens is in the caller's context.        *)
(*                                                                         *)
(* The three std::function callbacks are the environment: draft may return *)
(* any tokens, too many or none; verify answers for the target model, but  *)
(* may answer for fewer positions than it was asked about (or none) or add *)
(* a tail nobody asked for; accept may be absent, or ask to stop; each may *)
(* throw.  The caller keeps one context over many calls.                   *)
(***************************************************************************)
EXTENDS TargetModel, FiniteSets

CONSTANTS
  Prompts,     \* contexts the caller may start from
  Targets,     \* values of target_tokens
  DraftMaxes,  \* values of draft_n_max
  MaxReply,    \* bound: longest reply of the draft callback
  MaxContext   \* bound: no call is made that may grow the context beyond it

ASSUME PromptsAssumption == Prompts \subseteq Seq(Token)
ASSUME TargetsAssumption == Targets \subseteq Nat
ASSUME DraftMaxesAssumption == DraftMaxes \subseteq Nat
ASSUME BoundsAssumption == MaxReply \in Nat /\ MaxContext \in Nat

VARIABLES
  pc,             \* "idle" between calls, else the point the call is at
  context,        \* the caller's vector, passed by reference
  target,         \* stats.target_tokens
  draftMax,       \* draft_n_max of the call
  hasAccept,      \* was an accept callback given?
  verifierSteps, drafted, accepted, rejected,   \* the other stats
  proposed, verified,  \* locals of one round
  i,              \* next position to compare, from 1
  resume,         \* where the call continues after the accept callback
  result,         \* how the last call ended; "none" while one runs
  base,           \* history: length of the context when the call began
  told            \* history: what the accept callback was told in this call

args    == <<target, draftMax, hasAccept, base>>
stats   == <<verifierSteps, drafted, accepted, rejected>>
round   == <<proposed, verified, i, resume>>
vars    == <<pc, context, args, stats, round, result, told>>

Replies == UNION {[1 .. n -> Token] : n \in 0 .. MaxReply}
Smaller(a, b) == IF a < b THEN a ELSE b

Generated == accepted + rejected
Remaining == target - Generated
Want      == Smaller(draftMax, Remaining)

Init ==
  /\ pc = "idle"
  /\ context \in Prompts
  /\ target = 0 /\ draftMax = 0 /\ hasAccept = FALSE
  /\ verifierSteps = 0 /\ drafted = 0 /\ accepted = 0 /\ rejected = 0
  /\ proposed = <<>> /\ verified = <<>> /\ i = 1 /\ resume = "loop"
  /\ result = "none"
  /\ base = Len(context)
  /\ told = <<>>

-----------------------------------------------------------------------------
(* The call and its early exits. *)

NewCall(n, m, notify) ==
  /\ target' = n /\ draftMax' = m /\ hasAccept' = notify
  /\ base' = Len(context)
  /\ verifierSteps' = 0 /\ drafted' = 0 /\ accepted' = 0 /\ rejected' = 0
  /\ told' = <<>>

\* Nothing to do: empty stats are returned before the arguments are checked.
NothingToDo ==
  /\ pc = "idle"
  /\ NewCall(0, 0, FALSE)
  /\ result' = "complete"
  /\ UNCHANGED <<pc, context, round>>

\* draft_n_max is zero, or a callback is missing: std::invalid_argument.
InvalidCall(n, m, callbacks) ==
  /\ pc = "idle"
  /\ n > 0
  /\ m = 0 \/ ~callbacks
  /\ NewCall(n, m, FALSE)
  /\ result' = "invalid"
  /\ UNCHANGED <<pc, context, round>>

Call(n, m, notify) ==
  /\ pc = "idle"
  /\ n > 0 /\ m > 0
  /\ Len(context) + n <= MaxContext
  /\ pc' = "loop"
  /\ NewCall(n, m, notify)
  /\ result' = "none"
  /\ UNCHANGED <<context, round>>

\* The while condition fails: the stats are returned.
Return ==
  /\ pc = "loop"
  /\ Generated >= target
  /\ pc' = "idle"
  /\ result' = "complete"
  /\ UNCHANGED <<context, args, stats, round, told>>

\* An exception leaves the call: the caller keeps the context, not the stats.
Fail ==
  /\ pc' = "idle"
  /\ result' = "failed"

-----------------------------------------------------------------------------
(* One round: draft, verify, compare. *)

CallbackThrows ==
  /\ (pc = "loop" /\ Generated < target) \/ pc = "verify"
  /\ Fail
  /\ UNCHANGED <<context, args, stats, round, told>>

\* Mutant of Draft: a draft longer than asked for is not truncated.
Draft_Untruncated(reply) ==
  /\ pc = "loop"
  /\ Generated < target
  /\ IF reply = <<>>
       THEN Fail /\ UNCHANGED <<proposed, drafted>>
       ELSE /\ pc' = "verify"
            /\ proposed' = reply
            /\ drafted' = drafted + Len(reply)
            /\ UNCHANGED result
  /\ UNCHANGED <<context, args, verifierSteps, accepted, rejected,
                 verified, i, resume, told>>

\* An empty draft is an error; one longer than asked for is truncated.
Draft(reply) ==
  /\ pc = "loop"
  /\ Generated < target
  /\ IF reply = <<>>
       THEN Fail /\ UNCHANGED <<proposed, drafted>>
       ELSE /\ pc' = "verify"
            /\ proposed' = SubSeq(reply, 1, Smaller(Len(reply), Want))
            /\ drafted' = drafted + Len(proposed')
            /\ UNCHANGED result
  /\ UNCHANGED <<context, args, verifierSteps, accepted, rejected,
                 verified, i, resume, told>>

\* The target model's token at every proposed position, and after the last.
Verdict ==
  [j \in 1 .. Len(proposed) + 1 |->
     NextToken(context \o SubSeq(proposed, 1, j - 1))]

VerifyReplies ==
  {SubSeq(Verdict, 1, k) : k \in 0 .. Len(proposed) + 1}
    \cup {Verdict \o <<t>> : t \in Token}

\* Mutant of Verify: an empty answer is taken for "nothing matched".
Verify_EmptyIsFine(reply) ==
  /\ pc = "verify"
  /\ verified' = reply
  /\ verifierSteps' = verifierSteps + 1
  /\ pc' = "compare" /\ i' = 1
  /\ UNCHANGED <<context, args, drafted, accepted, rejected, proposed, resume,
                 result, told>>

\* Mutant of Verify: the comparison starts one position early.
Verify_FromZero(reply) ==
  /\ pc = "verify"
  /\ verified' = reply
  /\ verifierSteps' = verifierSteps + 1
  /\ IF reply = <<>>
       THEN Fail /\ UNCHANGED <<i, resume>>
       ELSE pc' = "compare" /\ i' = 0 /\ UNCHANGED <<resume, result>>
  /\ UNCHANGED <<context, args, drafted, accepted, rejected, proposed, told>>

\* An empty answer is an error, thrown after the step was counted.
Verify(reply) ==
  /\ pc = "verify"
  /\ verified' = reply
  /\ verifierSteps' = verifierSteps + 1
  /\ IF reply = <<>>
       THEN Fail /\ UNCHANGED <<i, resume>>
       ELSE pc' = "compare" /\ i' = 1 /\ UNCHANGED <<resume, result>>
  /\ UNCHANGED <<context, args, drafted, accepted, rejected, proposed, told>>

\* Every push_back is followed by the accept callback, if there is one.
Push(token, after) ==
  /\ context' = Append(context, token)
  /\ resume' = after
  /\ pc' = IF hasAccept THEN "notify" ELSE after
  /\ UNCHANGED <<args, verifierSteps, drafted, proposed, verified,
                 result, told>>

Comparing ==
  /\ i <= Smaller(Len(proposed), Len(verified))
  /\ Generated < target

AcceptToken ==
  /\ pc = "compare"
  /\ Comparing
  /\ proposed[i] = verified[i]
  /\ Push(proposed[i], "compare")
  /\ accepted' = accepted + 1
  /\ i' = i + 1
  /\ UNCHANGED rejected

\* Mutant of RejectToken: the draft's token is kept, not the verifier's.
RejectToken_KeepsDraft ==
  /\ pc = "compare"
  /\ Comparing
  /\ proposed[i] # verified[i]
  /\ Push(proposed[i], "loop")
  /\ rejected' = rejected + 1
  /\ UNCHANGED <<accepted, i>>

\* Mutant of RejectToken: the round goes on after a mismatch.
RejectToken_NoBreak ==
  /\ pc = "compare"
  /\ Comparing
  /\ proposed[i] # verified[i]
  /\ Push(verified[i], "compare")
  /\ rejected' = rejected + 1
  /\ i' = i + 1
  /\ UNCHANGED accepted

\* The first mismatch takes the verifier's token and ends the round.
RejectToken ==
  /\ pc = "compare"
  /\ Comparing
  /\ proposed[i] # verified[i]
  /\ Push(verified[i], "loop")
  /\ rejected' = rejected + 1
  /\ UNCHANGED <<accepted, i>>

\* Mutant of BonusDue: the bonus token ignores the budget.
BonusDue_OverBudget == Len(verified) > Len(proposed)

BonusDue ==
  /\ Len(verified) > Len(proposed)
  /\ Generated < target

\* Every draft matched and the verifier went one further.
BonusToken ==
  /\ pc = "compare"
  /\ ~Comparing
  /\ BonusDue
  /\ Push(verified[Len(proposed) + 1], "loop")
  /\ rejected' = rejected + 1
  /\ UNCHANGED <<accepted, i>>

\* Mutant of EndRound: an answer shorter than the draft is waited for.
EndRound_WaitsForMore ==
  /\ pc = "compare"
  /\ ~Comparing
  /\ ~BonusDue
  /\ pc' = IF Len(verified) < Len(proposed) THEN "compare" ELSE "loop"
  /\ UNCHANGED <<context, args, stats, round, result, told>>

EndRound ==
  /\ pc = "compare"
  /\ ~Comparing
  /\ ~BonusDue
  /\ pc' = "loop"
  /\ UNCHANGED <<context, args, stats, round, result, told>>

\* Mutant of Notify: every token is reported as drafted.
Notify_AlwaysDrafted(answer) ==
  /\ pc = "notify"
  /\ told' = Append(told, [token |-> context[Len(context)], drafted |-> TRUE])
  /\ \/ answer = "go"    /\ pc' = resume /\ UNCHANGED result
     \/ answer = "stop"  /\ pc' = "idle" /\ result' = "stopped"
     \/ answer = "throw" /\ Fail
  /\ UNCHANGED <<context, args, stats, round>>

\* accept(token, drafted): go on, stop (the stats are returned), or throw.
Notify(answer) ==
  /\ pc = "notify"
  /\ told' = Append(told, [token   |-> context[Len(context)],
                           drafted |-> resume = "compare"])
  /\ \/ answer = "go"    /\ pc' = resume /\ UNCHANGED result
     \/ answer = "stop"  /\ pc' = "idle" /\ result' = "stopped"
     \/ answer = "throw" /\ Fail
  /\ UNCHANGED <<context, args, stats, round>>

-----------------------------------------------------------------------------
Enter ==
  \/ NothingToDo
  \/ \E n \in Targets, m \in DraftMaxes, callbacks \in BOOLEAN :
       InvalidCall(n, m, callbacks)
  \/ \E n \in Targets, m \in DraftMaxes, notify \in BOOLEAN :
       Call(n, m, notify)

Work ==
  \/ Return
  \/ CallbackThrows
  \/ \E reply \in Replies : Draft(reply)
  \/ \E reply \in VerifyReplies : Verify(reply)
  \/ AcceptToken
  \/ RejectToken
  \/ BonusToken
  \/ EndRound
  \/ \E answer \in {"go", "stop", "throw"} : Notify(answer)

Next == Enter \/ Work

\* The call runs on the caller's thread: it goes on until it returns, and a
\* callback that is called returns or throws.
Spec == Init /\ [][Next]_vars /\ WF_vars(Work)
-----------------------------------------------------------------------------
(* Properties. *)

TypeOK ==
  /\ pc \in {"idle", "loop", "verify", "compare", "notify"}
  /\ context \in Seq(Token)
  /\ target \in Nat /\ draftMax \in Nat /\ hasAccept \in BOOLEAN
  /\ base \in Nat
  /\ verifierSteps \in Nat /\ drafted \in Nat
  /\ accepted \in Nat /\ rejected \in Nat
  /\ proposed \in Seq(Token) /\ verified \in Seq(Token)
  /\ i \in Nat \ {0}
  /\ resume \in {"loop", "compare"}
  /\ result \in {"none", "complete", "stopped", "failed", "invalid"}
  /\ told \in Seq([token : Token, drafted : BOOLEAN])
  /\ pc = "notify" => context # <<>>

\* Speculation is lossless: whatever the draft proposed and wherever the call
\* was cut short, every token it put in the context is the one plain greedy
\* decoding would have put there (the compare loop and the bonus token).
OutputIsGreedy ==
  \A k \in base + 1 .. Len(context) :
    context[k] = NextToken(SubSeq(context, 1, k - 1))

\* The stats account for the context: accepted plus rejected is what the call
\* appended, it never passes target_tokens, and a call that returns normally
\* without being stopped appended exactly target_tokens.
Accounted ==
  /\ Len(context) = base + Generated
  /\ Generated <= target
  /\ (pc = "idle" /\ result = "complete") => Generated = target

\* Every verifier call pays off: at the loop head the rounds so far produced
\* at least one token each, and corrected (or added) at most one each.
EveryRoundAdvances ==
  /\ pc = "loop" => rejected <= verifierSteps /\ verifierSteps <= Generated
  /\ verifierSteps <= Generated + 1

\* No draft is counted twice or beyond its budget: accepted tokens are drafted
\* ones, and a round drafts at most draft_n_max tokens and no more than the
\* call still needed.
DraftsBounded ==
  /\ accepted <= drafted
  /\ drafted <= (verifierSteps + 1) * draftMax
  /\ pc \in {"loop", "compare", "notify"} => drafted <= verifierSteps * draftMax
  /\ pc = "verify" => Len(proposed) <= Remaining

\* The accept callback hears of every token in the order of the context, once,
\* and is told "drafted" for exactly the accepted ones.
Pending      == IF pc = "notify" THEN 1 ELSE 0
PendingDraft == IF pc = "notify" /\ resume = "compare" THEN 1 ELSE 0
ToldDrafted  == {k \in 1 .. Len(told) : told[k].drafted}

ToldEverything ==
  hasAccept =>
    /\ Len(told) = Generated - Pending
    /\ \A k \in 1 .. Len(told) : told[k].token = context[base + k]
    /\ Cardinality(ToldDrafted) = accepted - PendingDraft

\* A call comes back, however little the draft matches and however short the
\* verifier's answers are.
CallReturns == (pc # "idle") ~> (pc = "idle")

\* The speculative loop implements plain greedy decoding.
Greedy == INSTANCE GreedyDecode WITH
  running <- pc # "idle",
  owed    <- IF pc = "idle" THEN 0 ELSE Remaining,
  outcome <- IF result \in {"none", "complete"} THEN result ELSE "aborted"

ImplementsGreedy == Greedy!Spec
=============================================================================
