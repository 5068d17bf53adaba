-------------------------- MODULE SpecDecode_proofs --------------------------
(***************************************************************************)
(* Proofs about SpecDecode, for every vocabulary, target model, prompt and *)
(* every value of the arguments and bounds.                                *)
(***************************************************************************)
EXTENDS SpecDecode, SequenceTheorems, FiniteSetTheorems, TLAPS

-----------------------------------------------------------------------------
(* The target model answers with tokens. *)

LEMMA NextTokenType ==
  ASSUME NEW s \in Seq(Token)
  PROVE  NextToken(s) \in Token
<1> DEFINE k == IF Len(s) < Window THEN Len(s) ELSE Window
<1>1. k \in 0 .. Window /\ k <= Len(s)
  BY WindowAssumption
<1>2. Suffix(s, k) \in [1 .. k -> Token]
  BY <1>1 DEF Suffix
<1>3. Suffix(s, k) \in Windows
  BY <1>1, <1>2 DEF Windows
<1> QED
  BY <1>3, PredictAssumption DEF NextToken

\* Moving the first of the remaining drafts into the context changes nothing
\* about the contexts of the later ones.
LEMMA ShiftDraft ==
  ASSUME NEW c \in Seq(Token), NEW p \in Seq(Token),
         NEW a \in 1 .. Len(p), NEW b \in a .. Len(p)
  PROVE  Append(c, p[a]) \o SubSeq(p, a + 1, b) = c \o SubSeq(p, a, b)
OBVIOUS

LEMMA ReplyType ==
  ASSUME NEW reply \in Replies
  PROVE  reply \in Seq(Token)
BY BoundsAssumption, SeqDef DEF Replies

LEMMA VerdictType ==
  ASSUME TypeOK
  PROVE  /\ Verdict \in Seq(Token)
         /\ Len(Verdict) = Len(proposed) + 1
         /\ \A j \in 1 .. Len(proposed) + 1 :
              Verdict[j] = NextToken(context \o SubSeq(proposed, 1, j - 1))
<1>1. \A j \in 1 .. Len(proposed) + 1 :
        context \o SubSeq(proposed, 1, j - 1) \in Seq(Token)
  BY DEF TypeOK
<1>2. \A j \in 1 .. Len(proposed) + 1 :
        NextToken(context \o SubSeq(proposed, 1, j - 1)) \in Token
  BY <1>1, NextTokenType
<1>3. Len(proposed) + 1 \in Nat
  BY DEF TypeOK
<1> QED
  BY <1>2, <1>3 DEF Verdict

\* An answer agrees with the verdict wherever both are defined and matter.
LEMMA VerifyReplyType ==
  ASSUME TypeOK, NEW reply \in VerifyReplies
  PROVE  /\ reply \in Seq(Token)
         /\ \A j \in 1 .. Smaller(Len(reply), Len(proposed) + 1) :
              reply[j] = NextToken(context \o SubSeq(proposed, 1, j - 1))
<1>1. CASE \E k \in 0 .. Len(proposed) + 1 : reply = SubSeq(Verdict, 1, k)
  BY <1>1, VerdictType DEF TypeOK, Smaller
<1>2. CASE \E t \in Token : reply = Verdict \o <<t>>
  BY <1>2, VerdictType DEF TypeOK, Smaller
<1> QED
  BY <1>1, <1>2 DEF VerifyReplies

-----------------------------------------------------------------------------
(* Type correctness. *)

LEMMA InitType == Init => TypeOK
<1> SUFFICES ASSUME Init PROVE TypeOK
  OBVIOUS
<1>1. hasAccept \in BOOLEAN
  BY Zenon DEF Init
<1> QED
  BY <1>1, PromptsAssumption DEF Init, TypeOK

LEMMA NextType == TypeOK /\ [Next]_vars => TypeOK'
<1> SUFFICES ASSUME TypeOK, [Next]_vars
             PROVE  TypeOK'
  OBVIOUS
<1> USE DEF TypeOK, args, stats, round, Fail
<1>1. CASE NothingToDo
  <2>1. hasAccept' \in BOOLEAN
    BY <1>1, Zenon DEF NothingToDo, NewCall
  <2> QED
    BY <1>1, <2>1 DEF NothingToDo, NewCall
<1>2. ASSUME NEW n \in Targets, NEW m \in DraftMaxes, NEW callbacks \in BOOLEAN,
             InvalidCall(n, m, callbacks)
      PROVE  TypeOK'
  <2>1. hasAccept' \in BOOLEAN
    BY <1>2, Zenon DEF InvalidCall, NewCall
  <2> QED
    BY <1>2, <2>1, TargetsAssumption, DraftMaxesAssumption
    DEF InvalidCall, NewCall
<1>3. ASSUME NEW n \in Targets, NEW m \in DraftMaxes, NEW notify \in BOOLEAN,
             Call(n, m, notify)
      PROVE  TypeOK'
  BY <1>3, TargetsAssumption, DraftMaxesAssumption DEF Call, NewCall
<1>4. CASE Return
  BY <1>4 DEF Return
<1>5. CASE CallbackThrows
  BY <1>5 DEF CallbackThrows
<1>6. ASSUME NEW reply \in Replies, Draft(reply)
      PROVE  TypeOK'
  <2>1. reply \in Seq(Token)
    BY ReplyType
  <2>2. Want \in Int
    BY DEF Want, Smaller, Remaining, Generated
  <2>3. SubSeq(reply, 1, Smaller(Len(reply), Want)) \in Seq(Token)
    BY <2>1, <2>2 DEF Smaller
  <2>4. CASE reply = <<>>
    BY <1>6, <2>4 DEF Draft
  <2>5. CASE reply # <<>>
    <3>1. proposed' \in Seq(Token)
      BY <1>6, <2>3, <2>5, Zenon DEF Draft
    <3>2. drafted' \in Nat
      BY <1>6, <2>5, <3>1 DEF Draft
    <3> QED
      BY <1>6, <2>5, <3>1, <3>2 DEF Draft
  <2> QED
    BY <2>4, <2>5
<1>7. ASSUME NEW reply \in VerifyReplies, Verify(reply)
      PROVE  TypeOK'
  BY <1>7, VerifyReplyType DEF Verify
<1>8. CASE AcceptToken
  <2>1. proposed[i] \in Token
    BY <1>8 DEF AcceptToken, Comparing, Smaller
  <2> QED
    BY <1>8, <2>1 DEF AcceptToken, Push
<1>9. CASE RejectToken
  <2>1. verified[i] \in Token
    BY <1>9 DEF RejectToken, Comparing, Smaller
  <2> QED
    BY <1>9, <2>1 DEF RejectToken, Push
<1>10. CASE BonusToken
  <2>1. verified[Len(proposed) + 1] \in Token
    BY <1>10 DEF BonusToken, BonusDue
  <2> QED
    BY <1>10, <2>1 DEF BonusToken, Push
<1>11. CASE EndRound
  BY <1>11 DEF EndRound
<1>12. ASSUME NEW answer \in {"go", "stop", "throw"}, Notify(answer)
       PROVE  TypeOK'
  <2> DEFINE entry == [token   |-> context[Len(context)],
                       drafted |-> resume = "compare"]
  <2>1. context[Len(context)] \in Token
    BY <1>12 DEF Notify
  <2>2. (resume = "compare") \in BOOLEAN
    BY Zenon
  <2>3. entry \in [token : Token, drafted : BOOLEAN]
    BY <2>1, <2>2, Zenon
  <2>4. told' = Append(told, entry)
    BY <1>12, Zenon DEF Notify
  <2> HIDE DEF entry
  <2>5. told' \in Seq([token : Token, drafted : BOOLEAN])
    BY <2>3, <2>4
  <2>6. /\ pc' \in {"idle", "loop", "compare"}
        /\ result' \in {"none", "complete", "stopped", "failed", "invalid"}
        /\ UNCHANGED <<context, args, stats, round>>
    BY <1>12 DEF Notify
  <2> QED
    BY <2>5, <2>6
<1>13. CASE UNCHANGED vars
  BY <1>13 DEF vars
<1> QED
  BY <1>1, <1>2, <1>3, <1>4, <1>5, <1>6, <1>7, <1>8, <1>9, <1>10, <1>11,
     <1>12, <1>13 DEF Next, Enter, Work

-----------------------------------------------------------------------------
(* The inductive invariant.  While a round is being compared, the verifier's *)
(* remaining answers are right for the context as it has grown meanwhile,    *)
(* and the drafts not compared yet still fit in what the call owes.          *)

InCompare == pc = "compare" \/ (pc = "notify" /\ resume = "compare")

RoundShape ==
  /\ pc # "idle" => draftMax > 0
  /\ pc = "verify" => Len(proposed) \in 1 .. Remaining
  /\ InCompare => /\ i <= Len(proposed) + 1
                  /\ i <= Len(verified) + 1
                  /\ Len(verified) > 0
                  /\ Len(proposed) - (i - 1) <= Remaining
                  /\ i = 1 => Len(proposed) > 0

VerdictAhead ==
  InCompare =>
    \A j \in i .. Smaller(Len(verified), Len(proposed) + 1) :
      verified[j] = NextToken(context \o SubSeq(proposed, i, j - 1))

Advancing ==
  /\ pc \in {"loop", "verify"} \/ (pc = "notify" /\ resume = "loop") =>
       rejected <= verifierSteps /\ verifierSteps <= Generated
  /\ InCompare => /\ rejected < verifierSteps
                  /\ verifierSteps <= Generated + 1
                  /\ i > 1 => verifierSteps <= Generated
  /\ verifierSteps <= Generated + 1

Drafting ==
  /\ accepted <= drafted
  /\ pc = "verify" => accepted + Len(proposed) <= drafted
  /\ InCompare => accepted + Len(proposed) - (i - 1) <= drafted
  /\ drafted <= (verifierSteps + 1) * draftMax
  /\ pc \in {"loop", "compare", "notify"} => drafted <= verifierSteps * draftMax

IInv ==
  /\ TypeOK
  /\ Accounted
  /\ RoundShape
  /\ VerdictAhead
  /\ OutputIsGreedy
  /\ Advancing
  /\ Drafting

LEMMA InitInv == Init => IInv
<1> SUFFICES ASSUME Init PROVE IInv
  OBVIOUS
<1>1. TypeOK
  BY InitType
<1>2. /\ pc = "idle" /\ base = Len(context) /\ target = 0
      /\ result = "none" /\ draftMax = 0
      /\ verifierSteps = 0 /\ drafted = 0 /\ accepted = 0 /\ rejected = 0
  BY DEF Init
<1>3. Accounted /\ RoundShape /\ VerdictAhead /\ OutputIsGreedy /\ Advancing
  BY <1>1, <1>2 DEF TypeOK, Accounted, RoundShape, VerdictAhead,
     OutputIsGreedy, Advancing, Generated, Remaining, InCompare
<1>4. Drafting
  BY <1>1, <1>2 DEF TypeOK, Drafting, InCompare
<1> QED
  BY <1>1, <1>3, <1>4 DEF IInv

\* The token a step pushes is the greedy one.
LEMMA VerdictNow ==
  ASSUME IInv, pc = "compare", i <= Len(verified), i <= Len(proposed) + 1
  PROVE  verified[i] = NextToken(context)
<1>1. i \in i .. Smaller(Len(verified), Len(proposed) + 1)
  BY DEF IInv, TypeOK, Smaller
<1>2. context \o SubSeq(proposed, i, i - 1) = context
  BY DEF IInv, TypeOK
<1> QED
  BY <1>1, <1>2, Zenon DEF IInv, VerdictAhead, InCompare

LEMMA PushedIsGreedy ==
  ASSUME IInv
  PROVE  /\ AcceptToken => context' = Append(context, NextToken(context))
         /\ RejectToken => context' = Append(context, NextToken(context))
         /\ BonusToken  => context' = Append(context, NextToken(context))
<1> USE DEF IInv, TypeOK
<1>1. AcceptToken => context' = Append(context, NextToken(context))
  BY VerdictNow DEF AcceptToken, Push, Comparing, Smaller
<1>2. RejectToken => context' = Append(context, NextToken(context))
  BY VerdictNow DEF RejectToken, Push, Comparing, Smaller
<1>3. ASSUME BonusToken
      PROVE  context' = Append(context, NextToken(context))
  <2>1. i = Len(proposed) + 1 /\ i <= Len(verified) /\ pc = "compare"
    BY <1>3 DEF BonusToken, Comparing, BonusDue, Smaller, RoundShape, InCompare
  <2> QED
    BY <1>3, <2>1, VerdictNow DEF BonusToken, Push
<1> QED
  BY <1>1, <1>2, <1>3

LEMMA OneMore ==
  ASSUME NEW k \in Nat, NEW m \in Nat
  PROVE  /\ (k + 1) * m = k * m + m
         /\ k * m \in Nat
OBVIOUS

LEMMA NothingDrafted ==
  ASSUME NEW k \in Nat, NEW m \in Nat, NEW d, d = 0
  PROVE  d <= k * m /\ d <= (k + 1) * m
BY OneMore

\* What a step that pushes a greedy token keeps true.
LEMMA PushKeepsGreedy ==
  ASSUME IInv, context' = Append(context, NextToken(context)), base' = base
  PROVE  /\ OutputIsGreedy'
         /\ Len(context') = Len(context) + 1
<1>1. context \in Seq(Token) /\ base \in Nat
  BY DEF IInv, TypeOK
<1>2. NextToken(context) \in Token
  BY <1>1, NextTokenType
<1>3. Len(context') = Len(context) + 1
  BY <1>1, <1>2
<1>4. ASSUME NEW k \in base' + 1 .. Len(context')
      PROVE  context'[k] = NextToken(SubSeq(context', 1, k - 1))
  <2>1. SubSeq(context', 1, k - 1) = SubSeq(context, 1, k - 1)
    BY <1>1, <1>2, <1>3, <1>4
  <2>2. CASE k = Len(context) + 1
    <3>1. context'[k] = NextToken(context) /\ SubSeq(context, 1, k - 1) = context
      BY <1>1, <1>2, <2>2
    <3> QED
      BY <2>1, <3>1
  <2>3. CASE k \in base + 1 .. Len(context)
    <3>1. context'[k] = context[k]
      BY <1>1, <1>2, <2>3
    <3> QED
      BY <2>1, <2>3, <3>1 DEF IInv, OutputIsGreedy
  <2> QED
    BY <1>1, <1>3, <1>4, <2>2, <2>3
<1> QED
  BY <1>3, <1>4 DEF OutputIsGreedy

\* A step that leaves context and base alone keeps OutputIsGreedy.
LEMMA QuietKeepsGreedy ==
  ASSUME IInv, UNCHANGED <<context, base>>
  PROVE  OutputIsGreedy'
BY DEF IInv, OutputIsGreedy

LEMMA EnterInv == IInv /\ Enter /\ TypeOK' => IInv'
<1> SUFFICES ASSUME IInv, Enter, TypeOK'
             PROVE  IInv'
  OBVIOUS
<1>1. /\ base' = Len(context) /\ context' = context
      /\ verifierSteps' = 0 /\ drafted' = 0 /\ accepted' = 0 /\ rejected' = 0
      /\ \/ pc' = "idle" /\ (result' = "complete" => target' = 0)
         \/ pc' = "loop" /\ draftMax' > 0
  BY Zenon DEF Enter, NothingToDo, InvalidCall, Call, NewCall, IInv, TypeOK
<1>2. OutputIsGreedy'
  BY <1>1 DEF OutputIsGreedy, IInv, TypeOK
<1>3. Accounted' /\ RoundShape' /\ VerdictAhead' /\ Advancing'
  BY <1>1 DEF Accounted, RoundShape, VerdictAhead, Advancing,
     Generated, Remaining, InCompare, TypeOK
<1>4. Drafting'
  <2>1. draftMax' \in Nat /\ verifierSteps' \in Nat /\ drafted' = 0
    BY <1>1 DEF TypeOK
  <2>2. /\ drafted' <= verifierSteps' * draftMax'
        /\ drafted' <= (verifierSteps' + 1) * draftMax'
    BY <2>1, NothingDrafted
  <2>3. accepted' <= drafted' /\ ~InCompare' /\ pc' # "verify"
    BY <1>1 DEF InCompare
  <2> QED
    BY <2>2, <2>3 DEF Drafting
<1> QED
  BY <1>2, <1>3, <1>4 DEF IInv

\* Leaving the call, by return or exception.
LEMMA LeaveInv ==
  ASSUME IInv, TypeOK', pc' = "idle", UNCHANGED <<context, args, stats>>,
         result' = "complete" => Generated >= target
  PROVE  IInv'
<1> USE DEF IInv, TypeOK, args, stats
<1>1. OutputIsGreedy'
  BY QuietKeepsGreedy
<1>2. Accounted'
  BY DEF Accounted, Generated
<1>3. RoundShape' /\ VerdictAhead'
  BY DEF RoundShape, VerdictAhead, InCompare
<1>4. Advancing'
  BY DEF Advancing, InCompare, Generated
<1>5. Drafting'
  BY DEF Drafting, InCompare
<1> QED
  BY <1>1, <1>2, <1>3, <1>4, <1>5

LEMMA DraftInv ==
  ASSUME IInv, TypeOK', NEW reply \in Replies, Draft(reply)
  PROVE  IInv'
<1> USE DEF IInv, TypeOK, args
<1>1. CASE reply = <<>>
  BY <1>1, LeaveInv DEF Draft, Fail, stats
<1>2. CASE reply # <<>>
  <2>1. reply \in Seq(Token)
    BY ReplyType
  <2>2. Len(reply) > 0
    BY <1>2, <2>1
  <2>3. draftMax \in Nat \ {0}
    BY DEF Draft, RoundShape
  <2>4. Len(proposed') \in 1 .. Remaining /\ Len(proposed') <= draftMax
    BY <1>2, <2>1, <2>2, <2>3 DEF Draft, Want, Smaller, Remaining, Generated
  <2>5. /\ pc' = "verify" /\ drafted' = drafted + Len(proposed')
        /\ UNCHANGED <<context, base, target, draftMax, verifierSteps,
                       accepted, rejected, result>>
    BY <1>2 DEF Draft
  <2>6. OutputIsGreedy'
    BY <2>5, QuietKeepsGreedy
  <2>7. Accounted' /\ RoundShape' /\ VerdictAhead' /\ Advancing'
    BY <2>4, <2>5 DEF Draft, Accounted, RoundShape, VerdictAhead, Advancing, InCompare,
       Generated, Remaining
  <2>8. Drafting'
    <3>1. drafted <= verifierSteps * draftMax
      BY DEF Drafting, Draft
    <3>2. /\ (verifierSteps + 1) * draftMax = verifierSteps * draftMax + draftMax
          /\ verifierSteps * draftMax \in Nat
      BY OneMore
    <3> QED
      BY <2>4, <2>5, <3>1, <3>2 DEF Drafting, InCompare
  <2> QED
    BY <2>6, <2>7, <2>8
<1> QED
  BY <1>1, <1>2

LEMMA VerifyInv ==
  ASSUME IInv, TypeOK', NEW reply \in VerifyReplies, Verify(reply)
  PROVE  IInv'
<1> USE DEF IInv, TypeOK, args
<1>1. /\ pc = "verify" /\ verifierSteps' = verifierSteps + 1
      /\ UNCHANGED <<context, base, target, draftMax, drafted, accepted,
                     rejected, proposed>>
      /\ verified' = reply
      /\ result' # "complete" \/ result' = result
  BY DEF Verify, Fail
<1>2. OutputIsGreedy'
  BY <1>1, QuietKeepsGreedy
<1>3. Drafting'
  <2>1. drafted <= verifierSteps' * draftMax
    BY <1>1 DEF Drafting
  <2>2. /\ (verifierSteps' + 1) * draftMax = verifierSteps' * draftMax + draftMax
        /\ verifierSteps' * draftMax \in Nat
    BY <1>1, OneMore
  <2>3. i' = 1 \/ pc' = "idle"
    BY DEF Verify, Fail
  <2> QED
    BY <1>1, <2>1, <2>2, <2>3 DEF Drafting, InCompare
<1>4. CASE reply = <<>>
  <2>1. pc' = "idle" /\ result' = "failed"
    BY <1>4 DEF Verify, Fail
  <2>2. Accounted' /\ RoundShape' /\ VerdictAhead' /\ Advancing'
    BY <1>1, <2>1 DEF Accounted, RoundShape, VerdictAhead, Advancing, InCompare,
       Generated
  <2> QED
    BY <1>2, <1>3, <2>2
<1>5. CASE reply # <<>>
  <2>1. pc' = "compare" /\ i' = 1 /\ result' = result
    BY <1>5 DEF Verify
  <2>2. reply \in Seq(Token) /\ Len(reply) > 0
    BY <1>5, VerifyReplyType
  <2>3. Accounted' /\ RoundShape' /\ Advancing'
    BY <1>1, <2>1, <2>2 DEF Accounted, RoundShape, Advancing, InCompare,
       Generated, Remaining
  <2>4. VerdictAhead'
    BY <1>1, <2>1, VerifyReplyType DEF VerdictAhead
  <2> QED
    BY <1>2, <1>3, <2>3, <2>4
<1> QED
  BY <1>4, <1>5

LEMMA AcceptInv ==
  ASSUME IInv, TypeOK', AcceptToken
  PROVE  IInv'
<1> USE DEF IInv, TypeOK, args
<1>1. /\ pc = "compare" /\ accepted' = accepted + 1 /\ i' = i + 1
      /\ UNCHANGED <<base, target, draftMax, verifierSteps, drafted, rejected,
                     proposed, verified, result>>
      /\ pc' \in {"compare", "notify"} /\ resume' = "compare"
      /\ context' = Append(context, proposed[i])
      /\ i <= Len(proposed) /\ i <= Len(verified) /\ Generated < target
  BY DEF AcceptToken, Push, Comparing, Smaller
<1>2. OutputIsGreedy' /\ Len(context') = Len(context) + 1
  BY <1>1, PushedIsGreedy, PushKeepsGreedy
<1>3. Accounted' /\ RoundShape' /\ Advancing'
  BY <1>1, <1>2 DEF Accounted, RoundShape, Advancing, InCompare,
     Generated, Remaining
<1>4. Drafting'
  <2>1. accepted + Len(proposed) - (i - 1) <= drafted
    BY <1>1 DEF Drafting, InCompare
  <2> QED
    BY <1>1, <2>1 DEF Drafting, InCompare
<1>5. VerdictAhead'
  <2>1. ASSUME NEW j \in i + 1 .. Smaller(Len(verified), Len(proposed) + 1)
        PROVE  verified[j] = NextToken(context' \o SubSeq(proposed, i + 1, j - 1))
    <3>1. j \in i .. Smaller(Len(verified), Len(proposed) + 1)
      BY DEF Smaller
    <3>2. verified[j] = NextToken(context \o SubSeq(proposed, i, j - 1))
      BY <1>1, <3>1 DEF VerdictAhead, InCompare
    <3>3. i \in 1 .. Len(proposed) /\ j - 1 \in i .. Len(proposed)
      BY <1>1, <2>1 DEF Smaller
    <3>4. context \in Seq(Token) /\ proposed \in Seq(Token)
      OBVIOUS
    <3>5. Append(context, proposed[i]) \o SubSeq(proposed, i + 1, j - 1)
            = context \o SubSeq(proposed, i, j - 1)
      BY <3>3, <3>4, ShiftDraft
    <3> QED
      BY <1>1, <3>2, <3>5
  <2> QED
    BY <1>1, <2>1 DEF VerdictAhead
<1> QED
  BY <1>2, <1>3, <1>4, <1>5

\* The two ways a round ends with a token of the verifier's own.
LEMMA CorrectInv ==
  ASSUME IInv, TypeOK', RejectToken \/ BonusToken
  PROVE  IInv'
<1> USE DEF IInv, TypeOK, args
<1>1. /\ pc = "compare" /\ rejected' = rejected + 1
      /\ UNCHANGED <<base, target, draftMax, verifierSteps, drafted, accepted,
                     result>>
      /\ pc' \in {"loop", "notify"} /\ resume' = "loop"
      /\ Generated < target
  BY DEF RejectToken, BonusToken, Push, Comparing, BonusDue
<1>2. OutputIsGreedy' /\ Len(context') = Len(context) + 1
  BY <1>1, PushedIsGreedy, PushKeepsGreedy
<1>3. Accounted' /\ RoundShape' /\ VerdictAhead' /\ Advancing'
  BY <1>1, <1>2 DEF Accounted, RoundShape, VerdictAhead, Advancing, InCompare,
     Generated
<1>4. Drafting'
  BY <1>1 DEF Drafting, InCompare
<1> QED
  BY <1>2, <1>3, <1>4

LEMMA EndRoundInv ==
  ASSUME IInv, TypeOK', EndRound
  PROVE  IInv'
<1> USE DEF IInv, TypeOK, args, stats, round
<1>1. /\ pc = "compare" /\ pc' = "loop" /\ ~Comparing
      /\ UNCHANGED <<context, base, target, draftMax, verifierSteps, drafted,
                     accepted, rejected, result>>
  BY DEF EndRound
<1>2. OutputIsGreedy'
  BY <1>1, QuietKeepsGreedy
<1>3. i > 1
  <2>1. Len(verified) > 0 /\ (i = 1 => Len(proposed) > 0 /\ Remaining > 0)
    BY <1>1 DEF RoundShape, InCompare, Remaining, Generated
  <2>2. SUFFICES ASSUME i = 1 PROVE FALSE
    OBVIOUS
  <2> QED
    BY <1>1, <2>1, <2>2 DEF Comparing, Smaller, Remaining, Generated
<1>4. Accounted' /\ RoundShape' /\ VerdictAhead' /\ Advancing' /\ Drafting'
  BY <1>1, <1>3 DEF Accounted, RoundShape, VerdictAhead, Advancing, Drafting,
     InCompare, Generated
<1> QED
  BY <1>2, <1>4

LEMMA NotifyInv ==
  ASSUME IInv, TypeOK', NEW answer \in {"go", "stop", "throw"}, Notify(answer)
  PROVE  IInv'
<1>1. UNCHANGED <<context, args, stats, round>> /\ pc = "notify"
  BY DEF Notify
<1>2. CASE pc' = "idle" /\ result' # "complete"
  BY <1>1, <1>2, LeaveInv
<1>3. CASE pc' = resume /\ result' = result
  <2> USE DEF IInv, TypeOK, args, stats, round
  <2>1. OutputIsGreedy'
    BY <1>1, QuietKeepsGreedy
  <2>2. Accounted' /\ RoundShape'
    BY <1>1, <1>3 DEF Accounted, RoundShape, InCompare, Generated, Remaining
  <2>3. Advancing' /\ Drafting'
    BY <1>1, <1>3 DEF Advancing, Drafting, InCompare, Generated
  <2>4. InCompare' => InCompare
    BY <1>1, <1>3 DEF InCompare
  <2>5. VerdictAhead'
    BY <1>1, <2>4 DEF VerdictAhead
  <2> QED
    BY <2>1, <2>2, <2>3, <2>5
<1> QED
  BY <1>2, <1>3 DEF Notify, Fail

LEMMA NextInv == IInv /\ [Next]_vars => IInv'
<1> SUFFICES ASSUME IInv, [Next]_vars
             PROVE  IInv'
  OBVIOUS
<1>1. TypeOK'
  BY NextType DEF IInv
<1>2. CASE Enter
  BY <1>1, <1>2, EnterInv
<1>3. CASE Return
  BY <1>1, <1>3, LeaveInv DEF Return
<1>4. CASE CallbackThrows
  BY <1>1, <1>4, LeaveInv DEF CallbackThrows, Fail
<1>5. CASE \E reply \in Replies : Draft(reply)
  BY <1>1, <1>5, DraftInv
<1>6. CASE \E reply \in VerifyReplies : Verify(reply)
  BY <1>1, <1>6, VerifyInv
<1>7. CASE AcceptToken
  BY <1>1, <1>7, AcceptInv
<1>8. CASE RejectToken \/ BonusToken
  BY <1>1, <1>8, CorrectInv
<1>9. CASE EndRound
  BY <1>1, <1>9, EndRoundInv
<1>10. CASE \E answer \in {"go", "stop", "throw"} : Notify(answer)
  BY <1>1, <1>10, NotifyInv
<1>11. CASE UNCHANGED vars
  <2> USE DEF IInv, vars, args, stats, round
  <2>1. Accounted' /\ RoundShape' /\ Advancing' /\ Drafting'
    BY <1>11 DEF Accounted, RoundShape, Advancing, Drafting, InCompare,
       Generated, Remaining
  <2>2. VerdictAhead' /\ OutputIsGreedy'
    BY <1>11 DEF VerdictAhead, OutputIsGreedy, InCompare
  <2> QED
    BY <1>1, <2>1, <2>2
<1> QED
  BY <1>2, <1>3, <1>4, <1>5, <1>6, <1>7, <1>8, <1>9, <1>10, <1>11
  DEF Next, Work

LEMMA Invariance == Spec => []IInv
BY InitInv, NextInv, PTL DEF Spec

-----------------------------------------------------------------------------
(* The theorems. *)

\* Every variable keeps its type through every interleaving of calls and
\* callback outcomes.
THEOREM TypeCorrect == Spec => []TypeOK
<1>1. IInv => TypeOK
  BY DEF IInv
<1> QED
  BY <1>1, Invariance, PTL

\* Speculative decoding is lossless: the tokens a call of
\* speculative_greedy_decode leaves in the context are the greedy ones, for
\* every draft callback, every draft_n_max and every way the call may end.
THEOREM Lossless == Spec => []OutputIsGreedy
<1>1. IInv => OutputIsGreedy
  BY DEF IInv
<1> QED
  BY <1>1, Invariance, PTL

\* The stats of a call account exactly for what it appended and never exceed
\* the requested number of tokens.
THEOREM StatsAccount == Spec => []Accounted
<1>1. IInv => Accounted
  BY DEF IInv
<1> QED
  BY <1>1, Invariance, PTL

\* No verifier call is wasted: each round appends at least one token and
\* corrects at most one.
THEOREM RoundsAdvance == Spec => []EveryRoundAdvances
<1>1. IInv => EveryRoundAdvances
  BY DEF IInv, Advancing, EveryRoundAdvances
<1> QED
  BY <1>1, Invariance, PTL

\* The drafts are counted once and stay within draft_n_max per verifier call.
THEOREM DraftsStayBounded == Spec => []DraftsBounded
<1>1. IInv => DraftsBounded
  BY DEF IInv, Drafting, RoundShape, TypeOK, DraftsBounded
<1> QED
  BY <1>1, Invariance, PTL

-----------------------------------------------------------------------------
(* What the accept callback is told. *)

LEMMA ToldFinite ==
  ASSUME TypeOK
  PROVE  IsFiniteSet(ToldDrafted) /\ Cardinality(ToldDrafted) \in Nat
<1>1. IsFiniteSet(1 .. Len(told))
  BY FS_Interval DEF TypeOK
<1>2. ToldDrafted \subseteq 1 .. Len(told)
  BY DEF ToldDrafted
<1> QED
  BY <1>1, <1>2, FS_Subset, FS_CardinalityType

\* Steps that notify nobody and push nothing.
LEMMA QuietTold ==
  ASSUME ToldEverything, pc # "notify", pc' # "notify",
         UNCHANGED <<context, base, hasAccept, accepted, rejected, told>>
  PROVE  ToldEverything'
BY DEF ToldEverything, ToldDrafted, Pending, PendingDraft, Generated

LEMMA PushTold ==
  ASSUME IInv, ToldEverything, hasAccept,
         AcceptToken \/ RejectToken \/ BonusToken
  PROVE  ToldEverything'
<1>1. /\ pc = "compare" /\ pc' = "notify" /\ UNCHANGED <<told, base>>
      /\ \/ /\ accepted' = accepted + 1 /\ rejected' = rejected
            /\ resume' = "compare"
         \/ /\ accepted' = accepted /\ rejected' = rejected + 1
            /\ resume' = "loop"
  BY DEF AcceptToken, RejectToken, BonusToken, Push, args
<1>2. /\ Len(told) = Generated /\ Cardinality(ToldDrafted) = accepted
      /\ \A k \in 1 .. Len(told) : told[k].token = context[base + k]
  BY <1>1, ToldFinite DEF ToldEverything, Pending, PendingDraft, Generated,
     IInv, TypeOK
<1>3. Len(told') = Generated' - Pending'
  BY <1>1, <1>2 DEF Pending, Generated, IInv, TypeOK
<1>4. Cardinality(ToldDrafted') = accepted' - PendingDraft'
  <2>1. ToldDrafted' = ToldDrafted
    BY <1>1 DEF ToldDrafted
  <2> QED
    BY <1>1, <1>2, <2>1 DEF PendingDraft, IInv, TypeOK
<1>5. ASSUME NEW k \in 1 .. Len(told')
      PROVE  told'[k].token = context'[base' + k]
  <2>1. context' = Append(context, NextToken(context))
    BY PushedIsGreedy
  <2>2. base + k \in 1 .. Len(context)
    BY <1>1, <1>2 DEF IInv, TypeOK, Accounted, Generated
  <2>3. context'[base + k] = context[base + k]
    BY <2>1, <2>2 DEF IInv, TypeOK
  <2> QED
    BY <1>1, <1>2, <2>3
<1> QED
  BY <1>3, <1>4, <1>5 DEF ToldEverything

LEMMA NotifyTold ==
  ASSUME IInv, ToldEverything, hasAccept,
         NEW answer \in {"go", "stop", "throw"}, Notify(answer)
  PROVE  ToldEverything'
<1> DEFINE n     == Len(told)
           entry == [token   |-> context[Len(context)],
                     drafted |-> resume = "compare"]
<1>1. /\ pc = "notify" /\ pc' # "notify"
      /\ UNCHANGED <<context, base, accepted, rejected, resume>>
  BY DEF Notify, Fail, args, stats, round, IInv, TypeOK
<1>2. told' = Append(told, entry)
  BY Zenon DEF Notify
<1>3. /\ n \in Nat /\ n = Generated - 1
      /\ Cardinality(ToldDrafted) = accepted - PendingDraft
      /\ \A k \in 1 .. n : told[k].token = context[base + k]
  BY <1>1 DEF ToldEverything, Pending, IInv, TypeOK
<1>4. entry.token = context[Len(context)] /\ entry.drafted = (resume = "compare")
  BY Zenon
<1> HIDE DEF entry
<1>5. /\ Len(told') = n + 1 /\ told'[n + 1] = entry
      /\ \A k \in 1 .. n : told'[k] = told[k]
  BY <1>2 DEF IInv, TypeOK
<1>6. Len(told') = Generated' - Pending'
  BY <1>1, <1>3, <1>5 DEF Pending, Generated, IInv, TypeOK
<1>7. ASSUME NEW k \in 1 .. Len(told')
      PROVE  told'[k].token = context'[base' + k]
  <2>1. CASE k = n + 1
    <3>1. base + k = Len(context)
      BY <1>3, <2>1 DEF IInv, TypeOK, Accounted, Generated
    <3> QED
      BY <1>1, <1>4, <1>5, <2>1, <3>1
  <2>2. CASE k \in 1 .. n
    BY <1>1, <1>3, <1>5, <2>2
  <2> QED
    BY <1>3, <1>5, <1>7, <2>1, <2>2
<1>8. Cardinality(ToldDrafted') = accepted' - PendingDraft'
  <2>1. IsFiniteSet(ToldDrafted) /\ Cardinality(ToldDrafted) \in Nat
    BY ToldFinite DEF IInv
  <2>2. n + 1 \notin ToldDrafted
    BY <1>3 DEF ToldDrafted
  <2>3. PendingDraft' = 0
    BY <1>1 DEF PendingDraft
  <2>4. CASE resume = "compare"
    <3>1. entry.drafted
      BY <1>4, <2>4, Zenon
    <3>2. ToldDrafted' = ToldDrafted \cup {n + 1}
      BY <1>3, <1>5, <3>1 DEF ToldDrafted
    <3>3. Cardinality(ToldDrafted') = Cardinality(ToldDrafted) + 1
      BY <2>1, <2>2, <3>2, FS_AddElement
    <3>4. PendingDraft = 1
      BY <1>1, <2>4 DEF PendingDraft
    <3> QED
      BY <1>1, <1>3, <2>3, <3>3, <3>4 DEF IInv, TypeOK
  <2>5. CASE resume # "compare"
    <3>1. ~entry.drafted
      BY <1>4, <2>5, Zenon
    <3>2. ToldDrafted' = ToldDrafted
      BY <1>3, <1>5, <3>1 DEF ToldDrafted
    <3>3. PendingDraft = 0
      BY <2>5 DEF PendingDraft
    <3> QED
      BY <1>1, <1>3, <2>3, <3>2, <3>3
  <2> QED
    BY <2>4, <2>5
<1> QED
  BY <1>6, <1>7, <1>8 DEF ToldEverything

LEMMA NextTold == IInv /\ ToldEverything /\ [Next]_vars => ToldEverything'
<1> SUFFICES ASSUME IInv, ToldEverything, [Next]_vars, hasAccept'
             PROVE  ToldEverything'
  BY DEF ToldEverything
<1> USE DEF args, stats, round, Fail
<1>1. CASE Enter
  <2>1. told' = <<>> /\ accepted' = 0 /\ rejected' = 0 /\ pc' # "notify"
    BY <1>1 DEF Enter, NothingToDo, InvalidCall, Call, NewCall
  <2>2. ToldDrafted' = {}
    BY <2>1 DEF ToldDrafted
  <2>3. Cardinality(ToldDrafted') = 0
    BY <2>2, FS_EmptySet
  <2>4. Pending' = 0 /\ PendingDraft' = 0 /\ Generated' = 0
    BY <2>1 DEF Pending, PendingDraft, Generated
  <2> QED
    BY <2>1, <2>3, <2>4 DEF ToldEverything
<1>2. CASE Return
  BY <1>2, QuietTold DEF Return
<1>3. CASE CallbackThrows
  BY <1>3, QuietTold DEF CallbackThrows
<1>4. ASSUME NEW reply \in Replies, Draft(reply)
      PROVE  ToldEverything'
  BY <1>4, QuietTold DEF Draft
<1>5. ASSUME NEW reply \in VerifyReplies, Verify(reply)
      PROVE  ToldEverything'
  BY <1>5, QuietTold DEF Verify
<1>6. CASE AcceptToken \/ RejectToken \/ BonusToken
  <2>1. hasAccept
    BY <1>6 DEF AcceptToken, RejectToken, BonusToken, Push
  <2> QED
    BY <1>6, <2>1, PushTold
<1>7. CASE EndRound
  BY <1>7, QuietTold DEF EndRound
<1>8. ASSUME NEW answer \in {"go", "stop", "throw"}, Notify(answer)
      PROVE  ToldEverything'
  <2>1. hasAccept
    BY <1>8 DEF Notify
  <2> QED
    BY <1>8, <2>1, NotifyTold
<1>9. CASE UNCHANGED vars
  BY <1>9 DEF vars, ToldEverything, ToldDrafted, Pending, PendingDraft, Generated
<1> QED
  BY <1>1, <1>2, <1>3, <1>4, <1>5, <1>6, <1>7, <1>8, <1>9 DEF Next, Work

\* The accept callback hears of every appended token once, in order, with the
\* right drafted flag, also when it stops the call or throws.
THEOREM AcceptHearsAll == Spec => []ToldEverything
<1>1. Init => ToldEverything
  <2> SUFFICES ASSUME Init PROVE ToldEverything
    OBVIOUS
  <2>1. ~hasAccept
    BY Zenon DEF Init
  <2> QED
    BY <2>1 DEF ToldEverything
<1> QED
  BY <1>1, NextTold, Invariance, PTL DEF Spec

-----------------------------------------------------------------------------
(* The refinement: every step of the speculative loop is one step of plain   *)
(* greedy decoding, or none.                                                 *)

LEMMA SamePrediction == \A s : Greedy!NextToken(s) = NextToken(s)
BY DEF Greedy!NextToken, NextToken, Greedy!Suffix, Suffix

LEMMA PushEmits ==
  ASSUME IInv, IInv', pc = "compare", pc' # "idle",
         context' = Append(context, NextToken(context)),
         Generated' = Generated + 1, Generated < target,
         UNCHANGED <<target, result>>
  PROVE  Greedy!Emit
<1>1. Generated \in Nat /\ target \in Nat
  BY DEF Generated, IInv, TypeOK
<1>2. Remaining > 0 /\ Remaining' = Remaining - 1
  BY <1>1 DEF Remaining
<1>3. (pc' # "idle") = (pc # "idle")
  OBVIOUS
<1> QED
  BY <1>2, <1>3, SamePrediction DEF Greedy!Emit

LEMMA StepRefines == IInv /\ IInv' /\ [Next]_vars => [Greedy!Next]_(Greedy!vars)
<1> SUFFICES ASSUME IInv, IInv', [Next]_vars
             PROVE  Greedy!Next \/ UNCHANGED Greedy!vars
  OBVIOUS
<1> USE DEF args, stats, round, Fail
<1>1. CASE NothingToDo
  <2>1. Greedy!Immediate
    BY <1>1 DEF NothingToDo, Greedy!Immediate
  <2> QED
    BY <2>1 DEF Greedy!Next
<1>2. ASSUME NEW n \in Targets, NEW m \in DraftMaxes, NEW callbacks \in BOOLEAN,
             InvalidCall(n, m, callbacks)
      PROVE  Greedy!Next
  <2>1. Greedy!Immediate
    BY <1>2 DEF InvalidCall, Greedy!Immediate
  <2> QED
    BY <2>1 DEF Greedy!Next
<1>3. ASSUME NEW n \in Targets, NEW m \in DraftMaxes, NEW notify \in BOOLEAN,
             Call(n, m, notify)
      PROVE  Greedy!Next
  <2>1. Greedy!Begin(n)
    BY <1>3, TargetsAssumption
    DEF Call, NewCall, Greedy!Begin, Remaining, Generated
  <2> QED
    BY <2>1 DEF Greedy!Next
<1>4. CASE Return
  <2>1. Greedy!Complete
    BY <1>4 DEF Return, Greedy!Complete, Remaining, Generated, IInv, TypeOK,
       Accounted
  <2> QED
    BY <2>1 DEF Greedy!Next
<1>5. ASSUME pc # "idle", pc' = "idle", result' \in {"stopped", "failed"},
             UNCHANGED context
      PROVE  Greedy!Next
  <2>1. Greedy!Abort
    BY <1>5 DEF Greedy!Abort
  <2> QED
    BY <2>1 DEF Greedy!Next
<1>6. ASSUME pc # "idle", pc' # "idle",
             UNCHANGED <<context, target, accepted, rejected, result>>
      PROVE  UNCHANGED Greedy!vars
  BY <1>6 DEF Greedy!vars, Remaining, Generated
<1>7. CASE CallbackThrows
  BY <1>5, <1>7 DEF CallbackThrows
<1>8. ASSUME NEW reply \in Replies, Draft(reply)
      PROVE  Greedy!Next \/ UNCHANGED Greedy!vars
  BY <1>5, <1>6, <1>8 DEF Draft
<1>9. ASSUME NEW reply \in VerifyReplies, Verify(reply)
      PROVE  Greedy!Next \/ UNCHANGED Greedy!vars
  BY <1>5, <1>6, <1>9 DEF Verify
<1>10. CASE AcceptToken \/ RejectToken \/ BonusToken
  <2>1. context' = Append(context, NextToken(context))
    BY <1>10, PushedIsGreedy
  <2>2. /\ pc = "compare" /\ pc' # "idle" /\ Generated < target
        /\ UNCHANGED <<target, result>>
    <3>1. CASE AcceptToken
      BY <3>1 DEF AcceptToken, Push, Comparing
    <3>2. CASE RejectToken
      BY <3>2 DEF RejectToken, Push, Comparing
    <3>3. CASE BonusToken
      BY <3>3 DEF BonusToken, Push, BonusDue
    <3> QED
      BY <1>10, <3>1, <3>2, <3>3
  <2>3. \/ accepted' = accepted + 1 /\ rejected' = rejected
        \/ accepted' = accepted /\ rejected' = rejected + 1
    BY <1>10 DEF AcceptToken, RejectToken, BonusToken
  <2>4. Generated' = Generated + 1
    <3>1. accepted \in Nat /\ rejected \in Nat
      BY DEF IInv, TypeOK
    <3>2. accepted' + rejected' = accepted + rejected + 1
      BY <2>3, <3>1
    <3> QED
      BY <3>2, Zenon DEF Generated
  <2>5. Greedy!Emit
    BY <2>1, <2>2, <2>4, PushEmits
  <2> QED
    BY <2>5 DEF Greedy!Next
<1>11. CASE EndRound
  BY <1>6, <1>11 DEF EndRound
<1>12. ASSUME NEW answer \in {"go", "stop", "throw"}, Notify(answer)
       PROVE  Greedy!Next \/ UNCHANGED Greedy!vars
  BY <1>5, <1>6, <1>12 DEF Notify, IInv, TypeOK
<1>13. CASE UNCHANGED vars
  BY <1>13 DEF vars, Greedy!vars, Remaining, Generated
<1> QED
  BY <1>1, <1>2, <1>3, <1>4, <1>7, <1>8, <1>9, <1>10, <1>11, <1>12, <1>13
  DEF Next, Enter, Work

\* speculative_greedy_decode implements greedy decoding (its safety part; that
\* a call ends is checked by TLC).
THEOREM Refinement == Spec => Greedy!Safety
<1>1. Init => Greedy!Init
  BY DEF Init, Greedy!Init
<1> QED
  BY <1>1, Invariance, StepRefines, PTL DEF Spec, Greedy!Safety
=============================================================================
