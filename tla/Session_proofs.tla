---------------------------- MODULE Session_proofs ----------------------------
(***************************************************************************)
(* Proofs about generation: what a call emits depends on its prompt alone, *)
(* slots pay for tokens, and a session that has no speculation says why,   *)
(* however calls nest and callbacks end them.                              *)
(***************************************************************************)
EXTENDS Session, FiniteSetTheorems, SequenceTheorems, TLAPS

\* What is assumed of the logits and the sampler: they give token ids.
PickTyped ==
  \A rolling \in Seq(Token), i \in Nat, draws \in Nat : Pick(rolling, i, draws) \in Token

\* The hash is of the prompt and of what was emitted; the index and the
\* sampler have advanced with it; and every id is the one they give.
FrameSound(f) ==
  /\ f.rolling = f.prompt \o f.out
  /\ f.draws = Len(f.out)
  /\ Len(f.out) = f.i + IF f.pending THEN 1 ELSE 0
  /\ \A k \in 1 .. Len(f.out) :
       f.out[k] = Pick(f.prompt \o SubSeq(f.out, 1, k - 1), k - 1, k - 1)

FramesSound == \A d \in 1 .. Depth : FrameSound(frames[d])

\* A call is on the client's session or on the one made for its depth, which
\* lives as long as it and has paid for its tokens exactly.
Owned ==
  /\ \A d \in 1 .. Depth : frames[d].session \in {0, d}
  /\ \A s \in 1 .. MaxDepth :
       session[s].live => /\ s <= Depth
                          /\ frames[s].session = s
                          /\ session[s].used = Len(frames[s].out)

\* The tokens of the calls of stack fr on session s, as pairs.
Events(fr, s) ==
  {e \in (1 .. Len(fr)) \X Nat :
     fr[e[1]].session = s /\ e[2] \in 1 .. Len(fr[e[1]].out)}

\* The client's session has paid for all its calls at once.
Paid ==
  /\ IsFiniteSet(Events(frames, 0))
  /\ session[0].live => Cardinality(Events(frames, 0)) <= session[0].used

IInv ==
  /\ TypeOK
  /\ FramesSound
  /\ Owned
  /\ Paid
  /\ FallbackHonest

-----------------------------------------------------------------------------
(* The operators. *)

LEMMA CapacityIsNat ==
  ASSUME TypeOK
  PROVE  Capacity \in Nat
  BY SizesAssumption DEF TypeOK, Models, Capacity

\* Marking the caller changes neither what calls have emitted nor their place.
LEMMA CallerKeeps ==
  ASSUME frames \in Seq(Frames)
  PROVE  /\ Caller \in Seq(Frames)
         /\ Len(Caller) = Depth
         /\ \A d \in 1 .. Depth :
              /\ Caller[d].session = frames[d].session
              /\ Caller[d].prompt = frames[d].prompt
              /\ Caller[d].rolling = frames[d].rolling
              /\ Caller[d].draws = frames[d].draws
              /\ Caller[d].out = frames[d].out
              /\ Caller[d].i = frames[d].i
              /\ Caller[d].pending = frames[d].pending
<1>1. CASE frames = <<>>
  BY <1>1 DEF Caller, Depth
<1>2. CASE frames # <<>>
  <2>1. Depth \in 1 .. Len(frames) /\ Depth = Len(frames)
    BY <1>2, EmptySeq, LenProperties DEF Depth
  <2>2. frames[Depth] \in Frames
    BY <2>1, ElementOfSeq
  <2> DEFINE g == [frames[Depth] EXCEPT !.nested = TRUE]
  <2>3. g \in Frames
    BY <2>2 DEF Frames
  <2>4. Caller = [frames EXCEPT ![Depth] = g]
    BY <1>2 DEF Caller
  <2>5. Caller \in Seq(Frames) /\ Len(Caller) = Len(frames)
    BY <2>1, <2>3, <2>4, ExceptSeq
  <2>6. /\ g.session = frames[Depth].session /\ g.prompt = frames[Depth].prompt
        /\ g.rolling = frames[Depth].rolling /\ g.draws = frames[Depth].draws
        /\ g.out = frames[Depth].out /\ g.i = frames[Depth].i
        /\ g.pending = frames[Depth].pending
    BY <2>2 DEF Frames
  <2>7. \A d \in 1 .. Depth : Caller[d] = IF d = Depth THEN g ELSE frames[d]
    BY <2>1, <2>4, LenProperties
  <2> HIDE DEF g
  <2> QED  BY <2>1, <2>5, <2>6, <2>7
<1> QED  BY <1>1, <1>2

\* SubSeq of a longer sequence with the same beginning.
LEMMA SameBeginning ==
  ASSUME NEW s \in Seq(Token), NEW e \in Token, NEW k \in 0 .. Len(s)
  PROVE  SubSeq(Append(s, e), 1, k) = SubSeq(s, 1, k)
<1>1. /\ Append(s, e) \in Seq(Token)
      /\ Len(Append(s, e)) = Len(s) + 1
      /\ \A i \in 1 .. Len(s) : Append(s, e)[i] = s[i]
  BY AppendProperties
<1>2. Len(s) \in Nat /\ k \in Int
  BY LenProperties
<1>3. \A i \in 1 .. k : s[i] \in Token /\ Append(s, e)[i] \in Token
  BY <1>1, <1>2, ElementOfSeq
<1>4. /\ SubSeq(s, 1, k) \in Seq(Token)
      /\ Len(SubSeq(s, 1, k)) = k
      /\ \A i \in 1 .. k : SubSeq(s, 1, k)[i] = s[i]
  BY <1>2, <1>3, SubSeqProperties
<1>5. /\ SubSeq(Append(s, e), 1, k) \in Seq(Token)
      /\ Len(SubSeq(Append(s, e), 1, k)) = k
      /\ \A i \in 1 .. k : SubSeq(Append(s, e), 1, k)[i] = Append(s, e)[i]
  BY <1>2, <1>3, SubSeqProperties
<1> QED  BY <1>1, <1>2, <1>4, <1>5, SeqEqual

\* Appending to a concatenation appends to its second part.
LEMMA AppendInside ==
  ASSUME NEW s \in Seq(Token), NEW t \in Seq(Token), NEW e \in Token
  PROVE  Append(s \o t, e) = s \o Append(t, e)
<1>1. s \o t \in Seq(Token) /\ <<e>> \in Seq(Token)
  BY ConcatProperties
<1>2. Append(s \o t, e) = (s \o t) \o <<e>>
  BY <1>1, AppendIsConcat
<1>3. Append(t, e) = t \o <<e>>
  BY AppendIsConcat
<1>4. (s \o t) \o <<e>> = s \o (t \o <<e>>)
  BY <1>1, ConcatAssociative
<1> QED  BY <1>2, <1>3, <1>4

\* The call after it has emitted one more token.
Sampled(f, id) ==
  [f EXCEPT !.rolling = Append(f.rolling, id), !.draws = f.draws + 1,
            !.out = Append(f.out, id), !.pending = TRUE]

\* One more token keeps a call sound.
LEMMA SampledSound ==
  ASSUME PickTyped, NEW f \in Frames, FrameSound(f), ~f.pending,
         NEW id, id = Pick(f.rolling, f.i, f.draws)
  PROVE  /\ Sampled(f, id) \in Frames
         /\ FrameSound(Sampled(f, id))
         /\ Len(Sampled(f, id).out) = Len(f.out) + 1
         /\ Sampled(f, id).session = f.session
<1> DEFINE g == Sampled(f, id)
<1>1. /\ f.rolling \in Seq(Token) /\ f.out \in Seq(Token) /\ f.prompt \in Seq(Token)
      /\ f.i \in Nat /\ f.draws \in Nat
  BY PromptsAssumption DEF Frames
<1>2. id \in Token
  BY <1>1 DEF PickTyped
<1>3. /\ Append(f.rolling, id) \in Seq(Token)
      /\ Append(f.out, id) \in Seq(Token)
      /\ Len(Append(f.out, id)) = Len(f.out) + 1
      /\ \A k \in 1 .. Len(f.out) : Append(f.out, id)[k] = f.out[k]
      /\ Append(f.out, id)[Len(f.out) + 1] = id
  BY <1>1, <1>2, AppendProperties
<1>4. g \in Frames
  <2>1. f.draws + 1 \in Nat
    BY <1>1
  <2> QED  BY <1>3, <2>1 DEF Frames, Sampled
<1>5. /\ g.prompt = f.prompt /\ g.session = f.session /\ g.i = f.i /\ g.pending = TRUE
      /\ g.rolling = Append(f.rolling, id) /\ g.out = Append(f.out, id)
      /\ g.draws = f.draws + 1
  BY DEF Frames, Sampled
<1> HIDE DEF g
<1>6. Len(f.out) \in Nat /\ f.i = Len(f.out) /\ f.draws = Len(f.out)
      /\ f.rolling = f.prompt \o f.out
  BY <1>1, LenProperties DEF FrameSound
<1>7. Append(f.prompt \o f.out, id) = f.prompt \o Append(f.out, id)
  BY <1>1, <1>2, AppendInside
<1>8. ASSUME NEW k \in 1 .. Len(f.out) + 1
      PROVE  Append(f.out, id)[k] = Pick(f.prompt \o SubSeq(Append(f.out, id), 1, k - 1), k - 1, k - 1)
  <2>1. SubSeq(Append(f.out, id), 1, k - 1) = SubSeq(f.out, 1, k - 1)
    <3>1. k - 1 \in 0 .. Len(f.out)
      BY <1>6
    <3> QED  BY <1>1, <1>2, <3>1, SameBeginning
  <2>2. CASE k \in 1 .. Len(f.out)
    BY <1>3, <2>1, <2>2 DEF FrameSound
  <2>3. CASE k = Len(f.out) + 1
    <3>1. SubSeq(f.out, 1, Len(f.out)) = f.out
      BY <1>1, SubSeqFull
    <3>2. k - 1 = Len(f.out)
      BY <1>6, <2>3
    <3> QED  BY <1>3, <1>6, <2>1, <2>3, <3>1, <3>2
  <2> QED  BY <1>6, <2>2, <2>3
<1>9. FrameSound(g)
  BY <1>3, <1>5, <1>6, <1>7, <1>8 DEF FrameSound
<1> QED  BY <1>3, <1>4, <1>5, <1>9 DEF g
-----------------------------------------------------------------------------
(* Calls of a stack, and the tokens they have emitted. *)

\* A call is where it was: only its callback may have made a nested call.
Agrees(g, f) ==
  /\ g.session = f.session
  /\ g.prompt = f.prompt
  /\ g.rolling = f.rolling
  /\ g.draws = f.draws
  /\ g.out = f.out
  /\ g.i = f.i
  /\ g.pending = f.pending

LEMMA AgreesSound ==
  ASSUME NEW f, NEW g, FrameSound(f), Agrees(g, f)
  PROVE  FrameSound(g)
  BY DEF FrameSound, Agrees

\* A call starts sound: it has emitted nothing.
LEMMA NewFrameSound ==
  ASSUME NEW s \in 0 .. MaxDepth, NEW p \in Prompts, NEW cb \in Callbacks
  PROVE  /\ NewFrame(s, p, cb) \in Frames
         /\ FrameSound(NewFrame(s, p, cb))
         /\ NewFrame(s, p, cb).session = s
         /\ NewFrame(s, p, cb).out = <<>>
<1>1. p \in Seq(Token) /\ <<>> \in Seq(Token) /\ Len(<<>>) = 0
  BY PromptsAssumption, EmptySeq
<1>2. p \o <<>> = p
  BY <1>1, ConcatEmptySeq
<1>3. NewFrame(s, p, cb) \in Frames
  BY <1>1 DEF NewFrame, Frames
<1>4. FrameSound(NewFrame(s, p, cb))
  BY <1>1, <1>2 DEF NewFrame, FrameSound
<1> QED  BY <1>3, <1>4 DEF NewFrame

\* A call on top adds no tokens.
LEMMA PushedEvents ==
  ASSUME NEW fr, NEW gr, NEW s, Len(fr) \in Nat, Len(gr) = Len(fr) + 1,
         \A d \in 1 .. Len(fr) : gr[d].session = fr[d].session /\ gr[d].out = fr[d].out,
         Len(gr[Len(fr) + 1].out) = 0
  PROVE  Events(gr, s) = Events(fr, s)
  BY DEF Events

\* Tokens are those of the calls' outputs.
LEMMA SameEvents ==
  ASSUME NEW fr, NEW gr, NEW s, Len(gr) = Len(fr),
         \A d \in 1 .. Len(fr) : gr[d].session = fr[d].session /\ gr[d].out = fr[d].out
  PROVE  Events(gr, s) = Events(fr, s)
  BY DEF Events

\* Without the innermost call there are no more tokens than with it.
LEMMA PoppedEvents ==
  ASSUME NEW fr, NEW gr, NEW s, Len(fr) \in Nat \ {0}, Len(gr) = Len(fr) - 1,
         \A d \in 1 .. Len(gr) : gr[d] = fr[d]
  PROVE  Events(gr, s) \subseteq Events(fr, s)
  BY DEF Events

\* A token of the innermost call is one more token on its session.
LEMMA SampledEvents ==
  ASSUME NEW fr, NEW gr, NEW s, Len(fr) \in Nat \ {0}, Len(gr) = Len(fr),
         \A d \in 1 .. Len(fr) - 1 : gr[d] = fr[d],
         gr[Len(fr)].session = fr[Len(fr)].session,
         Len(fr[Len(fr)].out) \in Nat,
         Len(gr[Len(fr)].out) = Len(fr[Len(fr)].out) + 1
  PROVE  Events(gr, s) = Events(fr, s) \cup
           (IF fr[Len(fr)].session = s
              THEN {<<Len(fr), Len(fr[Len(fr)].out) + 1>>} ELSE {})
<1> DEFINE n == Len(fr)
           m == Len(fr[Len(fr)].out)
<1>1. ASSUME NEW d \in 1 .. n, NEW k \in Nat, d # n
      PROVE  <<d, k>> \in Events(gr, s) <=> <<d, k>> \in Events(fr, s)
  <2>1. gr[d] = fr[d]
    BY <1>1
  <2> QED  BY <2>1 DEF Events
<1>2. ASSUME NEW k \in Nat
      PROVE  /\ <<n, k>> \in Events(gr, s) <=> (fr[n].session = s /\ k \in 1 .. m + 1)
             /\ <<n, k>> \in Events(fr, s) <=> (fr[n].session = s /\ k \in 1 .. m)
  BY DEF Events
<1>3. ASSUME NEW e
      PROVE  e \in Events(gr, s) <=>
               (e \in Events(fr, s) \/ (fr[n].session = s /\ e = <<n, m + 1>>))
  <2>1. CASE e \in (1 .. n) \X Nat
    <3>1. PICK d \in 1 .. n, k \in Nat : e = <<d, k>>
      BY <2>1
    <3>2. CASE d # n
      BY <1>1, <3>1, <3>2
    <3>3. CASE d = n
      BY <1>2, <3>1, <3>3
    <3> QED  BY <3>2, <3>3
  <2>2. CASE e \notin (1 .. n) \X Nat
    BY <2>2 DEF Events
  <2> QED  BY <2>1, <2>2
<1> QED  BY <1>3
-----------------------------------------------------------------------------
(* Sessions. *)

\* A session the constructor makes is typed and says why it does not speculate.
LEMMA NewSessionSound ==
  ASSUME TypeOK, ~ConstructorThrows
  PROVE  /\ NewSession \in Sessions
         /\ NewSession.live /\ NewSession.used = 0
         /\ ~NewSession.active
         /\ (NewSession.requested # "off") <=> (NewSession.reason # "none")
         /\ NewSession.reason = "no_heads" => ~model.heads
         /\ config.strict => NewSession.requested = "off"
<1>1. Capacity \in Nat
  BY CapacityIsNat
<1>2. config \in Configs /\ model \in Models
  BY DEF TypeOK
<1>3. /\ config.mode \in {"off", "mtp", "draft_model"}
      /\ config.draftMax \in {0, 2}
  BY <1>2 DEF Configs
<1>4. CASE config.mode = "off"
  <2>1. FallbackReason = "none"
    BY <1>4 DEF FallbackReason
  <2> QED  BY <1>1, <1>4, <2>1 DEF NewSession, Sessions
<1>5. CASE config.mode # "off"
  <2>1. ~config.strict
    BY <1>5 DEF ConstructorThrows
  <2>2. /\ FallbackReason \in {"no_draft_max", "no_heads", "no_draft_model", "unwired"}
        /\ FallbackReason = "no_heads" => ~model.heads
    BY <1>3, <1>5 DEF FallbackReason
  <2> QED  BY <1>1, <1>3, <1>5, <2>1, <2>2 DEF NewSession, Sessions
<1> QED  BY <1>4, <1>5

\* What the rest of the invariant says of one session.
HonestSession(x) ==
  /\ ~x.active
  /\ (x.requested # "off") <=> (x.reason # "none")
  /\ x.reason = "no_heads" => ~model.heads
  /\ config.strict => x.requested = "off"

LEMMA HonestSessions ==
  FallbackHonest <=> \A s \in 0 .. MaxDepth : session[s].live => HonestSession(session[s])
  BY DEF FallbackHonest, HonestSession

\* A step that keeps the sessions, or makes some dead, keeps them honest.
LEMMA StillHonest ==
  ASSUME FallbackHonest, UNCHANGED <<model, config>>,
         \A s \in 0 .. MaxDepth :
           session'[s].live => \/ HonestSession(session'[s])
                               \/ session[s].live /\ session'[s].requested = session[s].requested
                                  /\ session'[s].active = session[s].active
                                  /\ session'[s].reason = session[s].reason
  PROVE  FallbackHonest'
  BY DEF FallbackHonest, HonestSession

\* What TypeOK says of the stack and the sessions after a step that keeps the model.
LEMMA StillTyped ==
  ASSUME TypeOK, UNCHANGED <<model, config>>,
         \A s \in 0 .. MaxDepth : session'[s] \in Sessions \cup {NoSession},
         session' \in [0 .. MaxDepth -> {session'[s] : s \in 0 .. MaxDepth}],
         frames' \in Seq(Frames), Len(frames') <= MaxDepth,
         \A d \in 1 .. Len(frames') : session'[frames'[d].session].live,
         outcome' \in {"none", "done", "exhausted", "stopped", "failed", "refused"}
  PROVE  TypeOK'
<1>1. Capacity' = Capacity /\ Sessions' = Sessions
  BY DEF Capacity, Sessions
<1>2. session' \in [0 .. MaxDepth -> Sessions \cup {NoSession}]
  OBVIOUS
<1> QED  BY <1>1, <1>2 DEF TypeOK, Depth
-----------------------------------------------------------------------------
(* Steps that begin a call, or fail to. *)

\* A step that leaves the stack's calls as they are, up to the caller's mark.
LEMMA MarkKeeps ==
  ASSUME IInv, frames' = Caller, UNCHANGED <<model, config, session>>,
         outcome' \in {"failed", "refused"}
  PROVE  IInv'
<1>1. /\ TypeOK /\ FramesSound /\ Owned /\ Paid /\ FallbackHonest
      /\ frames \in Seq(Frames) /\ Depth <= MaxDepth
      /\ \A d \in 1 .. Depth : session[frames[d].session].live
      /\ session \in [0 .. MaxDepth -> Sessions \cup {NoSession}]
  BY DEF IInv, TypeOK
<1>2. /\ frames' \in Seq(Frames)
      /\ Len(frames') = Len(frames)
      /\ \A d \in 1 .. Len(frames) : Agrees(frames'[d], frames[d])
  BY <1>1, CallerKeeps DEF Depth, Agrees
<1>3. TypeOK'
  BY <1>1, <1>2, StillTyped DEF Agrees, Depth
<1>4. FramesSound'
  <2> SUFFICES ASSUME NEW d \in 1 .. Len(frames)
               PROVE  FrameSound(frames'[d])
    BY <1>2 DEF FramesSound, Depth, FrameSound
  <2>1. FrameSound(frames[d])
    BY <1>1 DEF FramesSound, Depth
  <2> QED  BY <1>2, <2>1, AgreesSound
<1>5. Owned'
  BY <1>1, <1>2 DEF Owned, Depth, Agrees
<1>6. Paid'
  <2>1. Events(frames', 0) = Events(frames, 0)
    BY <1>2, SameEvents DEF Agrees
  <2> QED  BY <1>1, <2>1 DEF Paid
<1>7. FallbackHonest'
  BY <1>1, StillHonest
<1> QED  BY <1>3, <1>4, <1>5, <1>6, <1>7 DEF IInv

\* A call begins, on the client's session or on one made for it.
LEMMA PushKeeps ==
  ASSUME IInv, MayCall, NEW s \in {0, Depth + 1}, NEW p \in Prompts, NEW cb \in Callbacks,
         frames' = Append(Caller, NewFrame(s, p, cb)),
         UNCHANGED <<model, config>>, outcome' = "none",
         s = 0 => session[0].live /\ session' = session,
         s # 0 => ~ConstructorThrows /\ session' = [session EXCEPT ![s] = NewSession]
  PROVE  IInv'
<1>1. /\ TypeOK /\ FramesSound /\ Owned /\ Paid /\ FallbackHonest
      /\ frames \in Seq(Frames) /\ Depth \in Nat /\ Depth = Len(frames)
      /\ \A d \in 1 .. Depth : session[frames[d].session].live
      /\ session \in [0 .. MaxDepth -> Sessions \cup {NoSession}]
  BY LenProperties DEF IInv, TypeOK, Depth
<1>2. Depth + 1 <= MaxDepth /\ s \in 0 .. MaxDepth /\ MaxDepth \in Nat
  BY <1>1, DepthAssumption DEF MayCall
<1> DEFINE new == NewFrame(s, p, cb)
<1>3. /\ new \in Frames /\ FrameSound(new) /\ new.session = s
      /\ new.out = <<>> /\ Len(new.out) = 0
  BY <1>2, NewFrameSound
<1> HIDE DEF new
<1>4. /\ Caller \in Seq(Frames) /\ Len(Caller) = Depth
      /\ \A d \in 1 .. Depth : Agrees(Caller[d], frames[d])
  BY <1>1, CallerKeeps DEF Agrees
<1>5. frames' = Append(Caller, new)
  BY DEF new
<1>6. /\ frames' \in Seq(Frames) /\ Len(frames') = Depth + 1
      /\ \A d \in 1 .. Depth : frames'[d] = Caller[d]
      /\ frames'[Depth + 1] = new
  BY <1>3, <1>4, <1>5, AppendProperties
<1>7. /\ \A d \in 1 .. Depth : Agrees(frames'[d], frames[d])
      /\ \A d \in 1 .. Depth + 1 : d \in 1 .. Depth \/ d = Depth + 1
  BY <1>1, <1>4, <1>6
<1>8. /\ session' \in [0 .. MaxDepth -> {session'[t] : t \in 0 .. MaxDepth}]
      /\ \A t \in 0 .. MaxDepth :
           session'[t] = IF s # 0 /\ t = s THEN NewSession ELSE session[t]
  BY <1>1, <1>2
<1>9. s # 0 => /\ NewSession \in Sessions /\ NewSession.live /\ NewSession.used = 0
               /\ HonestSession(NewSession)
  BY <1>1, NewSessionSound DEF HonestSession
<1>10. \A d \in 1 .. Depth : frames[d].session \in {0, d} /\ frames[d].session # Depth + 1
  BY <1>1 DEF Owned
<1>11. session'[s].live
  BY <1>2, <1>8, <1>9
<1>12. TypeOK'
  <2>1. \A d \in 1 .. Len(frames') : session'[frames'[d].session].live
    <3> SUFFICES ASSUME NEW d \in 1 .. Depth + 1
                 PROVE  session'[frames'[d].session].live
      BY <1>6
    <3>1. CASE d \in 1 .. Depth
      <4>1. frames'[d].session = frames[d].session
        BY <1>7, <3>1 DEF Agrees
      <4>2. frames[d].session \in 0 .. MaxDepth
        BY <1>1, <1>2, <1>10, <3>1
      <4>3. frames[d].session # s \/ s = 0
        BY <1>10, <3>1
      <4> QED  BY <1>1, <1>8, <3>1, <4>1, <4>2, <4>3
    <3>2. CASE d = Depth + 1
      BY <1>3, <1>6, <1>11, <3>2
    <3> QED  BY <1>7, <3>1, <3>2
  <2>2. \A t \in 0 .. MaxDepth : session'[t] \in Sessions \cup {NoSession}
    BY <1>1, <1>8, <1>9
  <2> QED  BY <1>1, <1>2, <1>6, <1>8, <2>1, <2>2, StillTyped
<1>13. FramesSound'
  <2> SUFFICES ASSUME NEW d \in 1 .. Depth + 1
               PROVE  FrameSound(frames'[d])
    BY <1>6 DEF FramesSound, Depth, FrameSound
  <2>1. CASE d \in 1 .. Depth
    BY <1>1, <1>7, <2>1, AgreesSound DEF FramesSound
  <2>2. CASE d = Depth + 1
    BY <1>3, <1>6, <2>2
  <2> QED  BY <1>7, <2>1, <2>2
<1>14. Owned'
  <2>1. ASSUME NEW d \in 1 .. Depth + 1
        PROVE  frames'[d].session \in {0, d}
    BY <1>3, <1>6, <1>7, <1>10 DEF Agrees
  <2>2. ASSUME NEW t \in 1 .. MaxDepth, session'[t].live
        PROVE  /\ t <= Depth + 1
               /\ frames'[t].session = t
               /\ session'[t].used = Len(frames'[t].out)
    <3>1. CASE s # 0 /\ t = s
      BY <1>3, <1>6, <1>8, <1>9, <2>2, <3>1
    <3>2. CASE ~(s # 0 /\ t = s)
      <4>1. session'[t] = session[t] /\ session[t].live
        BY <1>8, <2>2, <3>2
      <4>2. t <= Depth /\ frames[t].session = t /\ session[t].used = Len(frames[t].out)
        BY <1>1, <4>1 DEF Owned
      <4>3. t \in 1 .. Depth
        BY <1>1, <4>2
      <4>4. frames'[t].session = frames[t].session /\ frames'[t].out = frames[t].out
        BY <1>7, <4>3 DEF Agrees
      <4> QED  BY <1>1, <4>1, <4>2, <4>4
    <3> QED  BY <3>1, <3>2
  <2> QED  BY <1>6, <2>1, <2>2 DEF Owned, Depth
<1>15. Paid'
  <2>1. /\ \A d \in 1 .. Depth : /\ frames'[d].session = frames[d].session
                                /\ frames'[d].out = frames[d].out
        /\ Len(frames'[Depth + 1].out) = 0
    BY <1>3, <1>6, <1>7 DEF Agrees
  <2>2. Events(frames', 0) = Events(frames, 0)
    <3> DEFINE fr == frames
               gr == frames'
    <3>1. Len(fr) \in Nat /\ Len(gr) = Len(fr) + 1
      BY <1>1, <1>6
    <3>2. /\ \A d \in 1 .. Len(fr) : gr[d].session = fr[d].session /\ gr[d].out = fr[d].out
          /\ Len(gr[Len(fr) + 1].out) = 0
      BY <1>1, <2>1
    <3> HIDE DEF fr, gr
    <3>3. Events(gr, 0) = Events(fr, 0)
      BY <3>1, <3>2, PushedEvents
    <3> QED  BY <3>3 DEF fr, gr
  <2>3. 0 \in 0 .. MaxDepth
    BY <1>2
  <2>4. session'[0] = session[0]
    BY <1>8, <2>3
  <2> QED  BY <1>1, <2>2, <2>4 DEF Paid
<1>16. FallbackHonest'
  BY <1>1, <1>8, <1>9, StillHonest
<1> QED  BY <1>12, <1>13, <1>14, <1>15, <1>16 DEF IInv
-----------------------------------------------------------------------------
(* The other steps. *)

LEMMA ConstructKeeps ==
  ASSUME IInv, Construct
  PROVE  IInv'
<1>1. /\ TypeOK /\ FramesSound /\ Owned /\ Paid /\ FallbackHonest
      /\ session \in [0 .. MaxDepth -> Sessions \cup {NoSession}]
      /\ frames = <<>> /\ frames' = <<>> /\ Len(frames') = 0
      /\ UNCHANGED <<model, config>>
      /\ 0 \in 0 .. MaxDepth
  BY DepthAssumption, EmptySeq DEF IInv, TypeOK, Construct
<1>2. CASE ConstructorThrows
  <2>1. session' = session /\ outcome' = "failed"
    BY <1>2 DEF Construct
  <2>2. frames' = Caller
    BY <1>1 DEF Caller
  <2> QED  BY <1>1, <2>1, <2>2, MarkKeeps
<1>3. CASE ~ConstructorThrows
  <2>1. session' = [session EXCEPT ![0] = NewSession] /\ outcome' = outcome
    BY <1>3 DEF Construct
  <2>2. /\ session' \in [0 .. MaxDepth -> {session'[t] : t \in 0 .. MaxDepth}]
        /\ \A t \in 0 .. MaxDepth : session'[t] = IF t = 0 THEN NewSession ELSE session[t]
    BY <1>1, <2>1
  <2>3. /\ NewSession \in Sessions /\ NewSession.live /\ NewSession.used = 0
        /\ HonestSession(NewSession)
    BY <1>1, <1>3, NewSessionSound DEF HonestSession
  <2>4. TypeOK'
    <3>1. outcome' \in {"none", "done", "exhausted", "stopped", "failed", "refused"}
      BY <1>1, <2>1 DEF TypeOK
    <3>2. \A t \in 0 .. MaxDepth : session'[t] \in Sessions \cup {NoSession}
      BY <1>1, <2>2, <2>3
    <3>3. frames' \in Seq(Frames) /\ Len(frames') <= MaxDepth
      BY <1>1, DepthAssumption, EmptySeq
    <3> QED  BY <1>1, <2>2, <3>1, <3>2, <3>3, StillTyped
  <2>5. FramesSound'
    BY <1>1 DEF FramesSound, Depth
  <2>6. Owned'
    <3>1. \A t \in 1 .. MaxDepth : session'[t] = session[t]
      BY <2>2
    <3>2. Len(frames) = 0
      BY <1>1
    <3> QED  BY <1>1, <3>1, <3>2 DEF Owned, Depth
  <2>7. Paid'
    <3>1. Events(frames', 0) = {}
      BY <1>1 DEF Events
    <3>2. IsFiniteSet({}) /\ Cardinality({}) = 0
      BY FS_EmptySet
    <3>3. session'[0].used = 0
      BY <1>1, <2>2, <2>3
    <3> QED  BY <3>1, <3>2, <3>3 DEF Paid
  <2>8. FallbackHonest'
    BY <1>1, <2>2, <2>3, StillHonest
  <2> QED  BY <2>4, <2>5, <2>6, <2>7, <2>8 DEF IInv
<1> QED  BY <1>2, <1>3

LEMMA DestroyKeeps ==
  ASSUME IInv, Destroy
  PROVE  IInv'
<1>1. /\ TypeOK /\ FramesSound /\ Owned /\ Paid /\ FallbackHonest
      /\ session \in [0 .. MaxDepth -> Sessions \cup {NoSession}]
      /\ frames = <<>> /\ frames' = <<>> /\ Len(frames') = 0 /\ Len(frames) = 0
      /\ UNCHANGED <<model, config>> /\ outcome' = outcome
      /\ 0 \in 0 .. MaxDepth
  BY DepthAssumption, EmptySeq DEF IInv, TypeOK, Destroy
<1>2. session' = [session EXCEPT ![0] = NoSession]
  BY DEF Destroy
<1>3. /\ session' \in [0 .. MaxDepth -> {session'[t] : t \in 0 .. MaxDepth}]
      /\ \A t \in 0 .. MaxDepth : session'[t] = IF t = 0 THEN NoSession ELSE session[t]
      /\ ~NoSession.live
  BY <1>1, <1>2 DEF NoSession
<1>4. TypeOK'
  <2>1. outcome' \in {"none", "done", "exhausted", "stopped", "failed", "refused"}
    BY <1>1 DEF TypeOK
  <2>2. frames' \in Seq(Frames) /\ Len(frames') <= MaxDepth
    BY <1>1, DepthAssumption, EmptySeq
  <2> QED  BY <1>1, <1>3, <2>1, <2>2, StillTyped
<1>5. FramesSound'
  BY <1>1 DEF FramesSound, Depth
<1>6. Owned'
  <2>1. \A t \in 1 .. MaxDepth : session'[t] = session[t]
    BY <1>3
  <2> QED  BY <1>1, <2>1 DEF Owned, Depth
<1>7. Paid'
  BY <1>1, <1>3 DEF Paid
<1>8. FallbackHonest'
  BY <1>1, <1>3, StillHonest
<1> QED  BY <1>4, <1>5, <1>6, <1>7, <1>8 DEF IInv

\* A call ends, and the session made for it with it.
LEMMA LeaveKeeps ==
  ASSUME IInv, frames # <<>>, NEW how \in {"done", "exhausted", "stopped", "failed"},
         Leave(how)
  PROVE  IInv'
<1>1. /\ TypeOK /\ FramesSound /\ Owned /\ Paid /\ FallbackHonest
      /\ frames \in Seq(Frames) /\ Depth \in Nat \ {0} /\ Depth = Len(frames)
      /\ Depth <= MaxDepth /\ MaxDepth \in Nat
      /\ \A d \in 1 .. Depth : session[frames[d].session].live
      /\ session \in [0 .. MaxDepth -> Sessions \cup {NoSession}]
  BY EmptySeq, LenProperties, DepthAssumption DEF IInv, TypeOK, Depth
<1>2. /\ session' = IF Top.session = 0 THEN session
                    ELSE [session EXCEPT ![Top.session] = NoSession]
      /\ frames' = SubSeq(frames, 1, Depth - 1)
      /\ outcome' = how /\ UNCHANGED <<model, config>>
  BY DEF Leave
<1>3. Top = frames[Depth] /\ Top.session \in {0, Depth}
  BY <1>1 DEF Top, Owned
<1>4. /\ frames' \in Seq(Frames) /\ Len(frames') = Depth - 1
      /\ \A d \in 1 .. Depth - 1 : frames'[d] = frames[d]
  <2>1. \A d \in 1 .. Depth - 1 : frames[d] \in Frames
    BY <1>1, ElementOfSeq
  <2> QED  BY <1>1, <1>2, <2>1, SubSeqProperties
<1>5. /\ session' \in [0 .. MaxDepth -> {session'[t] : t \in 0 .. MaxDepth}]
      /\ \A t \in 0 .. MaxDepth :
           session'[t] = IF t # 0 /\ t = Top.session THEN NoSession ELSE session[t]
      /\ ~NoSession.live
  BY <1>1, <1>2, <1>3 DEF NoSession
<1>6. TypeOK'
  <2>1. ASSUME NEW d \in 1 .. Len(frames')
        PROVE  session'[frames'[d].session].live
    <3>1. d \in 1 .. Depth /\ d # Depth /\ frames'[d] = frames[d]
      BY <1>1, <1>4
    <3>2. frames[d].session \in {0, d} /\ frames[d].session \in 0 .. MaxDepth
      BY <1>1, <3>1 DEF Owned
    <3>3. ~(frames[d].session # 0 /\ frames[d].session = Top.session)
      BY <1>3, <3>1, <3>2
    <3> QED  BY <1>1, <1>5, <3>1, <3>2, <3>3
  <2>2. \A t \in 0 .. MaxDepth : session'[t] \in Sessions \cup {NoSession}
    BY <1>1, <1>5
  <2>3. outcome' \in {"none", "done", "exhausted", "stopped", "failed", "refused"}
    BY <1>2
  <2>4. Len(frames') <= MaxDepth
    BY <1>1, <1>4
  <2> QED  BY <1>1, <1>2, <1>4, <1>5, <2>1, <2>2, <2>3, <2>4, StillTyped
<1>7. FramesSound'
  <2> SUFFICES ASSUME NEW d \in 1 .. Depth - 1
               PROVE  FrameSound(frames'[d])
    BY <1>4 DEF FramesSound, Depth, FrameSound
  <2>1. FrameSound(frames[d])
    BY <1>1 DEF FramesSound
  <2> QED  BY <1>4, <2>1
<1>8. Owned'
  <2>1. ASSUME NEW d \in 1 .. Depth - 1
        PROVE  frames'[d].session \in {0, d}
    BY <1>1, <1>4 DEF Owned
  <2>2. ASSUME NEW t \in 1 .. MaxDepth, session'[t].live
        PROVE  /\ t <= Depth - 1
               /\ frames'[t].session = t
               /\ session'[t].used = Len(frames'[t].out)
    <3>1. session'[t] = session[t] /\ t # Top.session
      BY <1>5, <2>2
    <3>2. t <= Depth /\ frames[t].session = t /\ session[t].used = Len(frames[t].out)
      BY <1>1, <2>2, <3>1 DEF Owned
    <3>3. t # Depth
      BY <1>3, <3>1, <3>2
    <3>4. t \in 1 .. Depth - 1
      BY <1>1, <3>2, <3>3
    <3> QED  BY <1>1, <1>4, <3>1, <3>2, <3>4
  <2> QED  BY <1>4, <2>1, <2>2 DEF Owned, Depth
<1>9. Paid'
  <2>1. Events(frames', 0) \subseteq Events(frames, 0)
    <3> DEFINE fr == frames
               gr == frames'
    <3>1. /\ Len(fr) \in Nat \ {0} /\ Len(gr) = Len(fr) - 1
          /\ \A d \in 1 .. Len(gr) : gr[d] = fr[d]
      BY <1>1, <1>4
    <3> HIDE DEF fr, gr
    <3>2. Events(gr, 0) \subseteq Events(fr, 0)
      BY <3>1, PoppedEvents
    <3> QED  BY <3>2 DEF fr, gr
  <2>2. session'[0] = session[0]
    BY <1>1, <1>2, <1>3
  <2>3. IsFiniteSet(Events(frames, 0))
    BY <1>1 DEF Paid
  <2>4. /\ IsFiniteSet(Events(frames', 0))
        /\ Cardinality(Events(frames', 0)) <= Cardinality(Events(frames, 0))
        /\ Cardinality(Events(frames', 0)) \in Nat /\ Cardinality(Events(frames, 0)) \in Nat
    BY <2>1, <2>3, FS_Subset, FS_CardinalityType
  <2>5. ASSUME session[0].live
        PROVE  Cardinality(Events(frames', 0)) <= session[0].used
    <3>1. Cardinality(Events(frames, 0)) <= session[0].used
      BY <1>1, <2>5 DEF Paid
    <3>2. session[0] \in Sessions
      BY <1>1, <2>5 DEF NoSession
    <3>3. session[0].used \in Nat
      BY <1>1, <3>2, CapacityIsNat DEF Sessions
    <3> QED  BY <2>4, <3>1, <3>3
  <2> QED  BY <2>2, <2>4, <2>5 DEF Paid
<1>10. FallbackHonest'
  BY <1>1, <1>2, <1>5, StillHonest
<1> QED  BY <1>6, <1>7, <1>8, <1>9, <1>10 DEF IInv
\* append_slot takes one of the slots that are left.
LEMMA SlotTaken ==
  ASSUME TypeOK, NEW x \in Sessions, x.used < Capacity,
         NEW y, y = [x EXCEPT !.used = x.used + 1]
  PROVE  /\ y \in Sessions /\ x.used \in Nat
         /\ y.live /\ y.used = x.used + 1
         /\ y.requested = x.requested /\ y.active = x.active /\ y.reason = x.reason
<1>1. Capacity \in Nat
  BY CapacityIsNat
<1>2. x.used \in 0 .. Capacity
  BY DEF Sessions
<1>3. x.used + 1 \in 0 .. Capacity
  BY <1>1, <1>2
<1>4. y \in Sessions /\ y.used = x.used + 1
  BY <1>3 DEF Sessions
<1>5. y.requested = x.requested /\ y.active = x.active /\ y.reason = x.reason
  BY DEF Sessions
<1>6. y.live
  BY <1>4 DEF Sessions
<1> QED  BY <1>2, <1>4, <1>5, <1>6

LEMMA SampleKeeps ==
  ASSUME PickTyped, IInv, Sample
  PROVE  IInv'
<1>1. /\ TypeOK /\ FramesSound /\ Owned /\ Paid /\ FallbackHonest
      /\ frames \in Seq(Frames) /\ Depth \in Nat \ {0} /\ Depth = Len(frames)
      /\ Depth <= MaxDepth /\ MaxDepth \in Nat
      /\ \A d \in 1 .. Depth : session[frames[d].session].live
      /\ session \in [0 .. MaxDepth -> Sessions \cup {NoSession}]
  BY EmptySeq, LenProperties, DepthAssumption DEF IInv, TypeOK, Depth, Sample, Running
<1> DEFINE s == Top.session
           f == Top
           id == Pick(f.rolling, f.i, f.draws)
           g == Sampled(f, id)
           x == session[s]
           y == [x EXCEPT !.used = x.used + 1]
<1>2. /\ f = frames[Depth] /\ Depth \in 1 .. Depth
      /\ f \in Frames /\ FrameSound(f) /\ s \in {0, Depth} /\ s \in 0 .. MaxDepth
      /\ x.live
  BY <1>1, ElementOfSeq DEF Top, Owned, FramesSound
<1>3. /\ f.pending = FALSE
      /\ x.used < Capacity
      /\ UNCHANGED <<model, config, outcome>>
  BY <1>2 DEF Sample, Running, SlotFree, Frames
<1>4. frames' = [frames EXCEPT ![Depth] = g]
  <2>1. frames \in [1 .. Depth -> Frames]
    BY <1>1, LenProperties
  <2>2. frames' = [frames EXCEPT ![Depth].rolling = Append(@, id),
                                 ![Depth].draws   = @ + 1,
                                 ![Depth].out     = Append(@, id),
                                 ![Depth].pending = TRUE]
    BY DEF Sample
  <2> QED  BY <1>2, <2>1, <2>2 DEF Frames, Sampled
<1>5. session' = [session EXCEPT ![s] = y]
  BY DEF Sample
<1>6. /\ x \in Sessions /\ x.used \in Nat
      /\ y \in Sessions /\ y.live /\ y.used = x.used + 1
      /\ y.requested = x.requested /\ y.active = x.active /\ y.reason = x.reason
  <2>1. x \in Sessions /\ y = [x EXCEPT !.used = x.used + 1]
    BY <1>1, <1>2 DEF NoSession
  <2> HIDE DEF x, y
  <2> QED  BY <1>1, <1>3, <2>1, SlotTaken
<1>7. /\ g \in Frames /\ FrameSound(g)
      /\ Len(g.out) = Len(f.out) + 1 /\ Len(f.out) \in Nat
      /\ g.session = f.session
  <2>1. ~f.pending
    BY <1>3
  <2>2. Len(f.out) \in Nat
    BY <1>2, LenProperties DEF Frames
  <2>3. id = Pick(f.rolling, f.i, f.draws)
    OBVIOUS
  <2> HIDE DEF f, id
  <2> QED  BY <1>2, <2>1, <2>2, <2>3, SampledSound
<1> HIDE DEF g, y
<1>8. /\ frames' \in Seq(Frames) /\ Len(frames') = Depth
      /\ \A d \in 1 .. Depth : frames'[d] = IF d = Depth THEN g ELSE frames[d]
  BY <1>1, <1>2, <1>4, <1>7, ExceptSeq
<1>9. /\ session' \in [0 .. MaxDepth -> {session'[t] : t \in 0 .. MaxDepth}]
      /\ \A t \in 0 .. MaxDepth : session'[t] = IF t = s THEN y ELSE session[t]
  BY <1>1, <1>2, <1>5
<1>10. TypeOK'
  <2>1. ASSUME NEW d \in 1 .. Depth
        PROVE  session'[frames'[d].session].live
    <3>1. frames'[d].session = frames[d].session
      BY <1>2, <1>7, <1>8
    <3>2. frames[d].session \in 0 .. MaxDepth
      BY <1>1 DEF Owned
    <3> QED  BY <1>1, <1>6, <1>9, <3>1, <3>2
  <2>2. \A t \in 0 .. MaxDepth : session'[t] \in Sessions \cup {NoSession}
    BY <1>1, <1>6, <1>9
  <2>3. outcome' \in {"none", "done", "exhausted", "stopped", "failed", "refused"}
    BY <1>3 DEF IInv, TypeOK
  <2> QED  BY <1>1, <1>3, <1>8, <1>9, <2>1, <2>2, <2>3, StillTyped
<1>11. FramesSound'
  <2> SUFFICES ASSUME NEW d \in 1 .. Depth
               PROVE  FrameSound(frames'[d])
    BY <1>8 DEF FramesSound, Depth, FrameSound
  <2>1. FrameSound(frames[d])
    BY <1>1 DEF FramesSound
  <2> QED  BY <1>7, <1>8, <2>1
<1>12. Owned'
  <2>1. ASSUME NEW d \in 1 .. Depth
        PROVE  frames'[d].session \in {0, d}
    BY <1>1, <1>2, <1>7, <1>8 DEF Owned
  <2>2. ASSUME NEW t \in 1 .. MaxDepth, session'[t].live
        PROVE  /\ t <= Depth
               /\ frames'[t].session = t
               /\ session'[t].used = Len(frames'[t].out)
    <3>0. t \in 0 .. MaxDepth
      BY <1>1
    <3>1. session[t].live
      <4>1. CASE t = s
        BY <1>2, <4>1
      <4>2. CASE t # s
        BY <1>9, <2>2, <3>0, <4>2
      <4> QED  BY <4>1, <4>2
    <3>2. t <= Depth /\ frames[t].session = t /\ session[t].used = Len(frames[t].out)
      BY <1>1, <3>1 DEF Owned
    <3>3. t \in 1 .. Depth /\ (t = s <=> t = Depth)
      BY <1>1, <1>2, <3>2
    <3>4. CASE t = Depth
      <4>1. t = s /\ session'[t] = y /\ frames'[t] = g
        BY <1>8, <1>9, <3>0, <3>3, <3>4
      <4> HIDE DEF s, f, x
      <4>2. f.session = t /\ x.used = Len(f.out)
        BY <1>2, <3>2, <3>4, <4>1 DEF x
      <4> QED  BY <1>6, <1>7, <3>2, <4>1, <4>2
    <3>5. CASE t # Depth
      <4>1. session'[t] = session[t] /\ frames'[t] = frames[t]
        BY <1>8, <1>9, <3>0, <3>3, <3>5
      <4> QED  BY <3>2, <4>1
    <3> QED  BY <3>4, <3>5
  <2> QED  BY <1>8, <2>1, <2>2 DEF Owned, Depth
<1>13. Paid'
  <2>1. Events(frames', 0) = Events(frames, 0) \cup
          (IF s = 0 THEN {<<Depth, Len(f.out) + 1>>} ELSE {})
    <3> DEFINE fr == frames
               gr == frames'
    <3>1. /\ Len(fr) \in Nat \ {0} /\ Len(gr) = Len(fr)
          /\ \A d \in 1 .. Len(fr) - 1 : gr[d] = fr[d]
          /\ gr[Len(fr)].session = fr[Len(fr)].session
          /\ Len(fr[Len(fr)].out) \in Nat
          /\ Len(gr[Len(fr)].out) = Len(fr[Len(fr)].out) + 1
      BY <1>1, <1>2, <1>7, <1>8
    <3>2. Len(fr) = Depth /\ fr[Len(fr)] = f
      BY <1>1, <1>2
    <3> HIDE DEF fr, gr, f
    <3>3. Events(gr, 0) = Events(fr, 0) \cup
            (IF fr[Len(fr)].session = 0
               THEN {<<Len(fr), Len(fr[Len(fr)].out) + 1>>} ELSE {})
      BY <3>1, SampledEvents
    <3> QED  BY <3>2, <3>3 DEF fr, gr, f
  <2>2. IsFiniteSet(Events(frames, 0))
    BY <1>1 DEF Paid
  <2>3. 0 \in 0 .. MaxDepth
    BY <1>1
  <2>4. CASE s # 0
    <3>1. Events(frames', 0) = Events(frames, 0)
      BY <2>1, <2>4
    <3>2. session'[0] = session[0]
      BY <1>9, <2>3, <2>4
    <3> QED  BY <1>1, <3>1, <3>2 DEF Paid
  <2>5. CASE s = 0
    <3> DEFINE e == <<Depth, Len(f.out) + 1>>
               E == Events(frames, 0)
    <3>1. Events(frames', 0) = E \cup {e}
      BY <2>1, <2>5
    <3>2. session'[0] = y /\ Cardinality(E) <= x.used
      BY <1>1, <1>2, <1>9, <2>3, <2>5 DEF Paid
    <3> HIDE DEF e, E, x
    <3>3. /\ IsFiniteSet(E \cup {e})
          /\ Cardinality(E \cup {e}) \in {Cardinality(E), Cardinality(E) + 1}
          /\ Cardinality(E) \in Nat
      BY <2>2, FS_AddElement, FS_CardinalityType DEF E
    <3>4. Cardinality(E \cup {e}) <= y.used
      BY <1>6, <3>2, <3>3
    <3> QED  BY <3>1, <3>2, <3>3, <3>4 DEF Paid
  <2> QED  BY <2>4, <2>5
<1>14. FallbackHonest'
  <2>1. ASSUME NEW t \in 0 .. MaxDepth, session'[t].live
        PROVE  /\ session[t].live /\ session'[t].requested = session[t].requested
               /\ session'[t].active = session[t].active
               /\ session'[t].reason = session[t].reason
    BY <1>2, <1>6, <1>9, <2>1
  <2> QED  BY <1>1, <1>3, <2>1, StillHonest
<1> QED  BY <1>10, <1>11, <1>12, <1>13, <1>14 DEF IInv
\* The call after its callback has gone on.
Resumed(f) == [f EXCEPT !.pending = FALSE, !.nested = FALSE, !.i = f.i + 1]

LEMMA ResumedSound ==
  ASSUME NEW f \in Frames, FrameSound(f), f.pending = TRUE
  PROVE  /\ Resumed(f) \in Frames
         /\ FrameSound(Resumed(f))
         /\ Resumed(f).session = f.session
         /\ Resumed(f).out = f.out
<1> DEFINE g == Resumed(f)
<1>1. f.i \in Nat /\ f.i + 1 \in Nat
  BY DEF Frames
<1>2. g \in Frames
  BY <1>1 DEF Frames, Resumed
<1>3. /\ g.session = f.session /\ g.prompt = f.prompt /\ g.out = f.out
      /\ g.rolling = f.rolling /\ g.draws = f.draws
      /\ g.i = f.i + 1 /\ g.pending = FALSE
  BY DEF Frames, Resumed
<1> HIDE DEF g
<1>4. Len(f.out) = f.i + 1
  BY DEF FrameSound
<1>5. Len(g.out) = g.i + IF g.pending THEN 1 ELSE 0
  BY <1>1, <1>3, <1>4
<1>6. FrameSound(g)
  BY <1>3, <1>5 DEF FrameSound
<1> QED  BY <1>2, <1>3, <1>6 DEF g

\* The callback goes on: the loop's index catches up with the output.
LEMMA GoKeeps ==
  ASSUME IInv, frames # <<>>, Top.pending,
         frames' = [frames EXCEPT ![Depth].pending = FALSE,
                                  ![Depth].nested  = FALSE,
                                  ![Depth].i       = @ + 1],
         UNCHANGED <<model, config, session, outcome>>
  PROVE  IInv'
<1>1. /\ TypeOK /\ FramesSound /\ Owned /\ Paid /\ FallbackHonest
      /\ frames \in Seq(Frames) /\ Depth \in Nat \ {0} /\ Depth = Len(frames)
      /\ Depth <= MaxDepth /\ Depth \in 1 .. Depth
      /\ \A d \in 1 .. Depth : session[frames[d].session].live
      /\ session \in [0 .. MaxDepth -> Sessions \cup {NoSession}]
  BY EmptySeq, LenProperties DEF IInv, TypeOK, Depth
<1> DEFINE f == Top
           g == Resumed(f)
<1>2. f = frames[Depth] /\ f \in Frames /\ FrameSound(f) /\ f.pending = TRUE
  BY <1>1, ElementOfSeq DEF Top, FramesSound, Frames
<1>3. frames' = [frames EXCEPT ![Depth] = g]
  <2>1. frames \in [1 .. Depth -> Frames]
    BY <1>1, LenProperties
  <2> QED  BY <1>1, <1>2, <2>1 DEF Frames, Resumed
<1>4. /\ g \in Frames /\ FrameSound(g)
      /\ g.session = f.session /\ g.out = f.out
  <2> HIDE DEF f
  <2> QED  BY <1>2, ResumedSound
<1>5. FrameSound(g)
  BY <1>4
<1> HIDE DEF g, f
<1>6. /\ frames' \in Seq(Frames) /\ Len(frames') = Depth
      /\ \A d \in 1 .. Depth : frames'[d] = IF d = Depth THEN g ELSE frames[d]
  <2>1. frames \in Seq(Frames) /\ Depth \in 1 .. Len(frames) /\ Len(frames) = Depth
    BY <1>1
  <2>2. g \in Frames
    BY <1>4
  <2>3. /\ [frames EXCEPT ![Depth] = g] \in Seq(Frames)
        /\ Len([frames EXCEPT ![Depth] = g]) = Len(frames)
        /\ \A d \in 1 .. Len(frames) :
             [frames EXCEPT ![Depth] = g][d] = IF d = Depth THEN g ELSE frames[d]
    BY <2>1, <2>2, ExceptSeq
  <2> QED  BY <1>3, <2>1, <2>3
<1>7. \A d \in 1 .. Depth : frames'[d].session = frames[d].session /\ frames'[d].out = frames[d].out
  BY <1>2, <1>4, <1>6
<1>8. TypeOK'
  <2>1. \A d \in 1 .. Len(frames') : session'[frames'[d].session].live
    BY <1>1, <1>6, <1>7
  <2>2. /\ outcome' \in {"none", "done", "exhausted", "stopped", "failed", "refused"}
        /\ session' \in [0 .. MaxDepth -> {session'[t] : t \in 0 .. MaxDepth}]
        /\ \A t \in 0 .. MaxDepth : session'[t] \in Sessions \cup {NoSession}
    BY <1>1 DEF TypeOK
  <2> QED  BY <1>1, <1>6, <2>1, <2>2, StillTyped
<1>9. FramesSound'
  <2> SUFFICES ASSUME NEW d \in 1 .. Depth
               PROVE  FrameSound(frames'[d])
    BY <1>6 DEF FramesSound, Depth, FrameSound
  <2>1. FrameSound(frames[d])
    BY <1>1 DEF FramesSound
  <2> QED  BY <1>5, <1>6, <2>1
<1>10. Owned'
  <2>1. ASSUME NEW t \in 1 .. MaxDepth, session[t].live
        PROVE  /\ t <= Depth
               /\ frames'[t].session = t
               /\ session[t].used = Len(frames'[t].out)
    <3>1. t <= Depth /\ frames[t].session = t /\ session[t].used = Len(frames[t].out)
      BY <1>1, <2>1 DEF Owned
    <3>2. t \in 1 .. Depth
      BY <1>1, <3>1
    <3> QED  BY <1>7, <3>1, <3>2
  <2>2. \A d \in 1 .. Depth : frames'[d].session \in {0, d}
    BY <1>1, <1>7 DEF Owned
  <2> QED  BY <1>6, <2>1, <2>2 DEF Owned, Depth
<1>11. Paid'
  <2>1. Events(frames', 0) = Events(frames, 0)
    <3> DEFINE fr == frames
               gr == frames'
    <3>1. /\ Len(gr) = Len(fr)
          /\ \A d \in 1 .. Len(fr) : gr[d].session = fr[d].session /\ gr[d].out = fr[d].out
      BY <1>1, <1>6, <1>7
    <3> HIDE DEF fr, gr
    <3>2. Events(gr, 0) = Events(fr, 0)
      BY <3>1, SameEvents
    <3> QED  BY <3>2 DEF fr, gr
  <2> QED  BY <1>1, <2>1 DEF Paid
<1>12. FallbackHonest'
  BY <1>1, StillHonest
<1> QED  BY <1>8, <1>9, <1>10, <1>11, <1>12 DEF IInv

-----------------------------------------------------------------------------
(* The invariant. *)

LEMMA InitHolds ==
  ASSUME Init
  PROVE  IInv
<1>1. /\ session = [d \in 0 .. MaxDepth |-> NoSession] /\ frames = <<>> /\ Len(frames) = 0
      /\ frames \in Seq(Frames)
      /\ \A d \in 0 .. MaxDepth : ~session[d].live
      /\ 0 \in 0 .. MaxDepth /\ MaxDepth \in Nat
  BY DepthAssumption, EmptySeq DEF Init, NoSession
<1>2. TypeOK
  BY <1>1 DEF Init, TypeOK, Depth
<1>3. FramesSound /\ Owned
  BY <1>1 DEF FramesSound, Owned, Depth
<1>4. Paid
  <2>1. Events(frames, 0) = {}
    BY <1>1 DEF Events
  <2> QED  BY <1>1, <2>1, FS_EmptySet DEF Paid
<1>5. FallbackHonest
  BY <1>1 DEF FallbackHonest
<1> QED  BY <1>2, <1>3, <1>4, <1>5 DEF IInv

LEMMA NextKeeps ==
  ASSUME PickTyped, IInv, [Next]_vars
  PROVE  IInv'
<1>1. Depth \in Nat
  BY LenProperties DEF IInv, TypeOK, Depth
<1>2. CASE Construct
  BY <1>2, ConstructKeeps
<1>3. CASE Destroy
  BY <1>3, DestroyKeeps
<1>4. ASSUME NEW p \in Prompts, NEW cb \in Callbacks, SessionCall(p, cb)
      PROVE  IInv'
  <2>1. /\ MayCall /\ session[0].live /\ session' = session
        /\ frames' = Append(Caller, NewFrame(0, p, cb))
        /\ outcome' = "none" /\ UNCHANGED <<model, config>>
    BY <1>4 DEF SessionCall
  <2> QED  BY <2>1, PushKeeps
<1>5. CASE EngineRefuses
  <2>1. frames' = Caller /\ outcome' = "refused" /\ UNCHANGED <<model, config, session>>
    BY <1>5 DEF EngineRefuses
  <2> QED  BY <2>1, MarkKeeps
<1>6. ASSUME NEW p \in Prompts, NEW cb \in Callbacks, EngineCall(p, cb)
      PROVE  IInv'
  <2>1. CASE ConstructorThrows
    <3>1. frames' = Caller /\ outcome' = "failed" /\ UNCHANGED <<model, config, session>>
      BY <1>6, <2>1 DEF EngineCall
    <3> QED  BY <3>1, MarkKeeps
  <2>2. CASE ~ConstructorThrows
    <3>1. /\ MayCall /\ session' = [session EXCEPT ![Depth + 1] = NewSession]
          /\ frames' = Append(Caller, NewFrame(Depth + 1, p, cb))
          /\ outcome' = "none" /\ UNCHANGED <<model, config>>
      BY <1>6, <2>2 DEF EngineCall
    <3>2. Depth + 1 # 0
      BY <1>1
    <3> QED  BY <2>2, <3>1, <3>2, PushKeeps
  <2> QED  BY <2>1, <2>2
<1>7. CASE LoopEnds
  BY <1>7, LeaveKeeps DEF LoopEnds, Running
<1>8. CASE NoSlot
  BY <1>8, LeaveKeeps DEF NoSlot, Running
<1>9. CASE Sample
  BY <1>9, SampleKeeps
<1>10. ASSUME NEW what \in {"go", "stop", "throw"}, Answer(what)
       PROVE  IInv'
  <2>1. frames # <<>> /\ Top.pending
    BY <1>10 DEF Answer
  <2>2. CASE what = "go"
    BY <1>10, <2>1, <2>2, GoKeeps DEF Answer
  <2>3. CASE what = "stop"
    BY <1>10, <2>1, <2>3, LeaveKeeps DEF Answer
  <2>4. CASE what = "throw"
    BY <1>10, <2>1, <2>4, LeaveKeeps DEF Answer
  <2> QED  BY <2>2, <2>3, <2>4
<1>11. CASE UNCHANGED vars
  <2>1. UNCHANGED <<model, config, session, frames, outcome>>
    BY <1>11 DEF vars
  <2>2. TypeOK'
    BY <2>1 DEF IInv, TypeOK, Depth, Sessions, Capacity
  <2>3. FramesSound' /\ Owned' /\ Paid' /\ FallbackHonest'
    BY <2>1 DEF IInv, FramesSound, Owned, Paid, FallbackHonest, Depth
  <2> QED  BY <2>2, <2>3 DEF IInv
<1> QED
  BY <1>2, <1>3, <1>4, <1>5, <1>6, <1>7, <1>8, <1>9, <1>10, <1>11 DEF Next, Start, Work

\* The invariant holds of every state of every behaviour.
LEMMA Invariance ==
  ASSUME PickTyped
  PROVE  Spec => []IInv
<1>1. Init => IInv
  BY InitHolds
<1>2. IInv /\ [Next]_vars => IInv'
  BY NextKeeps
<1> QED  BY <1>1, <1>2, PTL DEF Spec
-----------------------------------------------------------------------------
(* What Spec guarantees, whatever the logits and the sampler give, as long as *)
(* they give token ids.                                                       *)

\* EventsOn counts Events.
LEMMA EventsCounted ==
  ASSUME IInv, NEW s
  PROVE  EventsOn(s) = Cardinality(Events(frames, s))
<1>1. \A d \in 1 .. Len(frames) : Len(frames[d].out) \in Nat
  BY ElementOfSeq, LenProperties DEF IInv, TypeOK, Frames
<1>2. UNION {{d} \X (1 .. Len(frames[d].out)) : d \in CallsOn(s)} = Events(frames, s)
  BY <1>1 DEF Events, CallsOn, Depth
<1> QED  BY <1>2 DEF EventsOn

\* A call on a session of its own is all there is to pay for.
LEMMA OwnEvents ==
  ASSUME IInv, NEW s \in 1 .. MaxDepth, session[s].live
  PROVE  Cardinality(Events(frames, s)) = session[s].used
<1> DEFINE n == Len(frames[s].out)
           b == [k \in 1 .. n |-> <<s, k>>]
           E == Events(frames, s)
<1>1. /\ s \in 1 .. Len(frames) /\ frames[s].session = s /\ session[s].used = n
      /\ \A d \in 1 .. Len(frames) : frames[d].session \in {0, d}
  BY LenProperties DEF IInv, Owned, TypeOK, Depth
<1>2. n \in Nat
  BY <1>1, ElementOfSeq, LenProperties DEF IInv, TypeOK, Frames
<1>3. E = {<<s, k>> : k \in 1 .. n}
  BY <1>1, <1>2 DEF Events
<1> HIDE DEF n, E
<1>4. b \in Bijection(1 .. n, E)
  <2>1. b \in [1 .. n -> E]
    BY <1>3
  <2>2. \A i, j \in 1 .. n : b[i] = b[j] => i = j
    OBVIOUS
  <2>3. \A e \in E : \E k \in 1 .. n : b[k] = e
    BY <1>3
  <2> QED  BY <2>1, <2>2, <2>3 DEF Bijection, Injection, Surjection, IsInjective
<1>5. Cardinality(E) = n
  BY <1>2, <1>4, FS_CountingElements DEF ExistsBijection
<1> QED  BY <1>1, <1>5 DEF E

\* Every state of generation is typed: no KV cache holds more slots than it has.
THEOREM TypeCorrect ==
  ASSUME PickTyped
  PROVE  Spec => []TypeOK
<1>1. IInv => TypeOK
  BY DEF IInv
<1> QED  BY <1>1, Invariance, PTL

\* What a call emits depends on its prompt alone, however calls nest.
THEOREM GenerationReproducible ==
  ASSUME PickTyped
  PROVE  Spec => []Reproducible
<1>1. IInv => Reproducible
  BY DEF IInv, FramesSound, FrameSound, Reproducible
<1> QED  BY <1>1, Invariance, PTL

\* The slots of a session pay for the tokens of the calls nested on it.
THEOREM EveryTokenHasItsSlot ==
  ASSUME PickTyped
  PROVE  Spec => []SlotsPaid
<1>1. ASSUME IInv
      PROVE  SlotsPaid
  <2> SUFFICES ASSUME NEW s \in 0 .. MaxDepth, session[s].live
               PROVE  /\ EventsOn(s) <= session[s].used
                      /\ s > 0 => session[s].used = EventsOn(s)
    BY DEF SlotsPaid
  <2>1. EventsOn(s) = Cardinality(Events(frames, s))
    BY <1>1, EventsCounted
  <2>2. CASE s = 0
    BY <1>1, <2>1, <2>2 DEF IInv, Paid
  <2>3. CASE s # 0
    <3>1. s \in 1 .. MaxDepth
      BY <2>3, DepthAssumption
    <3>2. Cardinality(Events(frames, s)) = session[s].used
      BY <1>1, <3>1, OwnEvents
    <3>3. session[s].used \in Nat
      <4>1. session[s] \in Sessions /\ Capacity \in Nat
        BY <1>1, CapacityIsNat DEF IInv, TypeOK, NoSession
      <4>2. session[s].used \in 0 .. Capacity
        BY <4>1 DEF Sessions
      <4> QED  BY <4>1, <4>2
    <3> QED  BY <2>1, <3>2, <3>3
  <2> QED  BY <2>2, <2>3
<1> QED  BY <1>1, Invariance, PTL

\* A session never claims speculation, and says truthfully why it has none.
THEOREM NeverClaimsSpeculation ==
  ASSUME PickTyped
  PROVE  Spec => []FallbackHonest
<1>1. IInv => FallbackHonest
  BY DEF IInv
<1> QED  BY <1>1, Invariance, PTL
=============================================================================
