------------------------------- MODULE Session -------------------------------
(***************************************************************************)
(* Generation: Engine (src/engine.cpp), InferenceSession with its KV cache *)
(* and the speculative fallback (src/session.cpp), and the real-decode     *)
(* boundary for GGUF models (greedy_decode_real, src/ops.cpp).             *)
(*                                                                         *)
(* A client owns one reusable session and one engine over the same model.  *)
(* Token callbacks run inside a call and may themselves call into the      *)
(* session or the engine again, so calls form a stack of frames; session   *)
(* 0 is the client's, session d > 0 the temporary one Engine makes for the *)
(* call at depth d.  Token ids are data: the 64-bit rolling hash over the  *)
(* ids so far is idealised as the sequence itself, and Pick is what the    *)
(* logits and the sampler make of it.                                      *)
(***************************************************************************)
EXTENDS Integers, Sequences, FiniteSets

CONSTANTS
  Token,           \* token ids
  Prompts,         \* encoded prompts
  Pick(_, _, _),   \* the id sampled after a rolling hash, index and draw
  MaxTokens,       \* values of max_tokens
  ContextLengths,  \* values of the model's context_length
  KvFloor,         \* least KV capacity: 128 in the code
  MaxDepth         \* bound: nesting of calls made from callbacks

ASSUME PromptsAssumption == Prompts \subseteq Seq(Token)
ASSUME SizesAssumption ==
  MaxTokens \subseteq Nat /\ ContextLengths \subseteq Nat /\ KvFloor \in Nat
ASSUME DepthAssumption == MaxDepth \in Nat

NoSession == [live |-> FALSE]

VARIABLES
  model,     \* format, context_length, and whether it has MTP heads
  config,    \* the GenerationConfig the client passes everywhere
  session,   \* the sessions, by depth
  frames,    \* the generate_stream calls in progress, innermost last
  outcome    \* how the last call ended

vars == <<model, config, session, frames, outcome>>

Models  == [format : {"manifest", "gguf"}, context : ContextLengths, heads : BOOLEAN]
Configs == [maxTokens : MaxTokens, mode : {"off", "mtp", "draft_model"},
            draftMax : {0, 2}, draftPath : BOOLEAN, strict : BOOLEAN]

Init ==
  /\ model \in Models
  /\ model.heads => model.format = "gguf"   \* load_manifest never sets mtp
  /\ config \in Configs
  /\ session = [d \in 0 .. MaxDepth |-> NoSession]
  /\ frames = <<>>
  /\ outcome = "none"

-----------------------------------------------------------------------------
(* KVCache and the InferenceSession constructor. *)

Capacity == IF model.context > KvFloor THEN model.context ELSE KvFloor

\* Mutant of SlotFree: an off-by-one in append_slot.
SlotFree_OffByOne(s) == s.used <= Capacity

\* append_slot finds a slot.
SlotFree(s) == s.used < Capacity

\* Why speculation is not active: the first unmet condition.
FallbackReason ==
  CASE config.mode = "off" -> "none"
    [] config.mode # "off" /\ config.draftMax = 0 -> "no_draft_max"
    [] config.mode = "mtp" /\ config.draftMax > 0 /\ ~model.heads -> "no_heads"
    [] config.mode = "mtp" /\ config.draftMax > 0 /\ model.heads -> "unwired"
    [] config.mode = "draft_model" /\ config.draftMax > 0 /\ ~config.draftPath ->
         "no_draft_model"
    [] OTHER -> "unwired"

\* Mutant of ConstructorThrows: strict is forgotten.
ConstructorThrows_NotStrict == FALSE

\* strict turns any fallback into an exception from the constructor.
ConstructorThrows == config.strict /\ config.mode # "off"

NewSession == [live |-> TRUE, used |-> 0, requested |-> config.mode,
               active |-> FALSE, reason |-> FallbackReason]

Depth   == Len(frames)
Top     == frames[Depth]

\* A call may start from outside, or once from each token callback.
MayCall ==
  /\ Depth < MaxDepth
  /\ frames # <<>> => Top.pending /\ ~Top.nested

\* The caller, if it is a callback, has made its nested call.
Caller == IF frames = <<>> THEN frames ELSE [frames EXCEPT ![Depth].nested = TRUE]

\* A generate_stream activation: the hash and the Sampler start afresh.
NewFrame(s, p, cb) ==
  [session |-> s, callback |-> cb, prompt |-> p, i |-> 0, rolling |-> p,
   draws |-> 0, out |-> <<>>, pending |-> FALSE, nested |-> FALSE]

Construct ==
  /\ frames = <<>>
  /\ ~session[0].live
  /\ IF ConstructorThrows
       THEN outcome' = "failed" /\ UNCHANGED session
       ELSE session' = [session EXCEPT ![0] = NewSession] /\ UNCHANGED outcome
  /\ UNCHANGED <<model, config, frames>>

Destroy ==
  /\ frames = <<>>
  /\ session[0].live
  /\ session' = [session EXCEPT ![0] = NoSession]
  /\ UNCHANGED <<model, config, frames, outcome>>

-----------------------------------------------------------------------------
(* Calls. *)

\* Mutant of SessionCall: the sampler of the last call is used again.
SessionCall_OldSampler(p, cb) ==
  /\ MayCall
  /\ session[0].live
  /\ frames' = Append(Caller, [NewFrame(0, p, cb) EXCEPT !.draws = session[0].used])
  /\ outcome' = "none"
  /\ UNCHANGED <<model, config, session>>

\* InferenceSession::generate_stream, with a callback, or generate, whose own
\* callback only collects text; neither looks at the model's format.
SessionCall(p, cb) ==
  /\ MayCall
  /\ session[0].live
  /\ frames' = Append(Caller, NewFrame(0, p, cb))
  /\ outcome' = "none"
  /\ UNCHANGED <<model, config, session>>

\* Engine: every GGUF model goes to greedy_decode_real, which always throws.
EngineRefuses ==
  /\ MayCall
  /\ model.format = "gguf"
  /\ frames' = Caller
  /\ outcome' = "refused"
  /\ UNCHANGED <<model, config, session>>

\* Mutant of EngineCall: the call runs on the client's session if there is one.
EngineCall_Shares(p, cb) ==
  /\ MayCall
  /\ model.format = "manifest"
  /\ ~ConstructorThrows
  /\ session' = [session EXCEPT ![Depth + 1] =
                   IF session[0].live THEN session[0] ELSE NewSession]
  /\ frames' = Append(Caller, NewFrame(Depth + 1, p, cb))
  /\ outcome' = "none"
  /\ UNCHANGED <<model, config>>

\* Engine: a manifest model gets a session of its own for the call.
EngineCall(p, cb) ==
  /\ MayCall
  /\ model.format = "manifest"
  /\ IF ConstructorThrows
       THEN frames' = Caller /\ outcome' = "failed" /\ UNCHANGED session
       ELSE /\ session' = [session EXCEPT ![Depth + 1] = NewSession]
            /\ frames' = Append(Caller, NewFrame(Depth + 1, p, cb))
            /\ outcome' = "none"
  /\ UNCHANGED <<model, config>>

\* The innermost call ends; Engine's temporary session goes with it.
Leave(how) ==
  /\ session' = IF Top.session = 0 THEN session
                ELSE [session EXCEPT ![Top.session] = NoSession]
  /\ frames' = SubSeq(frames, 1, Depth - 1)
  /\ outcome' = how
  /\ UNCHANGED <<model, config>>

-----------------------------------------------------------------------------
(* The token loop of generate_stream. *)

Running == frames # <<>> /\ ~Top.pending

LoopEnds ==
  /\ Running
  /\ Top.i >= config.maxTokens
  /\ Leave("done")

\* Mutant of NoSlot: a full cache is waited for.
NoSlot_Waits ==
  /\ Running
  /\ Top.i < config.maxTokens
  /\ ~SlotFree(session[Top.session])
  /\ UNCHANGED vars

NoSlot ==
  /\ Running
  /\ Top.i < config.maxTokens
  /\ ~SlotFree(session[Top.session])
  /\ Leave("exhausted")

Sample ==
  /\ Running
  /\ Top.i < config.maxTokens
  /\ SlotFree(session[Top.session])
  /\ LET id == Pick(Top.rolling, Top.i, Top.draws)
     IN  frames' = [frames EXCEPT ![Depth].rolling = Append(@, id),
                                  ![Depth].draws   = @ + 1,
                                  ![Depth].out     = Append(@, id),
                                  ![Depth].pending = TRUE]
  /\ session' = [session EXCEPT ![Top.session].used = @ + 1]
  /\ UNCHANGED <<model, config, outcome>>

\* The callback goes on, stops the loop, or throws; a nested call that failed
\* may have been caught by it or may be passed on.
Answer(what) ==
  /\ frames # <<>>
  /\ Top.pending
  /\ Top.callback = "collect" => what = "go"
  /\ \/ /\ what = "go"
        /\ frames' = [frames EXCEPT ![Depth].pending = FALSE,
                                    ![Depth].nested  = FALSE,
                                    ![Depth].i       = @ + 1]
        /\ UNCHANGED <<model, config, session, outcome>>
     \/ what = "stop"  /\ Leave("stopped")
     \/ what = "throw" /\ Leave("failed")

-----------------------------------------------------------------------------
Callbacks == {"collect", "client"}

Start ==
  \/ Construct
  \/ Destroy
  \/ \E p \in Prompts, cb \in Callbacks : SessionCall(p, cb)
  \/ EngineRefuses
  \/ \E p \in Prompts, cb \in Callbacks : EngineCall(p, cb)

Work ==
  \/ LoopEnds
  \/ NoSlot
  \/ Sample
  \/ \E what \in {"go", "stop", "throw"} : Answer(what)

Next == Start \/ Work

\* Calls run on the client's thread, and callbacks answer.
Spec == Init /\ [][Next]_vars /\ WF_vars(Work)

-----------------------------------------------------------------------------
(* Properties. *)

Sessions == [live : {TRUE}, used : 0 .. Capacity,
             requested : {"off", "mtp", "draft_model"}, active : BOOLEAN,
             reason : {"none", "no_draft_max", "no_heads", "no_draft_model", "unwired"}]

Frames == [session : 0 .. MaxDepth, callback : Callbacks, prompt : Prompts,
           i : Nat, rolling : Seq(Token), draws : Nat, out : Seq(Token),
           pending : BOOLEAN, nested : BOOLEAN]

\* No KV cache ever holds more slots than it has.
TypeOK ==
  /\ model \in Models
  /\ config \in Configs
  /\ session \in [0 .. MaxDepth -> Sessions \cup {NoSession}]
  /\ frames \in Seq(Frames)
  /\ Depth <= MaxDepth
  /\ \A d \in 1 .. Depth : session[frames[d].session].live
  /\ outcome \in {"none", "done", "exhausted", "stopped", "failed", "refused"}

\* Generation is reproducible: what a call emits depends on its prompt alone,
\* not on earlier calls of a reused session or on calls its callbacks nest in it.
Reproducible ==
  \A d \in 1 .. Depth :
    LET f == frames[d]
    IN  \A k \in 1 .. Len(f.out) :
          f.out[k] = Pick(f.prompt \o SubSeq(f.out, 1, k - 1), k - 1, k - 1)

\* The slots of a session pay for the tokens of every call nested on it at
\* once, and an Engine call pays only for its own.
CallsOn(s) == {d \in 1 .. Depth : frames[d].session = s}
EventsOn(s) ==
  Cardinality(UNION {{d} \X (1 .. Len(frames[d].out)) : d \in CallsOn(s)})

SlotsPaid ==
  \A s \in 0 .. MaxDepth :
    session[s].live =>
      /\ EventsOn(s) <= session[s].used
      /\ s > 0 => session[s].used = EventsOn(s)

\* Speculation is never claimed: a session that asked for it says why it does
\* not have it, truthfully, and a strict one is never constructed.
FallbackHonest ==
  \A s \in 0 .. MaxDepth :
    session[s].live =>
      /\ ~session[s].active
      /\ (session[s].requested # "off") = (session[s].reason # "none")
      /\ session[s].reason = "no_heads" => ~model.heads
      /\ config.strict => session[s].requested = "off"

\* Every call comes back once its callbacks answer.
CallsReturn == (frames # <<>>) ~> (frames = <<>>)

-----------------------------------------------------------------------------
(* What documents say of the program, and the code does not do. *)

\* docs/real_executor.md: a GGUF model that no executor supports fails instead
\* of generating synthetic text.
GgufNeverSynthetic ==
  model.format = "gguf" => \A d \in 1 .. Depth : frames[d].out = <<>>
=============================================================================
