---------------------------------- MODULE Cli ----------------------------------
(***************************************************************************)
(* The command line program (apps/cpullm-cli.cpp): options are read from   *)
(* left to right, then main loads the model, applies the residency policy  *)
(* (src/residency.cpp) and checks, inspects or generates, and exits.       *)
(*                                                                         *)
(* The words of a command line are chosen as they are read.  One option    *)
(* stands for its aliases, and "-n" for every option that takes a number.  *)
(***************************************************************************)
EXTENDS Plan, Sequences, FiniteSetsExt

CONSTANTS
  Word,      \* words of a command line
  GgufPath,  \* those that end in ".gguf"
  Dashed,    \* those that begin with a dash
  Number,    \* those std::stoull takes
  File,      \* what a path may lead to
  MaxWords   \* bound: length of a command line

ASSUME WordAssumption == GgufPath \subseteq Word /\ Dashed \subseteq Word /\ Number \subseteq Word
ASSUME FileAssumption ==
  \A f \in File :
    /\ f.kind \in {"gguf", "manifest"}
    /\ f.kind = "gguf" => {"kind", "architecture", "mtpKey", "counts", "tokens", "merges",
                           "tensors", "dtype"} \subseteq DOMAIN f
ASSUME LengthAssumption == MaxWords \in Nat

Flags == {"--help", "--version", "--stream", "--inspect", "--check", "--dump-plan",
          "--list-architectures", "--spec-strict"}
Options == {"-m", "-p", "-n", "--accel", "--spec-type", "--draft-model"}

Profiles  == {"off", "balanced", "turbo"}
SpecModes == [off |-> "off", mtp |-> "mtp", draft |-> "draft_model"]

NoFile == [kind |-> "none"]
NoPlan == [layers |-> 0]

VARIABLES
  pc,          \* "args", "main", "loaded", "ready", "exit"
  awaiting,    \* the option whose value comes next, or "none"
  flags,       \* the flags seen
  value,       \* the value of every option, "" if none
  mode,        \* speculative.mode
  positional,  \* the words that belong to no option
  file,        \* what was loaded
  residency,   \* what apply_residency_policy did
  plan,        \* the plan printed
  generated,   \* were tokens generated?
  status,      \* exit status
  read         \* history: options and their values in the order read

options == <<awaiting, flags, value, mode, positional, read>>
results == <<file, residency, plan, generated>>
vars    == <<pc, options, results, status>>

Init ==
  /\ pc = "args" /\ awaiting = "none"
  /\ flags = {} /\ positional = <<>>
  /\ value = [o \in Options |-> IF o = "--accel" THEN "off" ELSE ""]
  /\ mode = "off"
  /\ file = NoFile /\ residency = "none" /\ plan = NoPlan
  /\ generated = FALSE
  /\ status = -1
  /\ read = <<>>

Exit(code) == pc' = "exit" /\ status' = code

-----------------------------------------------------------------------------
(* parse_args *)

WordsRead == Cardinality(flags) + 2 * Len(read) + Len(positional)

Reading(w) == pc = "args" /\ awaiting = "none" /\ w \in Word /\ WordsRead < MaxWords

Flag(w) ==
  /\ Reading(w)
  /\ w \in Flags
  /\ flags' = flags \cup {w}
  /\ UNCHANGED <<pc, awaiting, value, mode, positional, read, results, status>>

Option(w) ==
  /\ Reading(w)
  /\ w \in Options
  /\ awaiting' = w
  /\ UNCHANGED <<pc, flags, value, mode, positional, read, results, status>>

\* Any other option is ignored, and a word after it is a positional one.
Ignored(w) ==
  /\ Reading(w)
  /\ w \in Dashed \ (Flags \cup Options)
  /\ UNCHANGED vars

Positional(w) ==
  /\ Reading(w)
  /\ w \notin Dashed
  /\ positional' = Append(positional, w)
  /\ UNCHANGED <<pc, awaiting, flags, value, mode, read, results, status>>

\* Mutant of Accepts: any acceleration profile is taken.
Accepts_AnyProfile(o, w) ==
  CASE o = "--spec-type" -> w \in DOMAIN SpecModes
    [] o = "-n"          -> w \in Number
    [] OTHER             -> TRUE

\* What the option's conversion accepts.
Accepts(o, w) ==
  CASE o = "--accel"     -> w \in Profiles
    [] o = "--spec-type" -> w \in DOMAIN SpecModes
    [] o = "-n"          -> w \in Number
    [] OTHER             -> TRUE

\* Mutant of NewMode: a draft model does not ask for speculation.
NewMode_NeedsType(o, w) == IF o = "--spec-type" THEN SpecModes[w] ELSE mode

\* --spec-type says the mode, --draft-model only when none is on.
NewMode(o, w) ==
  IF o = "--spec-type" THEN SpecModes[w]
  ELSE IF o = "--draft-model" /\ mode = "off" THEN "draft_model"
  ELSE mode

\* The word after an option is its value, whatever it looks like.
Value(w) ==
  /\ pc = "args" /\ awaiting # "none"
  /\ w \in Word
  /\ Accepts(awaiting, w)
  /\ value' = [value EXCEPT ![awaiting] = w]
  /\ mode' = NewMode(awaiting, w)
  /\ read' = Append(read, [option |-> awaiting, word |-> w])
  /\ awaiting' = "none"
  /\ UNCHANGED <<pc, flags, positional, results, status>>

\* An unsupported --spec-type is a usage error, other values throw.
BadValue(w) ==
  /\ pc = "args" /\ awaiting # "none"
  /\ w \in Word
  /\ ~Accepts(awaiting, w)
  /\ Exit(IF awaiting = "--spec-type" THEN 2 ELSE 1)
  /\ UNCHANGED <<options, results>>

MissingValue ==
  /\ pc = "args" /\ awaiting # "none"
  /\ Exit(2)
  /\ UNCHANGED <<options, results>>

\* Model and prompt fall back to the first and the second positional word.
EndOfArgs ==
  /\ pc = "args" /\ awaiting = "none"
  /\ pc' = "main"
  /\ value' = [value EXCEPT
       !["-m"] = IF @ = "" /\ Len(positional) > 0 THEN positional[1] ELSE @,
       !["-p"] = IF @ = "" /\ Len(positional) > 1 THEN positional[2] ELSE @]
  /\ UNCHANGED <<awaiting, flags, mode, positional, read, results, status>>

-----------------------------------------------------------------------------
(* main *)

Asked(w) == w \in flags

\* What main prints without a model.
Information ==
  /\ pc = "main"
  /\ Asked("--list-architectures") \/ Asked("--version") \/ Asked("--help")
  /\ Exit(0)
  /\ UNCHANGED <<options, results>>

NeedsModel ==
  /\ pc = "main"
  /\ flags \cap {"--list-architectures", "--version", "--help"} = {}

Usage ==
  /\ NeedsModel
  /\ value["-m"] = ""
  /\ Exit(2)
  /\ UNCHANGED <<options, results>>

\* Model::load; the suffix of the path decides how the file is read, and a file
\* with a number that is too long does not load.
LoadModel ==
  /\ NeedsModel
  /\ value["-m"] # ""
  /\ file' \in {f \in File : (f.kind = "gguf") = (value["-m"] \in GgufPath) /\ Readable(f)}
  /\ pc' = "loaded"
  /\ UNCHANGED <<options, residency, plan, generated, status>>

LoadThrows ==
  /\ NeedsModel
  /\ value["-m"] # ""
  /\ Exit(1)
  /\ UNCHANGED <<options, results>>

ApplyResidency ==
  /\ pc = "loaded"
  /\ residency' = IF file.kind # "gguf" \/ value["--accel"] = "off" THEN "skipped"
                  ELSE IF value["--accel"] = "turbo" THEN "touched" ELSE "advised"
  /\ pc' = "ready"
  /\ UNCHANGED <<options, file, plan, generated, status>>

Checking == Asked("--check") \/ Asked("--dump-plan")

\* Mutant of Check: the report is printed and the program succeeds.
Check_Succeeds ==
  /\ pc = "ready"
  /\ Checking
  /\ plan' = BuildPlan(file)
  /\ Exit(0)
  /\ UNCHANGED <<options, file, residency, generated>>

Check ==
  /\ pc = "ready"
  /\ Checking
  /\ plan' = BuildPlan(file)
  /\ Exit(IF plan'.runnable THEN 0 ELSE 3)
  /\ UNCHANGED <<options, file, residency, generated>>

Inspect ==
  /\ pc = "ready"
  /\ ~Checking
  /\ Asked("--inspect")
  /\ Exit(0)
  /\ UNCHANGED <<options, results>>

\* Engine refuses a GGUF model, and its session a speculation that is strict.
Refuses == file.kind = "gguf" \/ (Asked("--spec-strict") /\ mode # "off")

\* Mutant of Generate: a failed generation exits like one that succeeded.
Generate_Status ==
  /\ pc = "ready"
  /\ ~Checking /\ ~Asked("--inspect")
  /\ generated' = ~Refuses
  /\ Exit(0)
  /\ UNCHANGED <<options, file, residency, plan>>

Generate ==
  /\ pc = "ready"
  /\ ~Checking /\ ~Asked("--inspect")
  /\ generated' = ~Refuses
  /\ Exit(IF Refuses THEN 1 ELSE 0)
  /\ UNCHANGED <<options, file, residency, plan>>

-----------------------------------------------------------------------------
Main ==
  \/ Information \/ Usage \/ LoadModel \/ LoadThrows \/ ApplyResidency
  \/ Check \/ Inspect \/ Generate

Parse ==
  \/ \E w \in Word : Flag(w) \/ Option(w) \/ Ignored(w) \/ Positional(w)
  \/ \E w \in Word : Value(w) \/ BadValue(w)
  \/ MissingValue \/ EndOfArgs

Next == Parse \/ Main

Spec == Init /\ [][Next]_vars

-----------------------------------------------------------------------------
(* Properties. *)

\* The values of options; "off" is the acceleration profile if none is named.
Values == Word \cup {"", "off"}

TypeOK ==
  /\ pc \in {"args", "main", "loaded", "ready", "exit"}
  /\ awaiting \in Options \cup {"none"}
  /\ flags \subseteq Flags
  /\ value \in [Options -> Values]
  /\ value["--accel"] \in Profiles
  /\ mode \in {"off", "mtp", "draft_model"}
  /\ positional \in Seq(Word)
  /\ file \in File \cup {NoFile}
  /\ residency \in {"none", "skipped", "advised", "touched"}
  /\ generated \in BOOLEAN
  /\ status \in {-1, 0, 1, 2, 3}
  /\ read \in Seq([option : Options, word : Word])

\* The speculative mode as the options, in their order, declare it: the last
\* --spec-type, unless it is "off" (or absent) and a --draft-model follows.
At(o) == {k \in 1 .. Len(read) : read[k].option = o}

ModeDeclared ==
  LET last == Max(At("--spec-type") \cup {0})
      type == IF last = 0 THEN "off" ELSE SpecModes[read[last].word]
  IN  mode = IF type = "off" /\ (\E k \in At("--draft-model") : k > last)
               THEN "draft_model" ELSE type

\* The exit status tells scripts the truth.  --check exits 3 if the plan of the
\* model has issues and 0 only if it has none, as docs/production_readiness.md
\* has it: a model is never passed because it was not looked at.  Otherwise 0
\* says that what was asked for was printed, or that tokens were generated,
\* from a manifest; and 2 that no model was loaded.
StatusTrue ==
  /\ status = 3 <=> plan # NoPlan /\ plan.issues # {}
  /\ status = 3 => Checking
  /\ status = 2 => file = NoFile
  /\ status = 0 =>
       IF file = NoFile
         THEN flags \cap {"--list-architectures", "--version", "--help"} # {}
       ELSE IF Checking THEN plan # NoPlan /\ plan.issues = {}
       ELSE Asked("--inspect") \/ generated
  /\ generated => status = 0 /\ file.kind = "manifest" /\ ~Checking

\* The planner does not make a model appear runnable that generation refuses.
NoMock == plan # NoPlan /\ plan.runnable => ~Refuses

\* A tensor less never hides an issue, but for what is reported of its own data
\* type: of the tensors that can stand for each other none is forgotten.
IssuesGrow ==
  plan # NoPlan /\ file.kind = "gguf" =>
    \A t \in file.tensors :
      plan.issues \subseteq Issues([file EXCEPT !.tensors = @ \ {t}])
                            \cup KernelIssues({file.dtype[t]})

-----------------------------------------------------------------------------
(* What documents say of the program, and the code does not do. *)

\* "It lets cpullm report whether a model is blocked by: ... missing tensor
\* names" (docs/architecture_registry.md:36-40): a layer that the file declares
\* and whose attention output is missing is reported, if its architecture has
\* a profile (and is not the reserved cpullm_tiny) and the number of layers
\* fits 32 bits.
MissingTensorsReported ==
  /\ plan # NoPlan /\ file.kind = "gguf" /\ plan.recognized
  /\ file.architecture # "cpullm_tiny"
  /\ file.counts[<<file.architecture, "block_count">>] < UInt32
  =>
    \A l \in 0 .. file.counts[<<file.architecture, "block_count">>] - 1 :
      \/ <<l, "attn_output.weight">> \in file.tensors
      \/ <<"tensor.attention_output.missing", l>> \in plan.issues
=============================================================================
