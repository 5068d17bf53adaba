------------------------------ MODULE Cli_proofs ------------------------------
(***************************************************************************)
(* Proofs about the command line program and the planner: the planner      *)
(* finds an issue in every file, so it never calls a model runnable that   *)
(* generation refuses; a tensor less hides no issue but one of its own     *)
(* data type; the exit status tells the truth; and the speculative mode is *)
(* what the options declare.                                               *)
(***************************************************************************)
EXTENDS Cli, SequenceTheorems, TLAPS

\* Every branch of build_execution_plan finds something wrong.
LEMMA ArchitectureIssuesNonempty ==
  ASSUME NEW model, NEW f
  PROVE  ArchitectureIssues(model, f) # {}
  BY DEF ArchitectureIssues

LEMMA IssuesNonempty ==
  ASSUME NEW f
  PROVE  Issues(f) # {}
<1>1. CASE f.kind = "manifest"
  BY <1>1 DEF Issues
<1>2. CASE f.kind # "manifest"
  <2>1. ArchitectureIssues(LoadGguf(f), f) \subseteq Issues(f)
    BY <1>2 DEF Issues
  <2> QED BY <2>1, ArchitectureIssuesNonempty
<1> QED BY <1>1, <1>2

LEMMA PlanBlocked ==
  ASSUME NEW f
  PROVE  /\ BuildPlan(f) # NoPlan
         /\ BuildPlan(f).issues # {}
         /\ ~BuildPlan(f).runnable
<1>1. "runnable" \in DOMAIN BuildPlan(f) /\ "runnable" \notin DOMAIN NoPlan
  BY DEF BuildPlan, NoPlan
<1>2. BuildPlan(f) # NoPlan
  BY <1>1
<1>3. BuildPlan(f).issues = Issues(f)
  BY DEF BuildPlan
<1>4. BuildPlan(f).runnable = (f.kind = "gguf" /\ Issues(f) = {})
  BY DEF BuildPlan
<1> QED BY <1>2, <1>3, <1>4, IssuesNonempty

-----------------------------------------------------------------------------
\* Nothing is known before it was done: no status before the exit, no file
\* before one is loaded, which is not the lack of one, and the only plan is the
\* one built from it.
Staged ==
  /\ pc # "exit" => status = -1 /\ plan = NoPlan /\ generated = FALSE
  /\ pc \in {"args", "main"} => file = NoFile
  /\ pc \in {"loaded", "ready"} => file \in File
  /\ plan # NoPlan => file \in File /\ plan = BuildPlan(file)

\* What main prints without a model.
Informed == flags \cap {"--list-architectures", "--version", "--help"} # {}

LEMMA FileIsLoaded ==
  ASSUME NEW f \in File
  PROVE  f # NoFile /\ (f.kind = "gguf" \/ f.kind = "manifest")
<1>1. f.kind = "gguf" \/ f.kind = "manifest"
  BY FileAssumption
<1>2. NoFile.kind = "none"
  BY DEF NoFile
<1> QED BY <1>1, <1>2

IInv == Staged /\ StatusTrue

LEMMA InitHolds == Init => IInv
<1> SUFFICES ASSUME Init PROVE IInv
  OBVIOUS
<1>1. /\ pc = "args" /\ status = -1 /\ plan = NoPlan /\ file = NoFile
      /\ generated = FALSE
  BY DEF Init
<1>2. Staged
  BY <1>1 DEF Staged
<1>3. status # 0 /\ status # 2 /\ status # 3
  BY <1>1
<1>4. StatusTrue
  BY <1>1, <1>3, Zenon DEF StatusTrue
<1> QED BY <1>2, <1>4 DEF IInv

\* An exit without a plan being built or a token generated.
LEMMA ExitKeeps ==
  ASSUME IInv, NEW code, Exit(code), UNCHANGED <<options, results>>, pc # "exit",
         code = 2 => file = NoFile,
         code # 3,
         code = 0 => IF file = NoFile THEN Informed ELSE ~Checking /\ Asked("--inspect")
  PROVE  IInv'
<1>1. UNCHANGED <<flags, file, plan, generated>> /\ status' = code /\ pc' = "exit"
  BY DEF Exit, options, results
<1>2. plan = NoPlan /\ generated = FALSE
  BY DEF IInv, Staged
<1>3. Staged'
  BY <1>1, <1>2 DEF Staged
<1>4. StatusTrue'
  BY <1>1, <1>2 DEF StatusTrue, Informed, Checking, Asked
<1> QED BY <1>3, <1>4 DEF IInv

LEMMA ParseKeeps ==
  ASSUME IInv, Parse
  PROVE  IInv'
<1>1. ASSUME NEW w \in Word, Flag(w) \/ Option(w) \/ Ignored(w) \/ Positional(w)
      PROVE  pc = "args" /\ UNCHANGED <<pc, results, status>>
  BY <1>1 DEF Flag, Option, Ignored, Positional, Reading, vars, results
<1>2. ASSUME NEW w \in Word, Value(w)
      PROVE  pc = "args" /\ UNCHANGED <<pc, results, status>>
  BY <1>2 DEF Value
<1>3. CASE pc = "args" /\ UNCHANGED <<pc, results, status>>
  BY <1>3 DEF IInv, Staged, StatusTrue, results, NoFile, NoPlan
<1>4. ASSUME NEW w \in Word, BadValue(w)
      PROVE  IInv'
  <2>1. PICK code \in {1, 2} : Exit(code)
    BY <1>4 DEF BadValue
  <2>2. pc = "args" /\ file = NoFile
    BY <1>4 DEF BadValue, IInv, Staged
  <2> QED BY <1>4, <2>1, <2>2, ExitKeeps DEF BadValue
<1>5. ASSUME MissingValue
      PROVE  IInv'
  <2>1. pc = "args" /\ file = NoFile
    BY <1>5 DEF MissingValue, IInv, Staged
  <2> QED BY <1>5, <2>1, ExitKeeps DEF MissingValue
<1>6. ASSUME EndOfArgs
      PROVE  IInv'
  BY <1>6 DEF EndOfArgs, IInv, Staged, StatusTrue, results, Checking, Asked
<1> QED BY <1>1, <1>2, <1>3, <1>4, <1>5, <1>6 DEF Parse

LEMMA MainKeeps ==
  ASSUME IInv, Main
  PROVE  IInv'
<1>1. ASSUME Information PROVE IInv'
  <2>1. Informed /\ pc = "main" /\ file = NoFile
    BY <1>1 DEF Information, Informed, Asked, IInv, Staged
  <2> QED BY <1>1, <2>1, ExitKeeps DEF Information
<1>2. ASSUME Usage PROVE IInv'
  <2>1. pc = "main" /\ file = NoFile
    BY <1>2 DEF Usage, NeedsModel, IInv, Staged
  <2>2. pc # "exit" /\ 2 # 3 /\ 2 # 0
    BY <2>1
  <2> QED BY <1>2, <2>1, <2>2, ExitKeeps, Zenon DEF Usage
<1>3. ASSUME LoadModel PROVE IInv'
  <2>1. status = -1 /\ plan = NoPlan /\ generated = FALSE
    BY <1>3 DEF LoadModel, NeedsModel, IInv, Staged
  <2>2. /\ pc' = "loaded" /\ file' \in File
        /\ status' = -1 /\ plan' = NoPlan /\ generated' = FALSE
    BY <1>3, <2>1 DEF LoadModel
  <2>3. Staged'
    BY <2>2 DEF Staged
  <2> QED BY <2>2, <2>3 DEF IInv, StatusTrue
<1>4. ASSUME LoadThrows PROVE IInv'
  <2>1. pc = "main"
    BY <1>4 DEF LoadThrows, NeedsModel
  <2>2. pc # "exit" /\ 1 # 2 /\ 1 # 3 /\ 1 # 0
    BY <2>1
  <2> QED BY <1>4, <2>1, <2>2, ExitKeeps, Zenon DEF LoadThrows
<1>5. ASSUME ApplyResidency PROVE IInv'
  BY <1>5 DEF ApplyResidency, IInv, Staged, StatusTrue, options, Checking, Asked
<1>6. ASSUME Check PROVE IInv'
  <2>1. /\ plan' = BuildPlan(file) /\ file' = file /\ generated' = FALSE /\ flags' = flags
        /\ file \in File
    BY <1>6 DEF Check, IInv, Staged, options
  <2>2. pc' = "exit" /\ status' = 3
    BY <1>6, <2>1, PlanBlocked DEF Check, Exit
  <2>3. Checking'
    BY <1>6, <2>1 DEF Check, Checking, Asked
  <2>4. plan' # NoPlan /\ plan'.issues # {}
    BY <2>1, PlanBlocked
  <2> QED BY <2>1, <2>2, <2>3, <2>4 DEF IInv, Staged, StatusTrue
<1>7. ASSUME Inspect PROVE IInv'
  <2>1. pc = "ready" /\ file # NoFile /\ ~Checking /\ Asked("--inspect")
    BY <1>7, FileIsLoaded DEF Inspect, IInv, Staged
  <2> QED BY <1>7, <2>1, ExitKeeps DEF Inspect
<1>8. ASSUME Generate PROVE IInv'
  <2>1. /\ file \in File /\ plan = NoPlan /\ ~Checking
        /\ UNCHANGED <<flags, file, plan>>
    BY <1>8 DEF Generate, IInv, Staged, options
  <2>2. file # NoFile /\ (file.kind # "gguf" => file.kind = "manifest")
    BY <2>1, FileIsLoaded
  <2>3. /\ pc' = "exit"
        /\ generated' = ~Refuses
        /\ status' = IF Refuses THEN 1 ELSE 0
    BY <1>8 DEF Generate, Exit
  <2>4. Staged'
    BY <2>1, <2>3 DEF Staged
  <2>5. ~Checking'
    BY <2>1 DEF Checking, Asked
  <2>6. CASE Refuses
    <3>1. ~generated' /\ status' = 1
      BY <2>3, <2>6
    <3> QED BY <2>1, <2>4, <3>1 DEF IInv, StatusTrue
  <2>7. CASE ~Refuses
    <3>1. generated' /\ status' = 0
      BY <2>3, <2>7
    <3>2. file'.kind = "manifest" /\ file' # NoFile
      BY <2>1, <2>2, <2>7 DEF Refuses
    <3> QED BY <2>1, <2>4, <2>5, <3>1, <3>2 DEF IInv, StatusTrue
  <2> QED BY <2>6, <2>7
<1> QED BY <1>1, <1>2, <1>3, <1>4, <1>5, <1>6, <1>7, <1>8 DEF Main

LEMMA Inductive == IInv /\ [Next]_vars => IInv'
<1> SUFFICES ASSUME IInv, [Next]_vars PROVE IInv'
  OBVIOUS
<1>1. CASE Parse
  BY <1>1, ParseKeeps
<1>2. CASE Main
  BY <1>2, MainKeeps
<1>3. CASE UNCHANGED vars
  BY <1>3 DEF vars, options, results, IInv, Staged, StatusTrue, Checking, Asked
<1> QED BY <1>1, <1>2, <1>3 DEF Next

-----------------------------------------------------------------------------
\* The exit status of the program (main of apps/cpullm-cli.cpp) tells scripts
\* the truth, for every command line and every file: --check exits 0 only for a
\* model without issues and 3 for one with issues.
THEOREM ExitStatus == Spec => []StatusTrue
<1>1. IInv => StatusTrue
  BY DEF IInv
<1> QED BY <1>1, InitHolds, Inductive, PTL DEF Spec

\* The planner (src/plan.cpp) calls no model runnable that generation refuses,
\* whatever the profile registry and the file contain: it calls none runnable.
THEOREM NeverMocks == Spec => []NoMock
<1>1. IInv => NoMock
  BY PlanBlocked DEF IInv, Staged, NoMock
<1> QED BY <1>1, InitHolds, Inductive, PTL DEF Spec
-----------------------------------------------------------------------------
(* What the options declare. *)

\* The history of options is a sequence, and --spec-type had a value it takes.
Declared ==
  /\ read \in Seq([option : Options, word : Word])
  /\ \A k \in 1 .. Len(read) :
       read[k].option = "--spec-type" => read[k].word \in DOMAIN SpecModes

\* The last of a set of positions.
IsLast(m, S) == m \in S /\ \A k \in S : k <= m

\* ModeDeclared with the last --spec-type named.
ModeIs ==
  \E last \in 0 .. Len(read) :
    /\ IsLast(last, At("--spec-type") \cup {0})
    /\ mode = IF (last = 0 \/ read[last].word = "off")
                   /\ \E k \in At("--draft-model") : k > last
                THEN "draft_model"
              ELSE IF last = 0 THEN "off" ELSE SpecModes[read[last].word]

LEMMA LastIsMax ==
  ASSUME NEW S, S \subseteq Int, NEW m \in S, IsLast(m, S)
  PROVE  Max(S) = m
<1>1. \E x \in S : \A y \in S : x >= y
  BY DEF IsLast
<1>2. Max(S) \in S /\ \A y \in S : Max(S) >= y
  BY <1>1 DEF Max
<1>3. Max(S) <= m /\ m <= Max(S) /\ Max(S) \in Int /\ m \in Int
  BY <1>2 DEF IsLast
<1> QED  BY <1>3

LEMMA SpecModesValues ==
  /\ DOMAIN SpecModes = {"off", "mtp", "draft"}
  /\ SpecModes["off"] = "off" /\ SpecModes["mtp"] = "mtp"
  /\ SpecModes["draft"] = "draft_model"
  BY DEF SpecModes

LEMMA ModeIsDeclared ==
  ASSUME Declared, ModeIs
  PROVE  ModeDeclared
<1>1. PICK last \in 0 .. Len(read) :
        /\ IsLast(last, At("--spec-type") \cup {0})
        /\ mode = IF (last = 0 \/ read[last].word = "off")
                       /\ \E k \in At("--draft-model") : k > last
                    THEN "draft_model"
                  ELSE IF last = 0 THEN "off" ELSE SpecModes[read[last].word]
  BY DEF ModeIs
<1>2. Max(At("--spec-type") \cup {0}) = last
  BY <1>1, LastIsMax DEF At, IsLast
<1>3. last # 0 => read[last].word \in {"off", "mtp", "draft"}
  BY <1>1, SpecModesValues DEF Declared, IsLast, At
<1>4. last # 0 => (SpecModes[read[last].word] = "off" <=> read[last].word = "off")
  BY <1>3, SpecModesValues
<1> QED  BY <1>1, <1>2, <1>4 DEF ModeDeclared
\* Types, and what the options declare, together.
Parsed == TypeOK /\ Declared /\ ModeIs

LEMMA ParsedInit == Init => Parsed
<1> SUFFICES ASSUME Init PROVE Parsed
  OBVIOUS
<1>1. read = <<>> /\ Len(read) = 0 /\ mode = "off"
  BY EmptySeq DEF Init
<1>2. TypeOK
  <2>1. positional \in Seq(Word) /\ read \in Seq([option : Options, word : Word])
    BY EmptySeq DEF Init
  <2>2. value \in [Options -> Values] /\ value["--accel"] \in Profiles
    <3>1. value = [o \in Options |-> IF o = "--accel" THEN "off" ELSE ""]
      BY DEF Init
    <3>2. "" \in Values /\ "off" \in Values
      BY DEF Values
    <3>3. \A o \in Options : (IF o = "--accel" THEN "off" ELSE "") \in Values
      BY <3>2, Zenon
    <3>4. value \in [Options -> Values]
      BY <3>1, <3>3, Zenon
    <3>5. "--accel" \in Options /\ "off" \in Profiles
      BY DEF Options, Profiles
    <3>6. value["--accel"] = "off"
      BY <3>1, <3>5, Zenon
    <3> QED  BY <3>4, <3>5, <3>6
  <2> QED  BY <2>1, <2>2 DEF Init, TypeOK
<1>3. Declared
  <2>1. read \in Seq([option : Options, word : Word])
    BY <1>2 DEF TypeOK
  <2> QED  BY <1>1, <2>1 DEF Declared
<1>4. ModeIs
  BY <1>1 DEF ModeIs, IsLast, At
<1> QED  BY <1>2, <1>3, <1>4 DEF Parsed

\* A step that reads no value keeps what the options declare.
LEMMA UnreadKeeps ==
  ASSUME Parsed, UNCHANGED <<mode, read>>, TypeOK'
  PROVE  Parsed'
<1>1. Declared'
  BY DEF Parsed, Declared
<1>2. ModeIs'
  BY DEF Parsed, ModeIs, At
<1> QED  BY <1>1, <1>2 DEF Parsed

LEMMA ValueKeeps ==
  ASSUME Parsed, NEW w \in Word, Value(w)
  PROVE  Parsed'
<1> DEFINE n == Len(read)
           r == [option |-> awaiting, word |-> w]
<1>1. /\ awaiting \in Options /\ Accepts(awaiting, w) /\ mode' = NewMode(awaiting, w)
      /\ read' = Append(read, r) /\ value' = [value EXCEPT ![awaiting] = w]
      /\ awaiting' = "none"
      /\ UNCHANGED <<pc, flags, positional, file, residency, plan, generated, status>>
  BY DEF Value, Parsed, TypeOK, results
<1>2. /\ read \in Seq([option : Options, word : Word]) /\ n \in Nat
      /\ mode \in {"off", "mtp", "draft_model"}
      /\ value \in [Options -> Values] /\ value["--accel"] \in Profiles
  BY LenProperties DEF Parsed, TypeOK
<1>3. r \in [option : Options, word : Word] /\ r.option = awaiting /\ r.word = w
  BY <1>1
<1> HIDE DEF r
<1>4. /\ read' \in Seq([option : Options, word : Word])
      /\ Len(read') = n + 1 /\ read'[n + 1] = r
      /\ \A k \in 1 .. n : read'[k] = read[k]
  BY <1>1, <1>2, <1>3, AppendProperties
<1> HIDE DEF n
<1>5. \A k \in 1 .. n + 1 : k \in 1 .. n \/ k = n + 1
  BY <1>2
<1>6. awaiting = "--spec-type" => w \in {"off", "mtp", "draft"}
  BY <1>1, SpecModesValues DEF Accepts
<1>7. Declared'
  <2>1. ASSUME NEW k \in 1 .. n + 1, read'[k].option = "--spec-type"
        PROVE  read'[k].word \in DOMAIN SpecModes
    <3>1. CASE k \in 1 .. n
      BY <1>4, <2>1, <3>1 DEF Parsed, Declared, n
    <3>2. CASE k = n + 1
      BY <1>3, <1>4, <1>6, <2>1, <3>2, SpecModesValues
    <3> QED  BY <1>5, <3>1, <3>2
  <2> QED  BY <1>4, <2>1 DEF Declared
<1>8. mode' \in {"off", "mtp", "draft_model"}
  BY <1>1, <1>2, <1>6, SpecModesValues DEF NewMode
<1>9. TypeOK'
  <2>1. value' \in [Options -> Values] /\ value'["--accel"] \in Profiles
    <3>1. awaiting = "--accel" => w \in Profiles
      BY <1>1 DEF Accepts
    <3>2. "--accel" \in Options
      BY DEF Options
    <3>3. w \in Values
      BY DEF Values
    <3> QED  BY <1>1, <1>2, <3>1, <3>2, <3>3
  <2> QED  BY <1>1, <1>4, <1>8, <2>1 DEF Parsed, TypeOK
<1>10. ASSUME NEW o
       PROVE  At(o)' = At(o) \cup (IF o = awaiting THEN {n + 1} ELSE {})
  <2>1. At(o) = {k \in 1 .. n : read[k].option = o}
    BY DEF At, n
  <2>2. At(o)' = {k \in 1 .. n + 1 : read'[k].option = o}
    BY <1>4 DEF At
  <2>3. \A k \in 1 .. n : k \in 1 .. n + 1
    BY <1>2
  <2>4. n + 1 \in 1 .. n + 1 /\ n + 1 \notin 1 .. n
    BY <1>2
  <2> QED  BY <1>3, <1>4, <1>5, <2>1, <2>2, <2>3, <2>4
<1>11. \A o : At(o) \subseteq 1 .. n /\ At(o)' \subseteq 1 .. n + 1
  BY <1>4 DEF At, n
<1>12. PICK last \in 0 .. n :
         /\ IsLast(last, At("--spec-type") \cup {0})
         /\ mode = IF (last = 0 \/ read[last].word = "off")
                        /\ \E k \in At("--draft-model") : k > last
                     THEN "draft_model"
                   ELSE IF last = 0 THEN "off" ELSE SpecModes[read[last].word]
  BY DEF Parsed, ModeIs, n
<1>13. CASE awaiting = "--spec-type"
  <2>1. At("--spec-type")' = At("--spec-type") \cup {n + 1}
    BY <1>10, <1>13
  <2>2. IsLast(n + 1, At("--spec-type")' \cup {0})
    BY <1>2, <1>11, <2>1 DEF IsLast
  <2>3. \A k \in At("--draft-model")' : ~(k > n + 1)
    BY <1>2, <1>11
  <2>4. n + 1 # 0 /\ n + 1 \in 0 .. Len(read')
    BY <1>2, <1>4
  <2>5. read'[n + 1].word = w /\ mode' = SpecModes[w]
    BY <1>1, <1>3, <1>4, <1>13 DEF NewMode
  <2>6. ModeIs'
    BY <2>2, <2>3, <2>4, <2>5 DEF ModeIs, IsLast
  <2> QED  BY <1>7, <1>9, <2>6 DEF Parsed
<1>14. CASE awaiting # "--spec-type"
  <2>1. At("--spec-type")' = At("--spec-type")
    BY <1>10, <1>14
  <2>2. last \in 0 .. Len(read') /\ (last # 0 => read'[last] = read[last])
    BY <1>2, <1>4
  <2>3. last # 0 => read[last].word \in {"off", "mtp", "draft"}
    BY <1>12, SpecModesValues DEF Parsed, Declared, IsLast, At, n
  <2>4. last # 0 => (SpecModes[read[last].word] = "off" <=> read[last].word = "off")
    BY <2>3, SpecModesValues
  <2>5. ASSUME awaiting = "--draft-model"
        PROVE  mode' = IF (last = 0 \/ read'[last].word = "off")
                            /\ \E k \in At("--draft-model")' : k > last
                        THEN "draft_model"
                      ELSE IF last = 0 THEN "off" ELSE SpecModes[read'[last].word]
    <3>1. \E k \in At("--draft-model")' : k > last
      <4>1. n + 1 \in At("--draft-model")'
        BY <1>10, <2>5
      <4>2. n + 1 > last
        BY <1>2
      <4> QED  BY <4>1, <4>2
    <3>2. mode' = IF mode = "off" THEN "draft_model" ELSE mode
      BY <1>1, <2>5 DEF NewMode
    <3>3. mode' = IF last = 0 \/ read[last].word = "off" THEN "draft_model"
                  ELSE SpecModes[read[last].word]
      BY <1>12, <2>4, <3>2
    <3> QED  BY <2>2, <3>1, <3>3
  <2>6. ASSUME awaiting # "--draft-model"
        PROVE  mode' = IF (last = 0 \/ read'[last].word = "off")
                            /\ \E k \in At("--draft-model")' : k > last
                        THEN "draft_model"
                      ELSE IF last = 0 THEN "off" ELSE SpecModes[read'[last].word]
    <3>1. At("--draft-model")' = At("--draft-model")
      BY <1>10, <2>6
    <3>2. mode' = mode
      BY <1>1, <1>14, <2>6 DEF NewMode
    <3> QED  BY <1>12, <2>2, <3>1, <3>2
  <2>7. IsLast(last, At("--spec-type")' \cup {0})
    BY <1>12, <2>1
  <2>8. ModeIs'
    BY <2>2, <2>5, <2>6, <2>7 DEF ModeIs, IsLast
  <2> QED  BY <1>7, <1>9, <2>8 DEF Parsed
<1> QED  BY <1>13, <1>14
\* A step that changes none of what TypeOK types, but where it is and how it ends.
LEMMA ExitParsed ==
  ASSUME Parsed, NEW code \in {0, 1, 2, 3}, Exit(code), generated' \in BOOLEAN,
         UNCHANGED <<options, file, residency>>
  PROVE  Parsed'
<1>1. UNCHANGED <<awaiting, flags, value, mode, positional, read, file, residency>>
  BY DEF options
<1>2. TypeOK'
  BY <1>1 DEF Parsed, TypeOK, Exit
<1> QED  BY <1>1, <1>2, UnreadKeeps

LEMMA ParsePreserves ==
  ASSUME Parsed, Parse
  PROVE  Parsed'
<1>1. ASSUME NEW w \in Word, Flag(w)
      PROVE  Parsed'
  <2>1. TypeOK'
    BY <1>1 DEF Flag, Parsed, TypeOK, results
  <2> QED  BY <1>1, <2>1, UnreadKeeps DEF Flag
<1>2. ASSUME NEW w \in Word, Option(w)
      PROVE  Parsed'
  <2>1. TypeOK'
    BY <1>2 DEF Option, Parsed, TypeOK, results
  <2> QED  BY <1>2, <2>1, UnreadKeeps DEF Option
<1>3. ASSUME NEW w \in Word, Ignored(w)
      PROVE  Parsed'
  <2>1. UNCHANGED vars
    BY <1>3 DEF Ignored
  <2>2. TypeOK'
    BY <2>1 DEF vars, options, results, Parsed, TypeOK
  <2> QED  BY <2>1, <2>2, UnreadKeeps DEF vars, options
<1>4. ASSUME NEW w \in Word, Positional(w)
      PROVE  Parsed'
  <2>1. positional' \in Seq(Word)
    BY <1>4, AppendProperties DEF Positional, Parsed, TypeOK
  <2>2. TypeOK'
    BY <1>4, <2>1 DEF Positional, Parsed, TypeOK, results
  <2> QED  BY <1>4, <2>2, UnreadKeeps DEF Positional
<1>5. ASSUME NEW w \in Word, Value(w)
      PROVE  Parsed'
  BY <1>5, ValueKeeps
<1>6. ASSUME NEW w \in Word, BadValue(w)
      PROVE  Parsed'
  <2>1. PICK code \in {1, 2} : Exit(code)
    BY <1>6 DEF BadValue
  <2>2. UNCHANGED <<options, file, residency, generated>> /\ generated \in BOOLEAN
    BY <1>6 DEF BadValue, results, Parsed, TypeOK
  <2> QED  BY <2>1, <2>2, ExitParsed
<1>7. ASSUME MissingValue
      PROVE  Parsed'
  <2>1. UNCHANGED <<options, file, residency, generated>> /\ generated \in BOOLEAN /\ Exit(2)
    BY <1>7 DEF MissingValue, results, Parsed, TypeOK
  <2> QED  BY <2>1, ExitParsed
<1>8. ASSUME EndOfArgs
      PROVE  Parsed'
  <2>1. /\ value \in [Options -> Values] /\ value["--accel"] \in Profiles
        /\ positional \in Seq(Word)
    BY DEF Parsed, TypeOK
  <2>2. /\ Len(positional) > 0 => positional[1] \in Values
        /\ Len(positional) > 1 => positional[2] \in Values
    <3>1. Len(positional) \in Nat
      BY <2>1, LenProperties
    <3>2. /\ Len(positional) > 0 => positional[1] \in Word
          /\ Len(positional) > 1 => positional[2] \in Word
      BY <2>1, <3>1, ElementOfSeq
    <3> QED  BY <3>2 DEF Values
  <2>3. "-m" \in Options /\ "-p" \in Options /\ "--accel" \in Options
    BY DEF Options
  <2>4. PICK a, b : value' = [value EXCEPT !["-m"] = a, !["-p"] = b]
                    /\ a \in Values /\ b \in Values
    <3> DEFINE a == IF value["-m"] = "" /\ Len(positional) > 0 THEN positional[1]
                    ELSE value["-m"]
               b == IF value["-p"] = "" /\ Len(positional) > 1 THEN positional[2]
                    ELSE value["-p"]
    <3>1. value' = [value EXCEPT !["-m"] = a, !["-p"] = b]
      <4>1. [value EXCEPT !["-m"] = a]["-p"] = value["-p"]
        BY <2>1, <2>3
      <4> QED  BY <1>8, <4>1 DEF EndOfArgs
    <3>2. a \in Values /\ b \in Values
      BY <2>1, <2>2, <2>3, Zenon
    <3> QED  BY <3>1, <3>2
  <2>5. value' \in [Options -> Values] /\ value'["--accel"] = value["--accel"]
    BY <2>1, <2>3, <2>4
  <2>6. TypeOK'
    BY <1>8, <2>1, <2>5 DEF EndOfArgs, Parsed, TypeOK, results
  <2> QED  BY <1>8, <2>6, UnreadKeeps DEF EndOfArgs
<1> QED  BY <1>1, <1>2, <1>3, <1>4, <1>5, <1>6, <1>7, <1>8 DEF Parse

LEMMA MainPreserves ==
  ASSUME Parsed, Main
  PROVE  Parsed'
<1>1. generated \in BOOLEAN
  BY DEF Parsed, TypeOK
<1>2. CASE Information \/ Usage \/ LoadThrows \/ Check \/ Inspect
  <2>1. PICK code \in {0, 1, 2, 3} : Exit(code)
    BY <1>2, Zenon DEF Information, Usage, LoadThrows, Check, Inspect
  <2>2. UNCHANGED <<options, file, residency, generated>>
    BY <1>2 DEF Information, Usage, LoadThrows, Check, Inspect, results
  <2> QED  BY <1>1, <2>1, <2>2, ExitParsed
<1>3. CASE LoadModel
  <2>1. TypeOK'
    BY <1>3 DEF LoadModel, Parsed, TypeOK, options
  <2> QED  BY <1>3, <2>1, UnreadKeeps DEF LoadModel, options
<1>4. CASE ApplyResidency
  <2>1. residency' \in {"none", "skipped", "advised", "touched"}
    BY <1>4 DEF ApplyResidency
  <2>2. TypeOK'
    BY <1>4, <2>1 DEF ApplyResidency, Parsed, TypeOK, options
  <2> QED  BY <1>4, <2>2, UnreadKeeps DEF ApplyResidency, options
<1>5. CASE Generate
  <2>1. PICK code \in {0, 1, 2, 3} : Exit(code)
    BY <1>5, Zenon DEF Generate
  <2>2. generated' \in BOOLEAN
    BY <1>5 DEF Generate
  <2> QED  BY <1>5, <2>1, <2>2, ExitParsed DEF Generate
<1> QED  BY <1>2, <1>3, <1>4, <1>5 DEF Main

LEMMA ParsedInvariant == Spec => []Parsed
<1>1. ASSUME Parsed, [Next]_vars PROVE Parsed'
  <2>1. CASE UNCHANGED vars
    <3>1. TypeOK'
      BY <1>1, <2>1 DEF vars, options, results, Parsed, TypeOK
    <3> QED  BY <1>1, <2>1, <3>1, UnreadKeeps DEF vars, options
  <2> QED  BY <1>1, <2>1, ParsePreserves, MainPreserves DEF Next
<1> QED  BY <1>1, ParsedInit, PTL DEF Spec

\* Every state of the program is typed.
THEOREM TypeCorrect == Spec => []TypeOK
<1>1. Parsed => TypeOK
  BY DEF Parsed
<1> QED  BY <1>1, ParsedInvariant, PTL

\* The speculative mode is what the options in their order declare, for command
\* lines of any length.
THEOREM ModeAsDeclared == Spec => []ModeDeclared
<1>1. Parsed => ModeDeclared
  BY ModeIsDeclared DEF Parsed
<1> QED  BY <1>1, ParsedInvariant, PTL
-----------------------------------------------------------------------------
(* A tensor less. *)

\* A condition that is harder to meet is an issue at least as often.
LEMMA UnlessGrows ==
  ASSUME NEW c, NEW d, d => c, NEW code, NEW about
  PROVE  Unless(c, code, about) \subseteq Unless(d, code, about)
  BY DEF Unless

LEMMA LayerIssuesGrow ==
  ASSUME NEW S, NEW T, S \subseteq T, NEW l
  PROVE  LayerIssues(T, l) \subseteq LayerIssues(S, l)
<1> DEFINE Has(U, part) == <<l, part>> \in U
           Some(U, parts) == \E part \in parts : Has(U, part)
           Split(U) == Has(U, "attn_q.weight") /\ Has(U, "attn_k.weight") /\ Has(U, "attn_v.weight")
           Dense(U) == Has(U, "ffn_up.weight") /\ Has(U, "ffn_down.weight")
           A(U) == Unless(Has(U, "attn_norm.weight"), "tensor.attn_norm.missing", l)
           B(U) == Unless(Has(U, "ffn_norm.weight"), "tensor.ffn_norm.missing", l)
           C(U) == Unless(Split(U) \/ Some(U, FusedParts), "tensor.attention_qkv.missing", l)
           D(U) == Unless(Has(U, "attn_output.weight"), "tensor.attention_output.missing", l)
           E(U) == Unless(Dense(U) \/ Some(U, MoeParts), "tensor.ffn.missing", l)
<1>1. A(T) \subseteq A(S) /\ B(T) \subseteq B(S) /\ D(T) \subseteq D(S)
  BY UnlessGrows
<1>2. (Split(S) => Split(T)) /\ (Dense(S) => Dense(T))
  OBVIOUS
<1>3. \A parts : Some(S, parts) => Some(T, parts)
  OBVIOUS
<1> HIDE DEF Split, Dense, Some
<1>4. C(T) \subseteq C(S) /\ E(T) \subseteq E(S)
  BY <1>2, <1>3, UnlessGrows
<1> HIDE DEF A, B, C, D, E
<1>5. \A U : LayerIssues(U, l) = UNION {A(U), B(U), C(U), D(U), E(U)}
  BY DEF LayerIssues, A, B, C, D, E, Split, Dense, Some
<1> QED  BY <1>1, <1>4, <1>5

LEMMA DecoderIssuesGrow ==
  ASSUME NEW m, NEW n, m.blocks = n.blocks, m.embedding = n.embedding, m.vocab = n.vocab,
         NEW S, NEW T, S \subseteq T
  PROVE  DecoderIssues(m, T) \subseteq DecoderIssues(n, S)
<1> DEFINE Norm(U) == \E part \in {"output_norm.weight", "token_embd_norm.weight"} :
                        <<Global, part>> \in U
           Meta(x) == {Unless(x.blocks # 0, "metadata.block_count", Global),
                       Unless(x.embedding # 0, "metadata.embedding_length", Global),
                       Unless(x.vocab # 0, "metadata.vocab_size", Global)}
           A(U) == Unless(<<Global, "token_embd.weight">> \in U,
                          "tensor.token_embedding.missing", Global)
           B(U) == Unless(Norm(U), "tensor.final_norm.missing", Global)
           L(x, U) == {LayerIssues(U, l) : l \in 0 .. x.blocks - 1}
<1>1. A(T) \subseteq A(S)
  BY UnlessGrows
<1>2. Norm(S) => Norm(T)
  OBVIOUS
<1> HIDE DEF Norm
<1>3. B(T) \subseteq B(S)
  BY <1>2, UnlessGrows
<1>4. UNION L(m, T) \subseteq UNION L(n, S)
  BY LayerIssuesGrow
<1>5. Meta(m) = Meta(n)
  OBVIOUS
<1> HIDE DEF Meta, A, B, L
<1>6. \A x, U : DecoderIssues(x, U) = UNION (Meta(x) \cup {A(U), B(U)} \cup L(x, U))
  BY DEF DecoderIssues, Meta, A, B, L, Norm
<1> QED  BY <1>1, <1>3, <1>4, <1>5, <1>6

LEMMA HybridIssuesGrow ==
  ASSUME NEW m, NEW n, m.blocks = n.blocks, m.embedding = n.embedding, m.vocab = n.vocab,
         NEW S, NEW T, S \subseteq T
  PROVE  HybridIssues(m, T) \subseteq HybridIssues(n, S)
<1>1. DecoderIssues(m, T) \subseteq DecoderIssues(n, S)
  BY DecoderIssuesGrow
<1>2. \A t : Unless(t \in T, "tensor.shortconv.missing", t)
               \subseteq Unless(t \in S, "tensor.shortconv.missing", t)
  BY DEF Unless
<1> QED  BY <1>1, <1>2 DEF HybridIssues

\* A file with some of the tensors of another, and no other difference: the
\* issues of the other's are its own, but for those of the data types it lost.
LEMMA IssuesAntitone ==
  ASSUME NEW f, NEW g, f.kind = "gguf", g.kind = "gguf",
         g.architecture = f.architecture, g.counts = f.counts, g.tokens = f.tokens,
         g.merges = f.merges, g.dtype = f.dtype, NEW t, g.tensors = f.tensors \ {t}
  PROVE  Issues(f) \subseteq Issues(g) \cup KernelIssues({f.dtype[t]})
<1> DEFINE m == LoadGguf(f)
           n == LoadGguf(g)
           K(U) == KernelIssues({f.dtype[u] : u \in U})
<1>1. /\ m.blocks = n.blocks /\ m.embedding = n.embedding /\ m.vocab = n.vocab
      /\ m.architecture = n.architecture
  BY DEF LoadGguf, Count, Looked
<1> HIDE DEF m, n
<1>2. /\ DecoderIssues(m, f.tensors) \subseteq DecoderIssues(n, g.tensors)
      /\ HybridIssues(m, f.tensors) \subseteq HybridIssues(n, g.tensors)
  BY <1>1, DecoderIssuesGrow, HybridIssuesGrow
<1>3. ArchitectureIssues(m, f) \subseteq ArchitectureIssues(n, g)
  BY <1>1, <1>2 DEF ArchitectureIssues
<1>4. K(f.tensors) \subseteq K(g.tensors) \cup KernelIssues({f.dtype[t]})
  <2>1. {f.dtype[u] : u \in f.tensors} \subseteq {f.dtype[u] : u \in g.tensors} \cup {f.dtype[t]}
    OBVIOUS
  <2> QED BY <2>1 DEF KernelIssues
<1>5. f.kind # "manifest" /\ g.kind # "manifest"
  OBVIOUS
<1>6. /\ K(f.tensors) = KernelIssues({f.dtype[u] : u \in f.tensors})
      /\ K(g.tensors) = KernelIssues({g.dtype[u] : u \in g.tensors})
  OBVIOUS
<1> HIDE DEF K
<1> QED BY <1>3, <1>4, <1>5, <1>6 DEF Issues, m, n

\* A tensor less hides no issue of a plan (src/plan.cpp) but what was reported of
\* its own data type, whatever the registry and the file.
THEOREM IssuesOnlyGrow == Spec => []IssuesGrow
<1>1. ASSUME IInv
      PROVE  IssuesGrow
  <2> SUFFICES ASSUME plan # NoPlan, file.kind = "gguf", NEW t \in file.tensors
               PROVE  plan.issues \subseteq Issues([file EXCEPT !.tensors = @ \ {t}])
                                            \cup KernelIssues({file.dtype[t]})
    BY DEF IssuesGrow
  <2> DEFINE g == [file EXCEPT !.tensors = @ \ {t}]
  <2>1. file \in File /\ plan = BuildPlan(file)
    BY <1>1 DEF IInv, Staged
  <2>2. plan.issues = Issues(file)
    BY <2>1 DEF BuildPlan
  <2>3. {"kind", "architecture", "mtpKey", "counts", "tokens", "merges", "tensors", "dtype"}
           \subseteq DOMAIN file
    BY <2>1, FileAssumption
  <2>4. /\ g.kind = "gguf" /\ g.architecture = file.architecture /\ g.counts = file.counts
        /\ g.tokens = file.tokens /\ g.merges = file.merges /\ g.dtype = file.dtype
        /\ g.tensors = file.tensors \ {t}
    BY <2>3
  <2> HIDE DEF g
  <2>5. Issues(file) \subseteq Issues(g) \cup KernelIssues({file.dtype[t]})
    BY <2>4, IssuesAntitone
  <2> QED  BY <2>2, <2>5 DEF g
<1> QED  BY <1>1, InitHolds, Inductive, PTL DEF Spec
=============================================================================
