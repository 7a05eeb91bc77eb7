--------------------------- MODULE ProgramProofs ---------------------------
(***************************************************************************)
(* Program for every argument list, every number of stages and every set   *)
(* of files: the options never overrun their array, a failure is what the  *)
(* program reports, and success means that the output holds what the last  *)
(* stage makes of the input, and that no other file was touched.           *)
(*                                                                         *)
(* What the parser leaves (types, and that a second file name follows a    *)
(* first one) is ParserInv.  MainInv says how far the stages are: a stage  *)
(* that is not the last one has no output name and fails, so the store is  *)
(* either the one the program found, with no stage run, or that with the   *)
(* result of the last stage.  Success only says something because nothing  *)
(* resets status, which FailedInv keeps.                                   *)
(*                                                                         *)
(* ReadInv says that the list is read for what it says: what was asked for *)
(* before the place the parser is at is what the stages hold, the operands *)
(* before it are the file names, and the role of the argument at hand is   *)
(* what the code takes it for.  The places move on one at a time (Follows).*)
(*                                                                         *)
(* The program ends: Left says what is left of it.                         *)
(***************************************************************************)
EXTENDS Program, Descent, FiniteSetTheorems, TLAPS

StageType == [pack : Values["pack"], pad : Values["pad"]]

Found == [f \in Roms |-> RomOf(f)]

ParserInv ==
    /\ argv \in CommandLines
    /\ stages \in Seq(StageType)
    /\ Len(stages) <= MAX_STAGES
    /\ i \in 1..(Len(argv) + 1)
    /\ in \in 0..Len(argv)
    /\ out \in 0..Len(argv)
    /\ in = 0 => out = 0
    /\ parse \in {"OK", "USAGE", "help", "version"}
    /\ pc \in {"arg", "letter", "parsed", "stage", "close", "exit"}
    /\ pc = "letter" => i <= Len(argv)
    /\ pc \in {"arg", "letter"} => parse = "OK"

FailedInv ==
    /\ status \in {0, EXIT_FAILURE, EXIT_USAGE}
    /\ status # 0 => pc \in {"close", "exit"}

(* No stage has run, or the only one has, and has succeeded. *)
NoneRan == stage = 1 /\ store = Found
AllRan ==
    /\ stages # <<>>
    /\ stage = Len(stages) + 1
    /\ out # 0
    /\ File(in) # File(out) =>
          store = [g \in Roms \cup {File(out)} |->
                      IF g = File(out) THEN Decompressed(File(in), stages[Len(stages)])
                      ELSE RomOf(g)]

MainInv ==
    /\ stage \in 1..(MAX_STAGES + 1)
    /\ pc \in {"arg", "letter", "parsed"} => NoneRan
    /\ pc = "stage" => parse = "OK" /\ in # 0 /\ File(in) \in Roms /\ (NoneRan \/ AllRan)
    /\ pc \in {"close", "exit"} /\ parse = "OK" /\ status = 0 =>
          in # 0 /\ ((stages = <<>> /\ NoneRan) \/ AllRan)

IInv == ParserInv /\ FailedInv /\ MainInv

-----------------------------------------------------------------------------
(* The argument lists and the stages are sequences. *)

LEMMA ArgvIsSeq ==
    ASSUME argv \in CommandLines
    PROVE  Len(argv) \in Nat
<1>1. argv \in Seq({argv[k] : k \in DOMAIN argv})
    BY CommandLinesAssumption
<1> DEFINE S == {argv[k] : k \in DOMAIN argv}
<1>2. argv \in Seq(S)
    BY <1>1
<1> HIDE DEF S
<1>3. QED
    BY <1>2

LEMMA DefaultIsStage == DefaultStage \in StageType
BY DEF DefaultStage, StageType, Values

LEMMA SetKeepsStages ==
    ASSUME NEW s \in Seq(StageType), NEW k \in 1..Len(s),
           NEW option \in {"pack", "pad"}, NEW w \in Values[option], NEW t,
           t = [s EXCEPT ![k][option] = w]
    PROVE  t \in Seq(StageType) /\ Len(t) = Len(s)
<1>1. s[k] \in StageType
    OBVIOUS
<1>2. [s[k] EXCEPT ![option] = w] \in StageType
    BY <1>1 DEF StageType, Values
<1> DEFINE u == [s[k] EXCEPT ![option] = w]
<1>3. u \in StageType /\ t = [s EXCEPT ![k] = u]
    BY <1>2
<1> HIDE DEF u
<1>4. QED
    BY <1>3

LEMMA InitInv == Init => IInv
<1> SUFFICES ASSUME Init
             PROVE  IInv
    OBVIOUS
<1>1. Len(argv) \in Nat
    BY ArgvIsSeq DEF Init
<1>2. ParserInv
    BY <1>1, StagesAssumption DEF Init, ParserInv
<1>3. FailedInv /\ MainInv
    BY StagesAssumption DEF Init, FailedInv, MainInv, NoneRan, Found
<1>4. QED
    BY <1>2, <1>3 DEF IInv

-----------------------------------------------------------------------------
(* The parser: no step of it touches what main works on. *)

LEMMA ParseLeavesMain ==
    ASSUME IInv, pc \in {"arg", "letter"}, pc' \in {"arg", "letter", "parsed"},
           ParserInv', UNCHANGED running
    PROVE  IInv'
<1>1. FailedInv'
    BY DEF IInv, FailedInv, running
<1>2. NoneRan'
    BY DEF IInv, MainInv, NoneRan, Found, running
<1>3. MainInv'
    BY <1>2 DEF IInv, MainInv, running
<1>4. QED
    BY <1>1, <1>3 DEF IInv

LEMMA ReturnKeeps ==
    ASSUME IInv, pc \in {"arg", "letter"}, NEW r \in {"OK", "USAGE", "help", "version"},
           Return(r)
    PROVE  IInv'
<1>1. ParserInv'
    BY DEF IInv, ParserInv, Return, options
<1>2. QED
    BY <1>1, ParseLeavesMain DEF Return

LEMMA TakeOperandKeeps ==
    ASSUME IInv, TakeOperand
    PROVE  IInv'
<1>1. pc = "arg" /\ i <= Len(argv)
    BY DEF TakeOperand, AtArgument
<1>2. CASE Return("USAGE")
    BY <1>1, <1>2, ReturnKeeps
<1>3. CASE ~Return("USAGE")
  <2>1. /\ in' = IF in = 0 THEN i ELSE in
        /\ out' = IF in = 0 THEN out ELSE i
        /\ i' = i + 1
        /\ UNCHANGED <<argv, pc, letter, end, stages, parse, running>>
    BY <1>3 DEF TakeOperand
  <2>2. Len(argv) \in Nat
    BY ArgvIsSeq DEF IInv, ParserInv
  <2>3. ParserInv'
    BY <1>1, <2>1, <2>2 DEF IInv, ParserInv
  <2>4. QED
    BY <1>1, <2>1, <2>3, ParseLeavesMain
<1>4. QED
    BY <1>2, <1>3

LEMMA EndOptionsKeeps ==
    ASSUME IInv, EndOptions
    PROVE  IInv'
<1>1. Len(argv) \in Nat
    BY ArgvIsSeq DEF IInv, ParserInv
<1>2. pc = "arg" /\ pc' = "arg" /\ UNCHANGED running
    BY DEF EndOptions, AtOption, AtArgument
<1>3. ParserInv'
    BY <1>1 DEF IInv, ParserInv, EndOptions, AtOption, AtArgument, options
<1>4. QED
    BY <1>2, <1>3, ParseLeavesMain

(* A stage is only pushed while there is room for it. *)
LEMMA PushKeeps ==
    ASSUME IInv, Len(stages) # MAX_STAGES, stages' = Append(stages, DefaultStage),
           pc \in {"arg", "letter"}, pc' \in {"arg", "letter"},
           i' \in {i, i + 1}, i <= Len(argv), pc' = "letter" => i' = i,
           UNCHANGED <<argv, in, out, parse, running>>
    PROVE  IInv'
<1>1. Len(argv) \in Nat
    BY ArgvIsSeq DEF IInv, ParserInv
<1>2. stages' \in Seq(StageType) /\ Len(stages') <= MAX_STAGES
    BY DefaultIsStage, StagesAssumption DEF IInv, ParserInv
<1>3. ParserInv'
    BY <1>1, <1>2 DEF IInv, ParserInv
<1>4. QED
    BY <1>3, ParseLeavesMain

LEMMA SetOptionKeeps ==
    ASSUME IInv, pc \in {"arg", "letter"}, i <= Len(argv), NEW option \in {"pack", "pad"},
           NEW attached, SetOption(option, attached)
    PROVE  IInv'
<1> DEFINE v == take_value(attached)
           usable == {w \in Values[option] : v.value = Operand(w)}
<1>1. CASE Return("USAGE")
    BY <1>1, ReturnKeeps
<1>2. CASE ~Return("USAGE")
  <2>1. /\ current_stage # 0
        /\ \E w \in usable : stages' = [stages EXCEPT ![current_stage][option] = w]
        /\ i' = v.last + 1
        /\ pc' = "arg"
        /\ UNCHANGED <<argv, letter, end, in, out, parse, running>>
    BY <1>2 DEF SetOption
  <2>2. Len(argv) \in Nat /\ i \in 1..Len(argv)
    BY ArgvIsSeq DEF IInv, ParserInv
  <2>3. v.last \in 1..Len(argv)
    BY <2>2 DEF take_value
  <2>4. stages' \in Seq(StageType) /\ Len(stages') = Len(stages)
    <3>1. PICK w \in usable : stages' = [stages EXCEPT ![current_stage][option] = w]
        BY <2>1
    <3>2. stages \in Seq(StageType) /\ current_stage \in 1..Len(stages)
        BY <2>1 DEF current_stage, IInv, ParserInv
    <3>3. w \in Values[option]
        OBVIOUS
    <3>4. QED
        BY <3>1, <3>2, <3>3, SetKeepsStages
  <2> HIDE DEF v, usable
  <2>5. ParserInv'
    BY <2>1, <2>2, <2>3, <2>4 DEF IInv, ParserInv
  <2>6. QED
    BY <2>1, <2>5, ParseLeavesMain
<1>3. QED
    BY <1>1, <1>2

(* A step that moves on to the next argument and takes nothing from it. *)
LEMMA SkipKeeps ==
    ASSUME IInv, pc \in {"arg", "letter"}, pc' = "arg", i <= Len(argv), i' = i + 1,
           UNCHANGED <<argv, options, parse, running>>
    PROVE  IInv'
<1>1. Len(argv) \in Nat
    BY ArgvIsSeq DEF IInv, ParserInv
<1>2. ParserInv'
    BY <1>1 DEF IInv, ParserInv, options
<1>3. QED
    BY <1>2, ParseLeavesMain

LEMMA ParseLongKeeps ==
    ASSUME IInv, ParseLong
    PROVE  IInv'
<1>1. pc = "arg" /\ i <= Len(argv)
    BY DEF ParseLong, LongDecompress, LongValue, LongText, LongVerbose, LongUnknown,
           AtLong, AtOption, AtArgument
<1>2. CASE \E r \in {"USAGE", "help", "version"} : Return(r)
    BY <1>1, <1>2, ReturnKeeps
<1>3. CASE ~\E r \in {"USAGE", "help", "version"} : Return(r)
  <2>1. ~LongText /\ ~LongUnknown
    BY <1>3 DEF LongText, LongUnknown
  <2>2. ASSUME LongDecompress
        PROVE  IInv'
    <3>1. /\ Len(stages) # MAX_STAGES
          /\ stages' = Append(stages, DefaultStage)
          /\ NextArgument
          /\ UNCHANGED <<argv, letter, end, in, out, parse, running>>
        BY <1>3, <2>2 DEF LongDecompress, push_stage
    <3>2. QED
        BY <1>1, <3>1, PushKeeps DEF NextArgument
  <2>3. ASSUME LongValue
        PROVE  IInv'
    <3>1. Arg.name \in {"pack", "pad"} /\ SetOption(Arg.name, Arg.value)
        BY <2>3 DEF LongValue
    <3>2. QED
        BY <1>1, <3>1, SetOptionKeeps
  <2>4. ASSUME LongVerbose
        PROVE  IInv'
    BY <1>1, <1>3, <2>4, SkipKeeps DEF LongVerbose, NextArgument
  <2>5. QED
    BY <2>1, <2>2, <2>3, <2>4 DEF ParseLong
<1>4. QED
    BY <1>2, <1>3

LEMMA ParseShortKeeps ==
    ASSUME IInv, ParseShort
    PROVE  IInv'
<1>1. pc \in {"arg", "letter"} /\ i <= Len(argv)
    BY DEF IInv, ParserInv, ParseShort, BeginLetters, LetterD, LetterV, LetterP, LetterUnknown,
           EndLetters, AtLetter, AtOption, AtArgument
<1>2. ASSUME BeginLetters
      PROVE  IInv'
  <2>1. ParserInv'
    BY <1>1, <1>2 DEF IInv, ParserInv, BeginLetters, AtOption, AtArgument, options
  <2>2. QED
    BY <1>1, <1>2, <2>1, ParseLeavesMain DEF BeginLetters
<1>3. ASSUME LetterD
      PROVE  IInv'
  <2>1. CASE Return("USAGE")
    BY <1>1, <2>1, ReturnKeeps
  <2>2. CASE ~Return("USAGE")
    <3>1. /\ Len(stages) # MAX_STAGES
          /\ stages' = Append(stages, DefaultStage)
          /\ NextLetter
        BY <1>3, <2>2 DEF LetterD, push_stage
    <3>2. QED
        BY <1>1, <3>1, PushKeeps DEF NextLetter
  <2>3. QED
    BY <2>1, <2>2
<1>4. ASSUME LetterV
      PROVE  IInv'
  <2>1. ParserInv'
    BY <1>4 DEF IInv, ParserInv, LetterV, NextLetter, AtLetter
  <2>2. QED
    BY <1>1, <1>4, <2>1, ParseLeavesMain DEF LetterV, NextLetter
<1>5. ASSUME LetterP
      PROVE  IInv'
    BY <1>1, <1>5, SetOptionKeeps DEF LetterP
<1>6. ASSUME LetterUnknown
      PROVE  IInv'
    BY <1>1, <1>6, ReturnKeeps DEF LetterUnknown
<1>7. ASSUME EndLetters
      PROVE  IInv'
    BY <1>1, <1>7, SkipKeeps DEF EndLetters, NextArgument
<1>8. QED
    BY <1>2, <1>3, <1>4, <1>5, <1>6, <1>7 DEF ParseShort

LEMMA ParseKeeps ==
    ASSUME IInv, Parse
    PROVE  IInv'
<1>1. ASSUME EndArguments
      PROVE  IInv'
    BY <1>1, ReturnKeeps DEF EndArguments
<1>2. QED
    BY <1>1, TakeOperandKeeps, EndOptionsKeeps, ParseLongKeeps, ParseShortKeeps DEF Parse

-----------------------------------------------------------------------------
(* main: no step of it touches the options. *)

LEMMA MainKeepsParser ==
    ASSUME IInv, UNCHANGED parsing, pc' \in {"stage", "close", "exit"}
    PROVE  ParserInv'
BY DEF IInv, ParserInv, parsing, options

LEMMA OpenKeeps ==
    ASSUME IInv, Open
    PROVE  IInv'
<1>1. ParserInv'
    BY MainKeepsParser DEF Open, Exit
<1>2. FailedInv'
    BY DEF IInv, FailedInv, Open, Exit, EXIT_FAILURE, EXIT_USAGE
<1>3. pc = "parsed" /\ NoneRan /\ UNCHANGED <<stage, store>>
    BY DEF IInv, MainInv, Open, Exit
<1>4. NoneRan'
    BY <1>3 DEF NoneRan, Found
<1>5. MainInv'
  <2>1. CASE pc' = "exit"
    <3>1. parse' # "OK" \/ status' # 0
        BY <2>1 DEF Open, Exit, EXIT_FAILURE, EXIT_USAGE, parsing
    <3>2. QED
        BY <1>3, <2>1, <3>1 DEF IInv, MainInv
  <2>2. CASE pc' = "stage"
    <3>1. parse' = "OK" /\ in' # 0 /\ File(in)' \in Roms
        BY <2>2 DEF Open, Exit, parsing, options, File
    <3>2. QED
        BY <1>3, <1>4, <2>2, <3>1 DEF IInv, MainInv
  <2>3. QED
    BY <2>1, <2>2 DEF Open, Exit
<1>6. QED
    BY <1>1, <1>2, <1>5 DEF IInv

(* The only stage that can succeed is the last one, into the output. *)
LEMMA RunStageKeeps ==
    ASSUME IInv, RunStage
    PROVE  IInv'
<1>1. pc = "stage" /\ stage <= Len(stages) /\ stage' = stage + 1
    BY DEF RunStage
<1>2. ParserInv'
    BY MainKeepsParser DEF RunStage
<1>3. status' \in {0, EXIT_FAILURE}
    BY DEF RunStage, run_decompress, Write
<1>4. FailedInv'
    BY <1>3 DEF FailedInv, RunStage
<1>5. Len(stages) \in Nat /\ Len(stages) <= MAX_STAGES /\ stage \in Nat
    BY StagesAssumption DEF IInv, ParserInv, MainInv
<1>6. NoneRan /\ parse = "OK" /\ in # 0 /\ File(in) \in Roms
    BY <1>1, <1>5 DEF IInv, MainInv, AllRan
<1>7. ASSUME status' = 0
      PROVE  AllRan'
  <2>1. OutOfStage # 0 /\ Write(File(OutOfStage))
    BY <1>7 DEF RunStage, run_decompress, EXIT_FAILURE
  <2>2. stage = Len(stages) /\ out # 0 /\ OutOfStage = out
    BY <2>1 DEF OutOfStage
  <2>3. stages' # <<>> /\ stage' = Len(stages') + 1 /\ out' # 0
    <3>1. UNCHANGED <<stages, out>>
        BY DEF RunStage, parsing, options
    <3>2. stages # <<>>
        BY <1>6, <2>2 DEF NoneRan
    <3>3. QED
        BY <1>1, <2>2, <3>1, <3>2
  <2>4. ASSUME File(in) # File(out)
        PROVE  store' = [g \in Roms \cup {File(out)} |->
                          IF g = File(out) THEN Decompressed(File(in), stages[Len(stages)])
                          ELSE RomOf(g)]
    <3>1. store' = Stored(File(out), Decompressed(File(in), stages[Len(stages)]))
        BY <1>7, <2>1, <2>2, <2>4 DEF Write, EXIT_FAILURE
    <3>2. store = Found /\ DOMAIN store = Roms
        BY <1>6 DEF NoneRan, Found
    <3>3. QED
        BY <3>1, <3>2 DEF Stored, Found
  <2>5. UNCHANGED <<argv, stages, in, out>>
    BY DEF RunStage, parsing, options
  <2>6. QED
    BY <2>3, <2>4, <2>5 DEF AllRan, File
<1>8. MainInv'
  <2>1. stage' \in 1..(MAX_STAGES + 1)
    BY <1>1, <1>5, StagesAssumption DEF IInv, MainInv
  <2>2. parse' = "OK" /\ in' # 0 /\ File(in)' \in Roms
    BY <1>6 DEF RunStage, parsing, options, File
  <2>3. pc' = IF status' = 0 THEN "stage" ELSE "close"
    BY DEF RunStage
  <2>4. QED
    BY <1>7, <2>1, <2>2, <2>3 DEF MainInv
<1>9. QED
    BY <1>2, <1>4, <1>8 DEF IInv

LEMMA StagesDoneKeeps ==
    ASSUME IInv, StagesDone
    PROVE  IInv'
<1>1. ParserInv'
    BY MainKeepsParser DEF StagesDone
<1>2. FailedInv'
    BY DEF IInv, FailedInv, StagesDone, running
<1>3. (stages = <<>> /\ NoneRan) \/ AllRan
  <2>1. ASSUME NoneRan
        PROVE  stages = <<>>
    BY <2>1 DEF NoneRan, StagesDone, IInv, ParserInv
  <2>2. QED
    BY <2>1 DEF IInv, MainInv, StagesDone
<1>4. UNCHANGED <<argv, stages, in, out, parse, stage, store, status>>
    BY DEF StagesDone, parsing, running, options
<1>5. ((stages = <<>> /\ NoneRan) \/ AllRan)'
    BY <1>3, <1>4 DEF NoneRan, AllRan, Found, File
<1>6. MainInv'
    BY <1>4, <1>5 DEF IInv, MainInv, StagesDone
<1>7. QED
    BY <1>1, <1>2, <1>6 DEF IInv

LEMMA CloseKeeps ==
    ASSUME IInv, Close
    PROVE  IInv'
<1>1. ParserInv'
    BY MainKeepsParser DEF Close
<1>2. FailedInv'
    BY DEF IInv, FailedInv, Close
<1>3. UNCHANGED <<argv, stages, in, out, parse, stage, store, status>>
    BY DEF Close, parsing, options
<1>4. (stages = <<>> /\ NoneRan) \/ AllRan => ((stages = <<>> /\ NoneRan) \/ AllRan)'
    BY <1>3 DEF NoneRan, AllRan, Found, File
<1>5. MainInv'
    BY <1>3, <1>4 DEF IInv, MainInv, Close
<1>6. QED
    BY <1>1, <1>2, <1>5 DEF IInv

LEMMA StutterKeeps ==
    ASSUME IInv, UNCHANGED vars
    PROVE  IInv'
<1>1. ParserInv'
    BY DEF IInv, ParserInv, vars
<1>2. FailedInv'
    BY DEF IInv, FailedInv, vars
<1>3. MainInv'
    BY DEF IInv, MainInv, vars, NoneRan, AllRan, Found, File
<1>4. QED
    BY <1>1, <1>2, <1>3 DEF IInv

LEMMA StepKeeps ==
    ASSUME IInv, [Next]_vars
    PROVE  IInv'
BY ParseKeeps, OpenKeeps, RunStageKeeps, StagesDoneKeeps, CloseKeeps, StutterKeeps
   DEF Next, Main

(* The inductive invariant of the program: a failing step is the last one, *)
(* and the store is as the program found it or has the output in it.       *)
THEOREM Invariance == Spec => []IInv
<1>1. Init => IInv
    BY InitInv
<1>2. IInv /\ [Next]_vars => IInv'
    BY StepKeeps
<1>3. QED
    BY <1>1, <1>2, PTL DEF Spec

-----------------------------------------------------------------------------

(* Every variable keeps its type, and the array of ZELDA64_MAX_STAGES      *)
(* stages is never overrun, whatever the arguments are.                    *)
THEOREM TypeCorrect == Spec => []TypeOK
<1>1. IInv => TypeOK
  <2> SUFFICES ASSUME IInv
               PROVE  TypeOK
    OBVIOUS
  <2>1. \A k \in 1..Len(stages) : stages[k] \in StageType
    BY DEF IInv, ParserInv
  <2>2. QED
    BY <2>1 DEF IInv, ParserInv, FailedInv, MainInv, TypeOK, StageType
<1>2. QED
    BY <1>1, Invariance, PTL

(* Once something has failed the exit status is that failure: closing the  *)
(* ROM, or another stage, never turns it into success.                     *)
THEOREM FailureStays == Spec => FailureIsReported
<1>1. IInv /\ [Next]_vars => [status # 0 => status' = status]_vars
  <2> SUFFICES ASSUME IInv, Next, status # 0
               PROVE  status' = status
    BY DEF vars
  <2>1. pc \in {"close", "exit"}
    BY DEF IInv, FailedInv
  <2>2. ~Parse
    BY <2>1 DEF Parse, TakeOperand, EndOptions, ParseLong, LongDecompress, LongValue, LongText,
                LongVerbose, LongUnknown, ParseShort, BeginLetters, LetterD, LetterV, LetterP,
                LetterUnknown, EndLetters, EndArguments, AtLong, AtLetter, AtOption, AtArgument
  <2>3. QED
    BY <2>1, <2>2 DEF Next, Main, Open, RunStage, StagesDone, Close, running
<1>2. QED
    BY <1>1, Invariance, PTL DEF Spec, FailureIsReported

(* An exit status of 0 means that every stage was run, that the output     *)
(* holds what the last one makes of the input, and that nothing else was   *)
(* written.                                                                *)
THEOREM SuccessIsTrue == Spec => []SuccessMeansDone
<1>1. IInv => SuccessMeansDone
  <2> SUFFICES ASSUME IInv, pc = "exit", status = 0, parse = "OK",
                      out # 0 => File(in) # File(out)
               PROVE  /\ \A f \in Roms : (out # 0 => f # File(out)) => store[f] = RomOf(f)
                      /\ stages # <<>> =>
                            /\ out # 0 /\ File(out) \in DOMAIN store
                            /\ store[File(out)] = Decompressed(File(in), stages[Len(stages)])
    BY DEF SuccessMeansDone
  <2>1. (stages = <<>> /\ NoneRan) \/ AllRan
    BY DEF IInv, MainInv
  <2>2. CASE stages = <<>> /\ NoneRan
    BY <2>2 DEF NoneRan, Found
  <2>3. CASE AllRan
    BY <2>3 DEF AllRan
  <2>4. QED
    BY <2>1, <2>2, <2>3
<1>2. QED
    BY <1>1, Invariance, PTL

-----------------------------------------------------------------------------
(* Functions defined by their value for the number before. *)

(* Every set of numbers that is not empty has a least one. *)
LEMMA LeastOf ==
    ASSUME NEW T \in SUBSET Nat, T # {}
    PROVE  \E m \in T : \A k \in T : m <= k
<1> DEFINE R == StrictSubsetOrdering(Nat)
           S == FiniteSubsetsOf(Nat)
           Q == {0..t : t \in T}
<1>1. IsWellFoundedOn(R, S)
    BY FS_StrictSubsetOrderingWellFounded, Zenon
<1>2. Q \subseteq S
  <2>1. ASSUME NEW t \in T
        PROVE  0..t \in S
    <3>1. IsFiniteSet(0..t) /\ 0..t \in SUBSET Nat
        BY FS_Interval
    <3>2. QED
        BY <3>1 DEF FiniteSubsetsOf
  <2>2. QED
    BY <2>1
<1>3. Q # {}
    OBVIOUS
<1>4. \E x \in Q : \A y \in Q : ~(<<y, x>> \in R)
  <2> HIDE DEF R, S, Q
  <2>1. QED
    BY <1>1, <1>2, <1>3, WFMin, Zenon
<1>5. PICK m \in T : \A k \in T : ~(<<0..k, 0..m>> \in R)
    BY <1>4
<1>6. ASSUME NEW k \in T
      PROVE  m <= k
  <2>1. k \in Nat /\ m \in Nat
    OBVIOUS
  <2>2. SUFFICES ASSUME k < m
                 PROVE  FALSE
    BY <2>1
  <2>3. 0..k \subseteq 0..m /\ 0..k # 0..m
    <3>1. 0..k \subseteq 0..m
        BY <2>1, <2>2
    <3>2. m \in 0..m /\ m \notin 0..k
        BY <2>1, <2>2
    <3>3. QED
        BY <3>1, <3>2
  <2>4. 0..k \in SUBSET Nat /\ 0..m \in SUBSET Nat
    OBVIOUS
  <2>5. <<0..k, 0..m>> \in R
    BY <2>3, <2>4, Zenon DEF StrictSubsetOrdering
  <2>6. QED
    BY <1>5, <2>5
<1>7. QED
    BY <1>6

(* Induction, over a set rather than a predicate. *)
LEMMA Induction ==
    ASSUME NEW G, 0 \in G, \A n \in Nat : n \in G => n + 1 \in G
    PROVE  Nat \subseteq G
<1> DEFINE T == {n \in Nat : n \notin G}
<1>1. SUFFICES ASSUME T # {}
               PROVE  FALSE
    OBVIOUS
<1>2. PICK m \in T : \A k \in T : m <= k
    BY <1>1, LeastOf
<1>3. m \in Nat /\ m \notin G /\ m # 0
    BY <1>2
<1>4. m - 1 \in Nat /\ m - 1 \notin T
    BY <1>2, <1>3
<1>5. (m - 1) + 1 \in G
    BY <1>4
<1>6. (m - 1) + 1 = m
    BY <1>3
<1>7. QED
    BY <1>3, <1>5, <1>6

(* A function of a number that is defined by its value for the number      *)
(* before exists, and keeps to the values that each round keeps to.        *)
IsFold(f, m, s, F) == f[0] = s /\ \A n \in 1..m : f[n] = F[n][f[n - 1]]

LEMMA FoldExists ==
    ASSUME NEW m \in Nat, NEW V, NEW s \in V, NEW F \in [1..m -> [V -> V]]
    PROVE  \E f \in [0..m -> V] : IsFold(f, m, s, F)
<1> DEFINE G == {k \in Nat : k <= m => \E f \in [0..k -> V] : IsFold(f, k, s, F)}
<1>1. 0 \in G
  <2> DEFINE f == [n \in 0..0 |-> s]
  <2>1. f \in [0..0 -> V] /\ IsFold(f, 0, s, F)
    BY DEF IsFold
  <2> HIDE DEF f
  <2>2. QED
    BY <2>1
<1>2. ASSUME NEW k \in Nat, k \in G
      PROVE  k + 1 \in G
  <2> SUFFICES ASSUME k + 1 <= m
               PROVE  \E f \in [0..(k + 1) -> V] : IsFold(f, k + 1, s, F)
    OBVIOUS
  <2>1. PICK g \in [0..k -> V] : IsFold(g, k, s, F)
    BY <1>2
  <2> DEFINE h == [n \in 0..(k + 1) |-> IF n = k + 1 THEN F[k + 1][g[k]] ELSE g[n]]
  <2>2. k \in 0..k /\ g[k] \in V /\ k + 1 \in 1..m
    BY <2>1
  <2>3. F[k + 1][g[k]] \in V
    BY <2>2
  <2>4. h \in [0..(k + 1) -> V]
    BY <2>1, <2>3
  <2>5. \A n \in 0..k : h[n] = g[n]
    OBVIOUS
  <2>6. h[k + 1] = F[k + 1][g[k]]
    OBVIOUS
  <2> HIDE DEF h
  <2>7. ASSUME NEW n \in 1..(k + 1)
        PROVE  h[n] = F[n][h[n - 1]]
    <3>1. CASE n = k + 1
      <4>1. n - 1 = k /\ h[k] = g[k]
          BY <2>2, <2>5, <3>1
      <4>2. QED
          BY <2>6, <3>1, <4>1
    <3>2. CASE n \in 1..k
      <4>1. n - 1 \in 0..k /\ n \in 0..k
          BY <3>2
      <4>2. h[n] = g[n] /\ h[n - 1] = g[n - 1] /\ g[n] = F[n][g[n - 1]]
          BY <2>1, <2>5, <3>2, <4>1 DEF IsFold
      <4>3. QED
          BY <4>2
    <3>3. QED
        BY <3>1, <3>2
  <2>8. h[0] = s
    BY <2>1, <2>5 DEF IsFold
  <2>9. QED
    BY <2>4, <2>7, <2>8 DEF IsFold
<1>3. Nat \subseteq G
  <2> HIDE DEF G
  <2>1. QED
    BY <1>1, <1>2, Induction
<1>4. QED
    BY <1>3

-----------------------------------------------------------------------------
(* How far the reading is. *)

(* How far the parser is: the argument and the letter it is at. *)
Here == <<i, IF pc = "letter" THEN letter ELSE 1>>

(* What was asked for before a place, and what the stages must be by then. *)
Upto(args, wish, h) == {p \in Asked(args, wish) : Before(p, h)}

SaysUpto(args, st, h) ==
    /\ IsFiniteSet(Upto(args, "decompress", h))
    /\ Cardinality(Upto(args, "decompress", h)) = Len(st)
    /\ \A option \in {"pack", "pad"} :
          /\ \A p \in Upto(args, option, h) : StageOf(args, p) # 0
          /\ \A s \in 1..Len(st) : Means(args, st[s], s, option, Upto(args, option, h))

NamesUpto(args, k, a, b) ==
    /\ {m \in Operands(args) : m < k} = {a, b} \ {0}
    /\ b # 0 => a # 0 /\ a < b

(* What the argument before says of the one at hand. *)
RoleInv ==
    /\ end <=> Role(argv)[i - 1] \in {"end", "behind"}
    /\ ~(Role(argv)[i - 1] = "option" /\ WantsValue(argv[i - 1]))
    /\ pc = "letter" =>
          /\ Role(argv)[i] = "option"
          /\ Arg.kind = "short"
          /\ letter \in 1..(Len(Arg.letters) + 1)
          /\ \A n \in 1..(letter - 1) : Arg.letters[n] # "P"

ReadInv ==
    parse = "OK" =>
        /\ SaysUpto(argv, stages, Here)
        /\ NamesUpto(argv, i, in, out)
        /\ IF pc \in {"arg", "letter"} THEN RoleInv ELSE i > Len(argv)

-----------------------------------------------------------------------------
(* What the list of arguments says. *)

IsRole(f, args) ==
    f = [k \in 0..Len(args) |-> IF k = 0 THEN "none" ELSE RoleAfter(args, f[k - 1], k)]

LEMMA RoleIs ==
    ASSUME NEW args, Len(args) \in Nat
    PROVE  /\ Role(args)[0] = "none"
           /\ \A k \in 1..Len(args) : Role(args)[k] = RoleAfter(args, Role(args)[k - 1], k)
<1> DEFINE m == Len(args)
           V == {"none", "end", "behind", "value", "operand", "option"}
           F == [k \in 1..m |-> [v \in V |-> RoleAfter(args, v, k)]]
           roles == Role(args)
<1>1. \A k \in 1..m : \A v \in V : RoleAfter(args, v, k) \in V
    BY DEF RoleAfter
<1>2. F \in [1..m -> [V -> V]]
    BY <1>1
<1>3. \A k \in 1..m : \A v \in V : F[k][v] = RoleAfter(args, v, k)
    OBVIOUS
<1>4. "none" \in V /\ m \in Nat
    OBVIOUS
<1> HIDE DEF F, m, V
<1>5. PICK f \in [0..m -> V] : IsFold(f, m, "none", F)
    BY <1>2, <1>4, FoldExists
<1>6. IsRole(f, args)
  <2>1. f = [k \in 0..m |-> f[k]]
    BY <1>5
  <2>2. ASSUME NEW k \in 1..m
        PROVE  f[k] = RoleAfter(args, f[k - 1], k)
    <3>1. f[k] = F[k][f[k - 1]]
        BY <1>5 DEF IsFold
    <3>2. f[k - 1] \in V
        BY <1>4, <1>5
    <3>3. QED
        BY <1>3, <3>1, <3>2
  <2>3. \A k \in 0..m : f[k] = IF k = 0 THEN "none" ELSE RoleAfter(args, f[k - 1], k)
    BY <1>4, <1>5, <2>2 DEF IsFold
  <2>4. QED
    BY <2>1, <2>3 DEF IsRole, m
<1>7. IsRole(roles, args)
  <2>1. roles = CHOOSE g : IsRole(g, args)
    BY Zenon DEF Role, IsRole
  <2> HIDE DEF roles
  <2>2. QED
    BY <1>6, <2>1, Zenon
<1> HIDE DEF roles
<1>8. roles[0] = "none"
    BY <1>4, <1>7 DEF IsRole, m
<1>9. \A k \in 1..m : roles[k] = RoleAfter(args, roles[k - 1], k)
    BY <1>4, <1>7 DEF IsRole, m
<1>10. QED
    BY <1>8, <1>9 DEF roles, m

(* A place is an option and a number of something it asks for. *)
IsPlace(args, p) ==
    /\ p = <<p[1], p[2]>>
    /\ p[1] \in 1..Len(args)
    /\ Role(args)[p[1]] = "option"
    /\ p[2] \in 1..Len(Wishes(args[p[1]]))

LEMMA PlaceIs ==
    ASSUME NEW args
    PROVE  \A p : p \in Places(args) <=> IsPlace(args, p)
<1>1. ASSUME NEW p \in Places(args)
      PROVE  IsPlace(args, p)
  <2>1. PICK k \in {m \in 1..Len(args) : Role(args)[m] = "option"} :
            p \in {k} \X (1..Len(Wishes(args[k])))
    BY DEF Places
  <2>2. p = <<p[1], p[2]>> /\ p[1] = k /\ p[2] \in 1..Len(Wishes(args[k]))
    BY <2>1
  <2>3. QED
    BY <2>2 DEF IsPlace
<1>2. ASSUME NEW p, IsPlace(args, p)
      PROVE  p \in Places(args)
  <2> DEFINE k == p[1]
  <2>1. k \in {m \in 1..Len(args) : Role(args)[m] = "option"}
    BY <1>2 DEF IsPlace
  <2>2. p \in {k} \X (1..Len(Wishes(args[k])))
    BY <1>2 DEF IsPlace
  <2> HIDE DEF k
  <2>3. QED
    BY <2>1, <2>2 DEF Places
<1>3. QED
    BY <1>1, <1>2

(* A place asks for one thing. *)
LEMMA AskedIs ==
    ASSUME NEW args, NEW wish, NEW p \in Asked(args, wish)
    PROVE  /\ p \in Places(args)
           /\ p[1] \in Int /\ p[2] \in Int
           /\ \A other : p \in Asked(args, other) <=> other = wish
<1>1. p \in Places(args) /\ Wishes(args[p[1]])[p[2]] = wish
    BY DEF Asked
<1>2. p[1] \in Int /\ p[2] \in Int
    BY <1>1, PlaceIs DEF IsPlace
<1>3. QED
    BY <1>1, <1>2 DEF Asked

(* The reading moves from one place to the next, or over no place. *)
Follows(args, h, h2) == \A p \in Places(args) : Before(p, h2) <=> Before(p, h) \/ p = h

LEMMA Grown ==
    ASSUME NEW args, NEW h, NEW h2, Follows(args, h, h2), NEW wish
    PROVE  /\ h \in Asked(args, wish) =>
                 Upto(args, wish, h2) = Upto(args, wish, h) \cup {h}
           /\ h \notin Asked(args, wish) => Upto(args, wish, h2) = Upto(args, wish, h)
<1>1. Asked(args, wish) \subseteq Places(args)
    BY DEF Asked
<1>2. \A p \in Asked(args, wish) : Before(p, h2) <=> Before(p, h) \/ p = h
    BY <1>1 DEF Follows
<1>3. QED
    BY <1>2 DEF Upto

LEMMA StageIs ==
    ASSUME NEW args, NEW p
    PROVE  StageOf(args, p) = Cardinality(Upto(args, "decompress", p))
BY DEF StageOf, Upto

(* What was read so far is for the stages there are. *)
LEMMA StageOfSeen ==
    ASSUME NEW args, NEW st, NEW h, h[1] \in Int, h[2] \in Int,
           SaysUpto(args, st, h), Len(st) \in Nat,
           NEW wish, NEW p \in Upto(args, wish, h)
    PROVE  StageOf(args, p) <= Len(st) /\ StageOf(args, p) \in Nat
<1> DEFINE S == Upto(args, "decompress", p)
           T == Upto(args, "decompress", h)
<1>1. p \in Asked(args, wish) /\ Before(p, h)
    BY DEF Upto
<1>2. p[1] \in Int /\ p[2] \in Int
    BY <1>1, AskedIs
<1>3. ASSUME NEW d \in S
      PROVE  d \in T
  <2>1. d \in Asked(args, "decompress") /\ Before(d, p)
    BY DEF Upto
  <2>2. d[1] \in Int /\ d[2] \in Int
    BY <2>1, AskedIs
  <2>3. Before(d, h)
    BY <1>1, <1>2, <2>1, <2>2 DEF Before
  <2>4. QED
    BY <2>1, <2>3 DEF Upto
<1>4. IsFiniteSet(T) /\ Cardinality(T) = Len(st)
    BY DEF SaysUpto
<1> HIDE DEF S, T
<1>5. IsFiniteSet(S) /\ Cardinality(S) <= Cardinality(T)
    BY <1>3, <1>4, FS_Subset
<1>6. Cardinality(S) \in Nat
    BY <1>5, FS_CardinalityType
<1>7. StageOf(args, p) = Cardinality(S)
    BY StageIs DEF S
<1>8. QED
    BY <1>4, <1>5, <1>6, <1>7

(* A step that reads nothing. *)
LEMMA SkipSays ==
    ASSUME NEW args, NEW h, NEW h2, Follows(args, h, h2),
           \A wish \in {"decompress", "pack", "pad"} : h \notin Asked(args, wish),
           NEW st, SaysUpto(args, st, h)
    PROVE  SaysUpto(args, st, h2)
<1>1. \A wish \in {"decompress", "pack", "pad"} :
          Upto(args, wish, h2) = Upto(args, wish, h)
    BY Grown
<1>2. QED
    BY <1>1, Zenon DEF SaysUpto

(* A stage is pushed: what was read before is for an earlier one. *)
LEMMA PushSays ==
    ASSUME NEW args, NEW h, NEW h2, Follows(args, h, h2), h \in Asked(args, "decompress"),
           NEW st \in Seq(StageType), SaysUpto(args, st, h)
    PROVE  SaysUpto(args, Append(st, DefaultStage), h2)
<1> DEFINE T == Upto(args, "decompress", h)
           st2 == Append(st, DefaultStage)
<1>1. h[1] \in Int /\ h[2] \in Int /\ ~Before(h, h)
    BY AskedIs DEF Before
<1>2. Len(st) \in Nat /\ Len(st2) = Len(st) + 1 /\ st2[Len(st) + 1] = DefaultStage
      /\ \A s \in 1..Len(st) : st2[s] = st[s]
    BY DefaultIsStage
<1>3. IsFiniteSet(T) /\ Cardinality(T) = Len(st) /\ h \notin T
    BY <1>1 DEF SaysUpto, Upto
<1>4. Upto(args, "decompress", h2) = T \cup {h}
    BY Grown
<1>5. \A option \in {"pack", "pad"} : Upto(args, option, h2) = Upto(args, option, h)
  <2>1. \A option \in {"pack", "pad"} : h \notin Asked(args, option)
    BY AskedIs
  <2>2. QED
    BY <2>1, Grown
<1> HIDE DEF T, st2
<1>6. IsFiniteSet(T \cup {h}) /\ Cardinality(T \cup {h}) = Len(st2)
    BY <1>2, <1>3, FS_AddElement
<1>7. ASSUME NEW option \in {"pack", "pad"}
      PROVE  /\ \A p \in Upto(args, option, h2) : StageOf(args, p) # 0
             /\ \A s \in 1..Len(st2) :
                   Means(args, st2[s], s, option, Upto(args, option, h2))
  <2> DEFINE P == Upto(args, option, h)
  <2>1. /\ \A p \in P : StageOf(args, p) # 0
        /\ \A s \in 1..Len(st) : Means(args, st[s], s, option, P)
    BY DEF SaysUpto
  <2>2. \A p \in P : StageOf(args, p) <= Len(st) /\ StageOf(args, p) \in Nat
    BY <1>1, <1>2, StageOfSeen
  <2> HIDE DEF P
  <2>3. Means(args, st2[Len(st) + 1], Len(st) + 1, option, P)
    BY <1>2, <2>2 DEF Means
  <2>4. \A s \in 1..Len(st2) : Means(args, st2[s], s, option, P)
    <3> TAKE s \in 1..Len(st2)
    <3>1. CASE s = Len(st) + 1
        BY <2>3, <3>1
    <3>2. CASE s \in 1..Len(st)
        BY <1>2, <2>1, <3>2
    <3>3. QED
        BY <1>2, <3>1, <3>2
  <2>5. Upto(args, option, h2) = P
    BY <1>5 DEF P
  <2>6. QED
    BY <2>1, <2>4, <2>5
<1>8. SaysUpto(args, st2, h2)
    BY <1>4, <1>6, <1>7 DEF SaysUpto
<1>9. QED
    BY <1>8 DEF st2

(* A value is given: it is the last one so far for the last stage. *)
LEMMA SetSays ==
    ASSUME NEW args, NEW h, NEW h2, Follows(args, h, h2), NEW option \in {"pack", "pad"},
           h \in Asked(args, option),
           NEW st \in Seq(StageType), SaysUpto(args, st, h), Len(st) # 0,
           NEW w, w = ValueOf(args, h), NEW st2,
           st2 = [st EXCEPT ![Len(st)][option] = w]
    PROVE  SaysUpto(args, st2, h2)
<1> DEFINE T == Upto(args, "decompress", h)
<1>1. h[1] \in Int /\ h[2] \in Int /\ ~Before(h, h)
    BY AskedIs DEF Before
<1>2. Len(st) \in Nat \ {0} /\ st[Len(st)] \in StageType
    OBVIOUS
<1>3. st[Len(st)] = [pack |-> st[Len(st)].pack, pad |-> st[Len(st)].pad]
    BY <1>2 DEF StageType
<1>4. st2[Len(st)] = [st[Len(st)] EXCEPT ![option] = w]
    BY <1>2
<1>5. /\ Len(st2) = Len(st)
      /\ \A s \in 1..Len(st) : s # Len(st) => st2[s] = st[s]
  <2> DEFINE new == [st[Len(st)] EXCEPT ![option] = w]
  <2>1. st2 = [st EXCEPT ![Len(st)] = new]
    OBVIOUS
  <2> HIDE DEF new
  <2>2. DOMAIN st2 = 1..Len(st)
    BY <2>1
  <2>3. QED
    BY <1>2, <2>1, <2>2
<1>6. /\ st2[Len(st)][option] = w
      /\ \A o \in {"pack", "pad"} : o # option => st2[Len(st)][o] = st[Len(st)][o]
    BY <1>3, <1>4
<1>7. Upto(args, "decompress", h2) = T
    BY AskedIs, Grown
<1>8. Cardinality(T) = Len(st) /\ IsFiniteSet(T) /\ StageOf(args, h) = Len(st)
    BY StageIs DEF SaysUpto
<1> HIDE DEF T
<1>9. ASSUME NEW o \in {"pack", "pad"}
      PROVE  /\ \A p \in Upto(args, o, h2) : StageOf(args, p) # 0
             /\ \A s \in 1..Len(st2) : Means(args, st2[s], s, o, Upto(args, o, h2))
  <2> DEFINE P == Upto(args, o, h)
             P2 == Upto(args, o, h2)
  <2>1. /\ \A p \in P : StageOf(args, p) # 0
        /\ \A s \in 1..Len(st) : Means(args, st[s], s, o, P)
    BY DEF SaysUpto
  <2>2. CASE o # option
    <3>1. P2 = P
        BY <2>2, AskedIs, Grown
    <3> HIDE DEF P, P2
    <3>2. \A s \in 1..Len(st) : st2[s][o] = st[s][o]
        BY <1>5, <1>6, <2>2
    <3>3. ASSUME NEW s \in 1..Len(st)
          PROVE  Means(args, st2[s], s, o, P)
      <4>1. Means(args, st[s], s, o, P) /\ st2[s][o] = st[s][o]
          BY <2>1, <3>2
      <4>2. QED
          BY <4>1, Zenon DEF Means
    <3>4. QED
        BY <1>5, <2>1, <3>1, <3>3 DEF P2
  <2>3. CASE o = option
    <3>1. P2 = P \cup {h}
        BY <2>3, Grown
    <3>2. \A p \in P : Before(p, h) /\ p[1] \in Int /\ p[2] \in Int
        BY AskedIs DEF Upto
    <3>3. \A p \in P : ~Before(h, p)
        BY <1>1, <3>2 DEF Before
    <3> HIDE DEF P, P2
    <3>4. Means(args, st2[Len(st)], Len(st), o, P2)
        BY <1>1, <1>6, <1>8, <2>3, <3>1, <3>3 DEF Means
    <3>5. ASSUME NEW s \in 1..Len(st), s # Len(st)
          PROVE  Means(args, st2[s], s, o, P2)
      <4>1. {p \in P2 : StageOf(args, p) = s} = {p \in P : StageOf(args, p) = s}
          BY <1>8, <3>1, <3>5
      <4>2. Means(args, st[s], s, o, P) /\ st2[s] = st[s]
          BY <1>5, <2>1, <3>5
      <4>3. QED
          BY <4>1, <4>2, Zenon DEF Means
    <3>6. \A p \in P2 : StageOf(args, p) # 0
        BY <1>2, <1>8, <2>1, <3>1
    <3>7. QED
        BY <1>5, <3>4, <3>5, <3>6 DEF P2
  <2>4. QED
    BY <2>2, <2>3
<1>10. QED
    BY <1>5, <1>7, <1>8, <1>9 DEF SaysUpto

(* Over the rest of an argument, and its value if it took one. *)
LEMMA Jump ==
    ASSUME NEW args, NEW k \in Nat, NEW n \in Nat \ {0}, NEW k2 \in {k + 1, k + 2},
           Role(args)[k] = "option" => Len(Wishes(args[k])) <= n,
           k2 = k + 2 /\ k + 1 <= Len(args) => Role(args)[k + 1] # "option",
           Len(args) \in Nat
    PROVE  Follows(args, <<k, n>>, <<k2, 1>>)
<1> DEFINE h == <<k, n>>
           h2 == <<k2, 1>>
<1>1. h[1] = k /\ h[2] = n /\ h2[1] = k2 /\ h2[2] = 1
    OBVIOUS
<1>2. ASSUME NEW p \in Places(args)
      PROVE  Before(p, h2) <=> Before(p, h) \/ p = h
  <2>1. IsPlace(args, p)
    BY PlaceIs
  <2> DEFINE q == p[1]
             r == p[2]
  <2>2. p = <<q, r>> /\ q \in 1..Len(args) /\ Role(args)[q] = "option"
        /\ r \in 1..Len(Wishes(args[q]))
    BY <2>1 DEF IsPlace
  <2>3. p = h <=> q = k /\ r = n
    BY <2>2
  <2> HIDE DEF q, r, h, h2
  <2>4. q \in Int /\ r \in Int /\ r >= 1
    BY <2>2
  <2>5. q < k2 <=> q <= k
    BY <2>2, <2>4
  <2>6. q = k => r <= n
    BY <2>2
  <2>7. Before(p, h2) <=> q <= k
    BY <1>1, <2>4, <2>5 DEF Before, q, r
  <2>8. Before(p, h) <=> q < k \/ (q = k /\ r < n)
    BY <1>1 DEF Before, q, r
  <2>9. QED
    BY <2>3, <2>4, <2>6, <2>7, <2>8
<1>3. QED
    BY <1>2 DEF Follows

LEMMA JumpOne ==
    ASSUME NEW args, NEW k \in Nat, NEW n \in Nat \ {0},
           Role(args)[k] = "option" => Len(Wishes(args[k])) <= n, Len(args) \in Nat
    PROVE  Follows(args, <<k, n>>, <<k + 1, 1>>)
<1>1. k + 1 \in {k + 1, k + 2} /\ ~(k + 1 = k + 2)
    OBVIOUS
<1>2. k + 1 = k + 2 /\ k + 1 <= Len(args) => Role(args)[k + 1] # "option"
    BY <1>1
<1>3. QED
    BY <1>1, <1>2, Jump, Zenon

(* To the next letter. *)
LEMMA NextIs ==
    ASSUME NEW args, NEW k \in Nat, NEW n \in Nat
    PROVE  Follows(args, <<k, n>>, <<k, n + 1>>)
<1> DEFINE h == <<k, n>>
           h2 == <<k, n + 1>>
<1>1. h[1] = k /\ h[2] = n /\ h2[1] = k /\ h2[2] = n + 1
    OBVIOUS
<1>2. ASSUME NEW p \in Places(args)
      PROVE  Before(p, h2) <=> Before(p, h) \/ p = h
  <2>1. p = <<p[1], p[2]>> /\ p[1] \in Int /\ p[2] \in Int
    BY PlaceIs DEF IsPlace
  <2>2. p = h <=> p[1] = k /\ p[2] = n
    BY <2>1
  <2> HIDE DEF h, h2
  <2>3. QED
    BY <1>1, <2>1, <2>2 DEF Before
<1>3. QED
    BY <1>2 DEF Follows

(* The file names are the operands before the argument at hand. *)
LEMMA NoName ==
    ASSUME NEW args, NEW k \in Nat, NEW k2 \in {k + 1, k + 2}, NEW a, NEW b,
           NamesUpto(args, k, a, b), k \notin Operands(args),
           k2 = k + 2 => k + 1 \notin Operands(args)
    PROVE  NamesUpto(args, k2, a, b)
<1>1. Operands(args) \subseteq Int
    BY DEF Operands
<1>2. ASSUME NEW m \in Operands(args)
      PROVE  m < k2 <=> m < k
  <2>1. m \in Int /\ m # k /\ (k2 = k + 2 => m # k + 1)
    BY <1>1
  <2>2. QED
    BY <2>1
<1>3. {m \in Operands(args) : m < k2} = {m \in Operands(args) : m < k}
    BY <1>2
<1>4. QED
    BY <1>3 DEF NamesUpto

LEMMA AnotherName ==
    ASSUME NEW args, NEW k \in Nat \ {0}, NEW a \in Nat, NEW b \in Nat,
           NamesUpto(args, k, a, b), k \in Operands(args), a = 0 \/ b = 0
    PROVE  NamesUpto(args, k + 1, IF a = 0 THEN k ELSE a, IF a = 0 THEN b ELSE k)
<1>1. Operands(args) \subseteq Int
    BY DEF Operands
<1>2. {m \in Operands(args) : m < k + 1} = {m \in Operands(args) : m < k} \cup {k}
    BY <1>1
<1>3. {m \in Operands(args) : m < k} = {a, b} \ {0} /\ (b # 0 => a # 0 /\ a < b)
    BY DEF NamesUpto
<1>4. a # 0 => a < k
    BY <1>3
<1>5. a = 0 => b = 0
    BY <1>3
<1>6. CASE a = 0
    BY <1>2, <1>3, <1>5, <1>6 DEF NamesUpto
<1>7. CASE a # 0
    BY <1>2, <1>3, <1>4, <1>7 DEF NamesUpto
<1>8. QED
    BY <1>6, <1>7

-----------------------------------------------------------------------------
(* The parser keeps to it. *)

(* What the parser takes an argument for is its role. *)
LEMMA RoleOfArg ==
    ASSUME IInv, ReadInv, AtArgument
    PROVE  /\ Len(argv) \in Nat /\ i \in 1..Len(argv) /\ parse = "OK" /\ pc = "arg"
           /\ Here = <<i, 1>>
           /\ Role(argv)[i] = IF end THEN "behind"
                              ELSE IF Arg.kind \in {"word", "dash"} THEN "operand"
                              ELSE IF Arg.kind = "dashdash" THEN "end" ELSE "option"
<1>1. Len(argv) \in Nat /\ i \in 1..Len(argv) /\ parse = "OK" /\ pc = "arg"
    BY ArgvIsSeq DEF AtArgument, IInv, ParserInv
<1>2. RoleInv
    BY <1>1 DEF ReadInv
<1>3. Role(argv)[i] = RoleAfter(argv, Role(argv)[i - 1], i)
    BY <1>1, RoleIs
<1>4. QED
    BY <1>1, <1>2, <1>3 DEF RoleInv, RoleAfter, Arg, Here

(* What follows an argument at which the reading is over. *)
LEMMA RoleAfterOption ==
    ASSUME NEW args, Len(args) \in Nat, NEW k \in 1..Len(args), Role(args)[k] = "option",
           k + 1 \in 1..Len(args), WantsValue(args[k])
    PROVE  Role(args)[k + 1] = "value"
<1>1. Role(args)[k + 1] = RoleAfter(args, Role(args)[(k + 1) - 1], k + 1)
    BY RoleIs
<1>2. (k + 1) - 1 = k
    OBVIOUS
<1>3. QED
    BY <1>1, <1>2 DEF RoleAfter

(* Over an argument with at most one thing to ask for. *)
LEMMA OverOne ==
    ASSUME IInv, i \in 1..Len(argv), Len(argv) \in Nat,
           Role(argv)[i] = "option" => Len(Wishes(argv[i])) = 1
    PROVE  Follows(argv, <<i, 1>>, <<i + 1, 1>>)
<1>1. i \in Nat /\ 1 \in Nat \ {0}
    OBVIOUS
<1>2. 1 <= 1
    OBVIOUS
<1>3. Role(argv)[i] = "option" => Len(Wishes(argv[i])) <= 1
    BY <1>2, Zenon
<1>4. QED
    BY <1>1, <1>3, JumpOne, Zenon

LEMMA TakeOperandReads ==
    ASSUME IInv, ReadInv, TakeOperand
    PROVE  ReadInv'
<1>1. AtArgument /\ (end \/ Arg.kind \in {"word", "dash"})
    BY DEF TakeOperand
<1>2. CASE Return("USAGE")
    BY <1>2 DEF Return, ReadInv
<1>3. CASE ~Return("USAGE")
  <2>1. /\ in = 0 \/ out = 0
        /\ in' = IF in = 0 THEN i ELSE in
        /\ out' = IF in = 0 THEN out ELSE i
        /\ i' = i + 1
        /\ UNCHANGED <<argv, pc, letter, end, stages, parse, running>>
    BY <1>3 DEF TakeOperand
  <2>2. /\ Len(argv) \in Nat /\ i \in 1..Len(argv) /\ parse = "OK" /\ pc = "arg"
        /\ Here = <<i, 1>> /\ Here' = <<i + 1, 1>>
        /\ Role(argv)[i] = IF end THEN "behind" ELSE "operand"
    BY <1>1, <2>1, RoleOfArg DEF Here
  <2>3. SaysUpto(argv, stages, <<i, 1>>) /\ NamesUpto(argv, i, in, out) /\ RoleInv
    BY <2>2 DEF ReadInv
  <2>4. SaysUpto(argv, stages, <<i + 1, 1>>)
    <3>1. Follows(argv, <<i, 1>>, <<i + 1, 1>>)
        BY <2>2, OverOne
    <3>2. \A wish \in {"decompress", "pack", "pad"} : <<i, 1>> \notin Asked(argv, wish)
        BY <2>2, AskedIs, PlaceIs DEF IsPlace
    <3>3. QED
        BY <2>3, <3>1, <3>2, SkipSays
  <2>5. NamesUpto(argv, i + 1, in', out')
    <3>1. i \in Operands(argv)
        BY <2>2 DEF Operands
    <3>2. in \in Nat /\ out \in Nat
        BY <2>2 DEF IInv, ParserInv
    <3>3. NamesUpto(argv, i + 1, IF in = 0 THEN i ELSE in, IF in = 0 THEN out ELSE i)
        BY <2>1, <2>2, <2>3, <3>1, <3>2, AnotherName
    <3>4. QED
        BY <2>1, <3>3, Zenon
  <2>6. RoleInv'
    <3>1. (i + 1) - 1 = i /\ pc' = "arg"
        BY <2>1, <2>2
    <3>2. end <=> Role(argv)[i] \in {"end", "behind"}
        BY <2>2
    <3>3. QED
        BY <2>1, <2>2, <3>1, <3>2 DEF RoleInv
  <2>7. QED
    BY <2>1, <2>2, <2>4, <2>5, <2>6 DEF ReadInv
<1>4. QED
    BY <1>2, <1>3

(* On to the argument behind the one at hand, and behind its value: the    *)
(* names and the roles.  What was asked for is left to the step.           *)
LEMMA MoveOn ==
    ASSUME IInv, ReadInv, pc \in {"arg", "letter"}, i \in 1..Len(argv), Len(argv) \in Nat,
           parse = "OK", NEW k \in {i + 1, i + 2},
           i' = k, pc' = "arg", UNCHANGED <<argv, end, in, out, parse>>,
           Role(argv)[i] = "option", k <= Len(argv) + 1,
           IF k = i + 2 THEN WantsValue(argv[i]) ELSE ~WantsValue(argv[i]),
           SaysUpto(argv, stages', <<k, 1>>)
    PROVE  ReadInv'
<1>1. NamesUpto(argv, i, in, out) /\ RoleInv
    BY DEF ReadInv
<1>2. i \notin Operands(argv) /\ Here' = <<k, 1>>
    BY DEF Operands, Here
<1>3. i \in Nat /\ Role(argv)[i] \notin {"end", "behind"}
    OBVIOUS
<1>4. ~end
  <2>1. CASE pc = "arg"
    <3>1. AtArgument
        BY <2>1 DEF AtArgument
    <3>2. QED
        BY <3>1, RoleOfArg
  <2>2. CASE pc = "letter"
    <3>1. Role(argv)[i] = RoleAfter(argv, Role(argv)[i - 1], i)
        BY RoleIs
    <3>2. QED
        BY <1>1, <3>1 DEF RoleInv, RoleAfter
  <2>3. QED
    BY <2>1, <2>2
<1>5. CASE k = i + 1
  <2>1. k - 1 = i
    BY <1>5
  <2>2. RoleInv'
    BY <1>3, <1>4, <1>5, <2>1 DEF RoleInv
  <2>3. NamesUpto(argv, k, in, out)
    BY <1>1, <1>2, <1>3, <1>5, NoName
  <2>4. QED
    BY <1>2, <2>2, <2>3 DEF ReadInv
<1>6. CASE k = i + 2
  <2>1. k - 1 = i + 1 /\ i + 1 \in 1..Len(argv)
    BY <1>6
  <2>2. Role(argv)[i + 1] = "value"
    BY <1>6, <2>1, RoleAfterOption
  <2>3. RoleInv'
    BY <1>4, <2>1, <2>2 DEF RoleInv
  <2>4. i + 1 \notin Operands(argv)
    BY <2>2 DEF Operands
  <2>5. NamesUpto(argv, k, in, out)
    BY <1>1, <1>2, <1>3, <1>6, <2>4, NoName
  <2>6. QED
    BY <1>2, <2>3, <2>5 DEF ReadInv
<1>7. QED
    BY <1>5, <1>6

LEMMA EndOptionsReads ==
    ASSUME IInv, ReadInv, EndOptions
    PROVE  ReadInv'
<1>1. /\ AtArgument /\ ~end /\ Arg.kind = "dashdash" /\ end' = TRUE /\ i' = i + 1
      /\ UNCHANGED <<argv, pc, letter, options, parse, running>>
    BY DEF EndOptions, AtOption
<1>2. /\ Len(argv) \in Nat /\ i \in 1..Len(argv) /\ parse = "OK" /\ pc = "arg"
      /\ Here = <<i, 1>> /\ Here' = <<i + 1, 1>> /\ Role(argv)[i] = "end"
    BY <1>1, RoleOfArg DEF Here
<1>3. SaysUpto(argv, stages, <<i, 1>>) /\ NamesUpto(argv, i, in, out)
    BY <1>2 DEF ReadInv
<1>4. SaysUpto(argv, stages, <<i + 1, 1>>)
  <2>1. Follows(argv, <<i, 1>>, <<i + 1, 1>>)
    BY <1>2, OverOne
  <2>2. \A wish \in {"decompress", "pack", "pad"} : <<i, 1>> \notin Asked(argv, wish)
    BY <1>2, AskedIs, PlaceIs DEF IsPlace
  <2>3. QED
    BY <1>3, <2>1, <2>2, SkipSays
<1>5. NamesUpto(argv, i + 1, in, out)
    BY <1>2, <1>3, NoName DEF Operands
<1>6. RoleInv'
  <2>1. (i + 1) - 1 = i /\ pc' = "arg"
    BY <1>1, <1>2
  <2>2. QED
    BY <1>1, <1>2, <2>1 DEF RoleInv
<1>7. QED
    BY <1>1, <1>2, <1>4, <1>5, <1>6 DEF ReadInv, options

(* A long option asks for one thing. *)
LEMMA LongIs ==
    ASSUME IInv, ReadInv, AtLong
    PROVE  /\ AtArgument /\ ~end /\ Role(argv)[i] = "option"
           /\ Wishes(argv[i]) = <<Arg.name>>
           /\ WantsValue(argv[i]) <=> Arg.name \in {"pack", "pad"} /\ Arg.value = NoValue
           /\ \A wish : <<i, 1>> \in Asked(argv, wish) <=> wish = Arg.name
           /\ Follows(argv, <<i, 1>>, <<i + 1, 1>>)
<1>1. AtArgument /\ ~end /\ Arg.kind = "long"
    BY DEF AtLong, AtOption
<1>2. Len(argv) \in Nat /\ i \in 1..Len(argv) /\ Role(argv)[i] = "option" /\ Arg = argv[i]
    BY <1>1, RoleOfArg DEF Arg
<1>3. Wishes(argv[i]) = <<Arg.name>>
    BY <1>1, <1>2 DEF Wishes
<1>4. WantsValue(argv[i]) <=> Arg.name \in {"pack", "pad"} /\ Arg.value = NoValue
    BY <1>1, <1>2 DEF WantsValue
<1>5. <<i, 1>> \in Places(argv)
  <2> DEFINE p == <<i, 1>>
  <2>1. p[1] = i /\ p[2] = 1 /\ p = <<p[1], p[2]>>
    OBVIOUS
  <2>2. Len(Wishes(argv[i])) = 1
    BY <1>3
  <2> HIDE DEF p
  <2>3. IsPlace(argv, p)
    BY <1>2, <2>1, <2>2 DEF IsPlace
  <2>4. p \in Places(argv)
    BY <2>3, PlaceIs
  <2>5. QED
    BY <2>4 DEF p
<1>6. \A wish : <<i, 1>> \in Asked(argv, wish) <=> wish = Arg.name
    BY <1>3, <1>5 DEF Asked
<1>7. Follows(argv, <<i, 1>>, <<i + 1, 1>>)
    BY <1>2, <1>3, OverOne
<1>8. QED
    BY <1>1, <1>2, <1>3, <1>4, <1>6, <1>7

(* A stage is asked for by a long option. *)
LEMMA LongDecompressReads ==
    ASSUME IInv, ReadInv, LongDecompress
    PROVE  ReadInv'
<1>1. AtLong /\ Arg.name = "decompress"
    BY DEF LongDecompress
<1>2. CASE Return("USAGE")
    BY <1>2 DEF Return, ReadInv
<1>3. CASE ~Return("USAGE")
  <2>1. /\ stages' = Append(stages, DefaultStage)
        /\ NextArgument
        /\ UNCHANGED <<argv, letter, end, in, out, parse, running>>
    BY <1>3 DEF LongDecompress, push_stage
  <2>2. /\ Role(argv)[i] = "option" /\ ~WantsValue(argv[i])
        /\ <<i, 1>> \in Asked(argv, "decompress")
        /\ Follows(argv, <<i, 1>>, <<i + 1, 1>>) /\ AtArgument
    BY <1>1, LongIs
  <2>3. /\ Len(argv) \in Nat /\ i \in 1..Len(argv) /\ parse = "OK" /\ pc = "arg"
        /\ Here = <<i, 1>>
    BY <2>2, RoleOfArg
  <2>4. SaysUpto(argv, stages, <<i, 1>>) /\ stages \in Seq(StageType)
    BY <2>3 DEF ReadInv, IInv, ParserInv
  <2>5. SaysUpto(argv, Append(stages, DefaultStage), <<i + 1, 1>>)
    BY <2>2, <2>4, PushSays, Zenon
  <2>6. SaysUpto(argv, stages', <<i + 1, 1>>)
    BY <2>1, <2>5, Zenon
  <2>7. QED
    BY <2>1, <2>2, <2>3, <2>6, MoveOn DEF NextArgument
<1>4. QED
    BY <1>2, <1>3

LEMMA LongVerboseReads ==
    ASSUME IInv, ReadInv, LongVerbose
    PROVE  ReadInv'
<1>1. AtLong /\ Arg.name = "verbose"
    BY DEF LongVerbose
<1>2. CASE Return("USAGE")
    BY <1>2 DEF Return, ReadInv
<1>3. CASE ~Return("USAGE")
  <2>1. NextArgument /\ UNCHANGED <<argv, letter, end, options, parse, running>>
    BY <1>3 DEF LongVerbose
  <2>2. /\ Role(argv)[i] = "option" /\ ~WantsValue(argv[i])
        /\ \A wish \in {"decompress", "pack", "pad"} : <<i, 1>> \notin Asked(argv, wish)
        /\ Follows(argv, <<i, 1>>, <<i + 1, 1>>) /\ AtArgument
    BY <1>1, LongIs
  <2>3. /\ Len(argv) \in Nat /\ i \in 1..Len(argv) /\ parse = "OK" /\ pc = "arg"
        /\ Here = <<i, 1>>
    BY <2>2, RoleOfArg
  <2>4. SaysUpto(argv, stages, <<i, 1>>)
    BY <2>3 DEF ReadInv
  <2>5. SaysUpto(argv, stages, <<i + 1, 1>>)
    BY <2>2, <2>4, SkipSays, Zenon
  <2>6. stages' = stages /\ i' = i + 1 /\ pc' = "arg"
        /\ UNCHANGED <<argv, end, in, out, parse>>
    BY <2>1 DEF NextArgument, options
  <2>7. SaysUpto(argv, stages', <<i + 1, 1>>)
    BY <2>5, <2>6, Zenon
  <2>8. QED
    BY <2>2, <2>3, <2>6, <2>7, MoveOn
<1>4. QED
    BY <1>2, <1>3

(* The value that parse_pack and parse_pad take is the one that was meant, *)
(* and it is for the stage that was asked for last.                        *)
LEMMA SetOptionReads ==
    ASSUME IInv, ReadInv, pc \in {"arg", "letter"}, i \in 1..Len(argv), Len(argv) \in Nat,
           parse = "OK", Role(argv)[i] = "option", NEW option \in {"pack", "pad"},
           NEW n \in Nat \ {0}, Here = <<i, n>>, <<i, n>> \in Asked(argv, option),
           Len(Wishes(argv[i])) <= n,
           WantsValue(argv[i]) <=> argv[i].value = NoValue,
           SetOption(option, argv[i].value)
    PROVE  ReadInv'
<1> DEFINE h == <<i, n>>
           v == take_value(argv[i].value)
           usable == {w \in Values[option] : v.value = Operand(w)}
<1>1. CASE Return("USAGE")
    BY <1>1 DEF Return, ReadInv
<1>2. CASE ~Return("USAGE")
  <2>1. /\ current_stage # 0
        /\ \E w \in usable : stages' = [stages EXCEPT ![current_stage][option] = w]
        /\ i' = v.last + 1
        /\ pc' = "arg"
        /\ UNCHANGED <<argv, letter, end, in, out, parse, running>>
    BY <1>2 DEF SetOption
  <2>2. PICK w \in usable : stages' = [stages EXCEPT ![current_stage][option] = w]
    BY <2>1
  <2>3. v.value.kind = "word" /\ v.value.text = w
    BY DEF Operand
  <2>4. v.value # NoValue
    BY <2>3 DEF NoValue
  <2>5. w = ValueOf(argv, h) /\ v.last \in {i, i + 1} /\ v.last <= Len(argv)
        /\ IF v.last = i + 1 THEN WantsValue(argv[i]) ELSE ~WantsValue(argv[i])
    <3>1. h[1] = i
        OBVIOUS
    <3>2. CASE argv[i].value # NoValue
      <4>1. v = [value |-> argv[i].value, last |-> i]
          BY <3>2 DEF take_value
      <4>2. QED
          BY <2>3, <3>1, <3>2, <4>1 DEF ValueOf
    <3>3. CASE argv[i].value = NoValue
      <4>1. i + 1 <= Len(argv) /\ v = [value |-> argv[i + 1], last |-> i + 1]
          BY <2>4, <3>3 DEF take_value
      <4>2. QED
          BY <2>3, <3>1, <3>3, <4>1 DEF ValueOf
    <3>4. QED
        BY <3>2, <3>3
  <2> DEFINE k == v.last + 1
  <2>6. k \in {i + 1, i + 2} /\ k <= Len(argv) + 1 /\ i' = k
        /\ IF k = i + 2 THEN WantsValue(argv[i]) ELSE ~WantsValue(argv[i])
    BY <2>1, <2>5
  <2> HIDE DEF v, usable
  <2>7. Follows(argv, h, <<k, 1>>)
    <3> HIDE DEF k
    <3>1. i \in Nat /\ k \in {i + 1, i + 2} /\ i \in 1..Len(argv)
        BY <2>6
    <3>2. k = i + 2 /\ i + 1 <= Len(argv) => Role(argv)[i + 1] # "option"
        BY <2>6, RoleAfterOption
    <3>3. Role(argv)[i] = "option" => Len(Wishes(argv[i])) <= n
        OBVIOUS
    <3>4. QED
        BY <3>1, <3>2, <3>3, Jump, Zenon
  <2> HIDE DEF k
  <2>8. SaysUpto(argv, stages, h) /\ stages \in Seq(StageType) /\ Len(stages) # 0
    BY <2>1 DEF ReadInv, IInv, ParserInv, current_stage
  <2>9. stages' = [stages EXCEPT ![Len(stages)][option] = w]
    BY <2>2 DEF current_stage
  <2>10. SaysUpto(argv, stages', <<k, 1>>)
    <3> HIDE DEF h
    <3> DEFINE st2 == stages'
    <3>1. st2 = [stages EXCEPT ![Len(stages)][option] = w] /\ h \in Asked(argv, option)
        BY <2>9 DEF h
    <3> HIDE DEF st2
    <3>2. SaysUpto(argv, st2, <<k, 1>>)
        BY <2>5, <2>7, <2>8, <3>1, SetSays, Zenon
    <3>3. QED
        BY <3>2 DEF st2
  <2>11. pc' = "arg" /\ UNCHANGED <<argv, end, in, out, parse>>
    BY <2>1
  <2>12. QED
    BY <2>6, <2>10, <2>11, MoveOn, Zenon
<1>3. QED
    BY <1>1, <1>2

LEMMA LongValueReads ==
    ASSUME IInv, ReadInv, LongValue
    PROVE  ReadInv'
<1>1. AtLong /\ Arg.name \in {"pack", "pad"} /\ SetOption(Arg.name, argv[i].value) /\ Arg = argv[i]
    BY DEF LongValue, Arg
<1>2. /\ Role(argv)[i] = "option" /\ <<i, 1>> \in Asked(argv, Arg.name) /\ AtArgument
      /\ WantsValue(argv[i]) <=> argv[i].value = NoValue
      /\ Wishes(argv[i]) = <<Arg.name>>
    BY <1>1, LongIs
<1>3. /\ Len(argv) \in Nat /\ i \in 1..Len(argv) /\ parse = "OK" /\ pc = "arg"
      /\ Here = <<i, 1>>
    BY <1>2, RoleOfArg
<1>4. Len(Wishes(argv[i])) <= 1
    BY <1>2
<1>5. 1 \in Nat \ {0} /\ pc \in {"arg", "letter"}
    BY <1>3
<1>6. QED
    BY <1>1, <1>2, <1>3, <1>4, <1>5, SetOptionReads, Zenon

LEMMA ArgsAre ==
    ASSUME argv \in CommandLines
    PROVE  \A k \in 1..Len(argv) : IsArgument(argv[k])
<1> DEFINE S == {argv[k] : k \in DOMAIN argv}
<1>1. argv \in Seq(S) /\ \A k \in DOMAIN argv : IsArgument(argv[k])
    BY CommandLinesAssumption
<1> HIDE DEF S
<1>2. DOMAIN argv = 1..Len(argv)
    BY <1>1
<1>3. QED
    BY <1>1, <1>2

(* Letter by letter. *)
LEMMA BeginLettersReads ==
    ASSUME IInv, ReadInv, BeginLetters
    PROVE  ReadInv'
<1>1. /\ AtArgument /\ ~end /\ Arg.kind = "short" /\ pc' = "letter" /\ letter' = 1
      /\ UNCHANGED <<argv, i, end, options, parse, running>>
    BY DEF BeginLetters, AtOption
<1>2. /\ Len(argv) \in Nat /\ i \in 1..Len(argv) /\ parse = "OK" /\ pc = "arg"
      /\ Here = <<i, 1>> /\ Here' = <<i, 1>> /\ Role(argv)[i] = "option"
    BY <1>1, RoleOfArg DEF Here
<1>3. Len(Arg.letters) \in Nat \ {0}
  <2>1. IsArgument(argv[i])
    BY <1>2, ArgsAre DEF IInv, ParserInv
  <2>2. QED
    BY <1>1, <2>1 DEF IsArgument, Arg
<1>4. RoleInv'
    BY <1>1, <1>2, <1>3 DEF RoleInv, ReadInv, Arg
<1>5. QED
    BY <1>1, <1>2, <1>4 DEF ReadInv, options

LEMMA LettersAre ==
    ASSUME IInv, ReadInv, pc = "letter"
    PROVE  /\ Len(argv) \in Nat /\ i \in 1..Len(argv) /\ parse = "OK"
           /\ Here = <<i, letter>> /\ letter \in 1..(Len(Arg.letters) + 1)
           /\ Role(argv)[i] = "option" /\ Arg = argv[i] /\ Arg.kind = "short"
           /\ Len(Arg.letters) \in Nat \ {0}
           /\ \A n \in 1..(Len(Arg.letters) - 1) : Arg.letters[n] # "P"
           /\ Len(Wishes(argv[i])) = Len(Arg.letters)
           /\ \A wish : <<i, letter>> \in Asked(argv, wish) <=>
                 letter <= Len(Arg.letters) /\ Wishes(argv[i])[letter] = wish
<1>1. Len(argv) \in Nat /\ i \in 1..Len(argv) /\ parse = "OK"
    BY ArgvIsSeq DEF IInv, ParserInv
<1>2. RoleInv /\ Arg = argv[i] /\ Here = <<i, letter>>
    BY <1>1 DEF ReadInv, Arg, Here
<1>3. IsArgument(argv[i])
    BY <1>1, ArgsAre DEF IInv, ParserInv
<1>4. /\ Role(argv)[i] = "option" /\ Arg.kind = "short" /\ letter \in 1..(Len(Arg.letters) + 1)
      /\ Len(Arg.letters) \in Nat \ {0}
      /\ \A n \in 1..(Len(Arg.letters) - 1) : Arg.letters[n] # "P"
    BY <1>2, <1>3 DEF RoleInv, IsArgument
<1>5. Len(Wishes(argv[i])) = Len(Arg.letters)
    BY <1>2, <1>4 DEF Wishes
<1>6. <<i, letter>> \in Places(argv) <=> letter <= Len(Arg.letters)
  <2> DEFINE p == <<i, letter>>
  <2>1. p[1] = i /\ p[2] = letter /\ p = <<p[1], p[2]>>
    OBVIOUS
  <2> HIDE DEF p
  <2>2. IsPlace(argv, p) <=> letter <= Len(Arg.letters)
    BY <1>1, <1>4, <1>5, <2>1 DEF IsPlace
  <2>3. p \in Places(argv) <=> letter <= Len(Arg.letters)
    BY <2>2, PlaceIs
  <2>4. QED
    BY <2>3 DEF p
<1>7. \A wish : <<i, letter>> \in Asked(argv, wish) <=>
          letter <= Len(Arg.letters) /\ Wishes(argv[i])[letter] = wish
    BY <1>6 DEF Asked
<1>8. QED
    BY <1>1, <1>2, <1>4, <1>5, <1>7

LEMMA WishOfLetter ==
    ASSUME IInv, ReadInv, AtLetter
    PROVE  /\ letter \in 1..Len(Arg.letters) /\ pc = "letter"
           /\ Wishes(argv[i])[letter] =
                 CASE Letter = "d" -> "decompress" [] Letter = "P" -> "pack" [] OTHER -> "nothing"
<1>1. pc = "letter" /\ letter <= Len(Arg.letters)
    BY DEF AtLetter
<1>2. letter \in 1..Len(Arg.letters) /\ Arg = argv[i] /\ Arg.kind = "short"
    BY <1>1, LettersAre
<1>3. QED
    BY <1>1, <1>2 DEF Wishes, Letter

(* After a letter that is not P. *)
LEMMA NextLetterReads ==
    ASSUME IInv, ReadInv, AtLetter, Letter # "P", NextLetter,
           SaysUpto(argv, stages', <<i, letter + 1>>)
    PROVE  ReadInv'
<1>1. letter \in 1..Len(Arg.letters) /\ pc = "letter"
    BY WishOfLetter
<1>2. Len(Arg.letters) \in Nat /\ parse = "OK"
    BY <1>1, LettersAre
<1>3. letter' = letter + 1 /\ UNCHANGED <<argv, pc, i, end, in, out, parse, running>>
    BY DEF NextLetter
<1>4. RoleInv /\ NamesUpto(argv, i, in, out)
    BY <1>1, <1>2 DEF ReadInv
<1>5. \A n \in 1..((letter + 1) - 1) : Arg.letters[n] # "P"
  <2> TAKE n \in 1..((letter + 1) - 1)
  <2>1. n \in 1..(letter - 1) \/ n = letter
    BY <1>1
  <2>2. QED
    BY <1>1, <1>4, <2>1 DEF RoleInv, Letter
<1>6. RoleInv'
    BY <1>1, <1>2, <1>3, <1>4, <1>5 DEF RoleInv, Arg
<1>7. Here' = <<i, letter + 1>>
    BY <1>1, <1>3 DEF Here
<1>8. QED
    BY <1>1, <1>2, <1>3, <1>4, <1>6, <1>7 DEF ReadInv

LEMMA LetterDReads ==
    ASSUME IInv, ReadInv, LetterD
    PROVE  ReadInv'
<1>1. AtLetter /\ Letter = "d"
    BY DEF LetterD
<1>2. CASE Return("USAGE")
    BY <1>2 DEF Return, ReadInv
<1>3. CASE ~Return("USAGE")
  <2>1. stages' = Append(stages, DefaultStage) /\ NextLetter
    BY <1>3 DEF LetterD, push_stage
  <2>2. /\ letter \in 1..Len(Arg.letters) /\ pc = "letter"
        /\ Wishes(argv[i])[letter] = "decompress"
    BY <1>1, WishOfLetter
  <2>3. /\ i \in Nat /\ letter \in Nat /\ Here = <<i, letter>> /\ parse = "OK"
        /\ <<i, letter>> \in Asked(argv, "decompress")
    BY <2>2, LettersAre
  <2>4. Follows(argv, <<i, letter>>, <<i, letter + 1>>)
    BY <2>3, NextIs
  <2>5. SaysUpto(argv, stages, <<i, letter>>) /\ stages \in Seq(StageType)
    BY <2>3 DEF ReadInv, IInv, ParserInv
  <2>6. SaysUpto(argv, Append(stages, DefaultStage), <<i, letter + 1>>)
    BY <2>3, <2>4, <2>5, PushSays, Zenon
  <2>7. SaysUpto(argv, stages', <<i, letter + 1>>)
    BY <2>1, <2>6, Zenon
  <2>8. QED
    BY <1>1, <2>1, <2>7, NextLetterReads
<1>4. QED
    BY <1>2, <1>3

LEMMA LetterVReads ==
    ASSUME IInv, ReadInv, LetterV
    PROVE  ReadInv'
<1>1. AtLetter /\ Letter = "v" /\ NextLetter /\ stages' = stages
    BY DEF LetterV
<1>2. /\ letter \in 1..Len(Arg.letters) /\ pc = "letter"
      /\ Wishes(argv[i])[letter] = "nothing"
    BY <1>1, WishOfLetter
<1>3. /\ i \in Nat /\ letter \in Nat /\ Here = <<i, letter>> /\ parse = "OK"
      /\ \A wish \in {"decompress", "pack", "pad"} : <<i, letter>> \notin Asked(argv, wish)
    BY <1>2, LettersAre
<1>4. Follows(argv, <<i, letter>>, <<i, letter + 1>>)
    BY <1>3, NextIs
<1>5. SaysUpto(argv, stages, <<i, letter>>)
    BY <1>3 DEF ReadInv
<1>6. SaysUpto(argv, stages, <<i, letter + 1>>)
    BY <1>3, <1>4, <1>5, SkipSays, Zenon
<1>7. SaysUpto(argv, stages', <<i, letter + 1>>)
    BY <1>1, <1>6, Zenon
<1>8. QED
    BY <1>1, <1>7, NextLetterReads

(* What is behind a P is its value, so P is the last letter. *)
LEMMA LetterPReads ==
    ASSUME IInv, ReadInv, LetterP
    PROVE  ReadInv'
<1>1. AtLetter /\ Letter = "P" /\ SetOption("pack", Arg.value)
    BY DEF LetterP
<1>2. /\ letter \in 1..Len(Arg.letters) /\ pc = "letter"
      /\ Wishes(argv[i])[letter] = "pack"
    BY <1>1, WishOfLetter
<1>3. /\ Len(argv) \in Nat /\ i \in 1..Len(argv) /\ parse = "OK"
      /\ Here = <<i, letter>> /\ letter \in 1..(Len(Arg.letters) + 1)
      /\ Role(argv)[i] = "option" /\ Arg = argv[i] /\ Arg.kind = "short"
      /\ Len(Arg.letters) \in Nat \ {0}
      /\ \A n \in 1..(Len(Arg.letters) - 1) : Arg.letters[n] # "P"
      /\ Len(Wishes(argv[i])) = Len(Arg.letters)
      /\ <<i, letter>> \in Asked(argv, "pack")
    BY <1>2, LettersAre
<1>4. letter = Len(Arg.letters)
    BY <1>1, <1>2, <1>3 DEF Letter
<1>5. WantsValue(argv[i]) <=> argv[i].value = NoValue
    BY <1>1, <1>3, <1>4 DEF WantsValue, Letter
<1>6. letter \in Nat \ {0} /\ Len(Wishes(argv[i])) <= letter /\ pc \in {"arg", "letter"}
      /\ SetOption("pack", argv[i].value) /\ "pack" \in {"pack", "pad"}
    BY <1>1, <1>2, <1>3, <1>4
<1>7. QED
    BY <1>3, <1>5, <1>6, SetOptionReads, Zenon

LEMMA EndLettersReads ==
    ASSUME IInv, ReadInv, EndLetters
    PROVE  ReadInv'
<1>1. /\ pc = "letter" /\ letter > Len(Arg.letters) /\ i' = i + 1 /\ pc' = "arg"
      /\ stages' = stages /\ UNCHANGED <<argv, end, in, out, parse>>
    BY DEF EndLetters, NextArgument, options
<1>2. /\ Len(argv) \in Nat /\ i \in 1..Len(argv) /\ parse = "OK"
      /\ Here = <<i, letter>> /\ letter \in 1..(Len(Arg.letters) + 1)
      /\ Role(argv)[i] = "option" /\ Arg = argv[i] /\ Arg.kind = "short"
      /\ Len(Arg.letters) \in Nat \ {0}
      /\ Len(Wishes(argv[i])) = Len(Arg.letters)
      /\ \A wish : <<i, letter>> \in Asked(argv, wish) <=>
            letter <= Len(Arg.letters) /\ Wishes(argv[i])[letter] = wish
    BY <1>1, LettersAre
<1>3. letter = Len(Arg.letters) + 1
    BY <1>1, <1>2
<1>4. \A wish \in {"decompress", "pack", "pad"} : <<i, letter>> \notin Asked(argv, wish)
    BY <1>2, <1>3
<1>5. ~WantsValue(argv[i])
  <2>1. \A n \in 1..(letter - 1) : Arg.letters[n] # "P"
    BY <1>1, <1>2 DEF ReadInv, RoleInv
  <2>2. Len(Arg.letters) \in 1..(letter - 1)
    BY <1>2, <1>3
  <2>3. QED
    BY <1>2, <2>1, <2>2 DEF WantsValue
<1>6. Follows(argv, <<i, letter>>, <<i + 1, 1>>)
  <2>1. i \in Nat /\ letter \in Nat \ {0}
    BY <1>2
  <2>2. Len(Arg.letters) <= letter
    BY <1>2, <1>3
  <2>3. Role(argv)[i] = "option" => Len(Wishes(argv[i])) <= letter
    BY <1>2, <2>2, Zenon
  <2>4. QED
    BY <1>2, <2>1, <2>3, JumpOne, Zenon
<1>7. SaysUpto(argv, stages, <<i, letter>>)
    BY <1>1, <1>2 DEF ReadInv
<1>8. SaysUpto(argv, stages, <<i + 1, 1>>)
    BY <1>4, <1>6, <1>7, SkipSays, Zenon
<1>9. SaysUpto(argv, stages', <<i + 1, 1>>)
    BY <1>1, <1>8, Zenon
<1>10. QED
    BY <1>1, <1>2, <1>5, <1>9, MoveOn

LEMMA ParseReads ==
    ASSUME IInv, ReadInv, Parse
    PROVE  ReadInv'
<1>1. ASSUME EndArguments
      PROVE  ReadInv'
  <2>1. /\ pc = "arg" /\ pc' = "parsed" /\ i > Len(argv)
        /\ UNCHANGED <<argv, i, letter, end, options, running>>
    BY <1>1 DEF EndArguments, Return
  <2>2. parse = "OK" /\ Here' = Here
    BY <2>1 DEF IInv, ParserInv, Here
  <2>3. QED
    BY <2>1, <2>2 DEF ReadInv, options
<1>2. ASSUME NEW r, r # "OK", Return(r)
      PROVE  ReadInv'
    BY <1>2 DEF Return, ReadInv
<1>3. ASSUME LongText \/ LongUnknown \/ LetterUnknown
      PROVE  ReadInv'
  <2>1. Return("USAGE") \/ Return("version") \/ Return("help")
    BY <1>3 DEF LongText, LongUnknown, LetterUnknown
  <2>2. QED
    BY <1>2, <2>1
<1>4. QED
    BY <1>1, <1>3, TakeOperandReads, EndOptionsReads, LongDecompressReads, LongValueReads,
       LongVerboseReads, BeginLettersReads, LetterDReads, LetterVReads, LetterPReads,
       EndLettersReads
       DEF Parse, ParseLong, ParseShort

(* main leaves the options as they were read. *)
LEMMA MainReads ==
    ASSUME IInv, ReadInv, Main
    PROVE  ReadInv'
<1>1. /\ pc \notin {"arg", "letter"} /\ pc' \notin {"arg", "letter"}
      /\ UNCHANGED <<argv, i, stages, in, out, parse>>
    BY DEF Main, Open, RunStage, StagesDone, Close, Exit, parsing, options
<1>2. Here' = Here
    BY <1>1 DEF Here
<1>3. QED
    BY <1>1, <1>2 DEF ReadInv

LEMMA InitReads == Init => ReadInv
<1> SUFFICES ASSUME Init
             PROVE  ReadInv
    OBVIOUS
<1>1. /\ pc = "arg" /\ i = 1 /\ end = FALSE /\ stages = <<>> /\ in = 0 /\ out = 0
      /\ Here = <<1, 1>> /\ Len(argv) \in Nat
    BY ArgvIsSeq DEF Init, Here
<1>2. \A wish : Upto(argv, wish, <<1, 1>>) = {}
  <2>1. ASSUME NEW wish, NEW p \in Upto(argv, wish, <<1, 1>>)
        PROVE  FALSE
    <3> DEFINE h == <<1, 1>>
    <3>1. p \in Places(argv) /\ Before(p, h) /\ h[1] = 1 /\ h[2] = 1
        BY AskedIs DEF Upto
    <3>2. p[1] \in 1..Len(argv) /\ p[2] \in 1..Len(Wishes(argv[p[1]]))
        BY <3>1, PlaceIs DEF IsPlace
    <3> HIDE DEF h
    <3>3. QED
        BY <1>1, <3>1, <3>2 DEF Before
  <2>2. QED
    BY <2>1
<1>3. SaysUpto(argv, stages, <<1, 1>>)
    BY <1>1, <1>2, FS_EmptySet DEF SaysUpto
<1>4. NamesUpto(argv, 1, in, out)
    BY <1>1 DEF NamesUpto, Operands
<1>5. RoleInv
    BY <1>1, RoleIs DEF RoleInv
<1>6. QED
    BY <1>1, <1>3, <1>4, <1>5 DEF ReadInv

(* When parsing is over, everything was read. *)
LEMMA ReadMeans == IInv /\ ReadInv => OptionsMeanWhatTheySay
<1> SUFFICES ASSUME IInv, ReadInv, pc \notin {"arg", "letter"}, parse = "OK"
             PROVE  /\ Len(stages) = Cardinality(Asked(argv, "decompress"))
                    /\ \A option \in {"pack", "pad"} :
                          /\ \A p \in Asked(argv, option) : StageOf(argv, p) # 0
                          /\ \A s \in 1..Len(stages) :
                                Means(argv, stages[s], s, option, Asked(argv, option))
                    /\ Operands(argv) = {in, out} \ {0}
                    /\ out # 0 => in # 0 /\ in < out
    BY DEF OptionsMeanWhatTheySay
<1>1. i > Len(argv) /\ Here = <<i, 1>> /\ i \in Nat /\ Len(argv) \in Nat
      /\ SaysUpto(argv, stages, <<i, 1>>) /\ NamesUpto(argv, i, in, out)
    BY ArgvIsSeq DEF ReadInv, Here, IInv, ParserInv
<1>2. \A wish : Upto(argv, wish, <<i, 1>>) = Asked(argv, wish)
  <2>1. ASSUME NEW wish, NEW p \in Asked(argv, wish)
        PROVE  Before(p, <<i, 1>>)
    <3> DEFINE h == <<i, 1>>
    <3>1. p[1] \in 1..Len(argv) /\ h[1] = i
        BY AskedIs, PlaceIs DEF IsPlace
    <3> HIDE DEF h
    <3>2. Before(p, h)
        BY <1>1, <3>1 DEF Before
    <3>3. QED
        BY <3>2 DEF h
  <2>2. QED
    BY <2>1 DEF Upto
<1>3. \A m \in Operands(argv) : m < i
    BY <1>1 DEF Operands
<1>4. {m \in Operands(argv) : m < i} = Operands(argv)
    BY <1>3
<1>5. QED
    BY <1>1, <1>2, <1>4 DEF SaysUpto, NamesUpto

(* What was asked for before the place the parser is at is what the stages *)
(* and file names hold, and an argument is taken for what it is.           *)
THEOREM Reading == Spec => []ReadInv
<1>1. IInv /\ ReadInv /\ [Next]_vars => ReadInv'
  <2> SUFFICES ASSUME IInv, ReadInv, [Next]_vars
               PROVE  ReadInv'
    OBVIOUS
  <2>1. CASE UNCHANGED vars
    BY <2>1 DEF ReadInv, RoleInv, Here, Arg, vars
  <2>2. QED
    BY <2>1, ParseReads, MainReads DEF Next
<1>2. QED
    BY <1>1, InitReads, Invariance, PTL DEF Spec

(* An accepted list of arguments means what it says: a stage for each one  *)
(* asked for, with the last value given for it before the next, and the    *)
(* operands as file names, for every list and every number of stages.      *)
THEOREM OptionsAreMeant == Spec => []OptionsMeanWhatTheySay
<1>1. QED
    BY ReadMeans, Reading, Invariance, PTL

-----------------------------------------------------------------------------
(* The program ends: what is left of its parts, of the arguments, and of   *)
(* the letters or the stages becomes less with every step.                 *)

PartsLeft ==
    CASE pc \in {"arg", "letter"} -> 4 [] pc = "parsed" -> 3 [] pc = "stage" -> 2
      [] pc = "close" -> 1 [] OTHER -> 0
ArgumentsLeft == Len(argv) + 1 - i
HeadsLeft == IF pc = "arg" THEN 1 ELSE 0
LettersLeft == IF pc = "letter" THEN Len(Arg.letters) + 1 - letter ELSE 0
StagesLeft == IF stage <= Len(stages) THEN Len(stages) + 1 - stage ELSE 0

Left == <<PartsLeft, ArgumentsLeft, HeadsLeft,
          IF pc = "stage" THEN StagesLeft ELSE LettersLeft>>

LEMMA LeftIsMeasure == IInv /\ ReadInv => IsMeasure(Left)
<1> SUFFICES ASSUME IInv, ReadInv PROVE IsMeasure(Left)
    OBVIOUS
<1>1. Len(argv) \in Nat /\ i \in 1..(Len(argv) + 1) /\ stages \in Seq(StageType)
      /\ stage \in Nat
    BY ArgvIsSeq, StagesAssumption DEF IInv, ParserInv, MainInv
<1>2. ArgumentsLeft \in Nat /\ StagesLeft \in Nat
    BY <1>1 DEF ArgumentsLeft, StagesLeft
<1>3. LettersLeft \in Nat
    BY LettersAre DEF LettersLeft
<1>4. PartsLeft \in Nat /\ HeadsLeft \in Nat
    BY DEF PartsLeft, HeadsLeft
<1>5. QED
    BY <1>2, <1>3, <1>4 DEF Left, IsMeasure

(* Enough for a tuple of four to be less. *)
LEMMA IsLessIf ==
    ASSUME NEW u, NEW v, Len(v) = 4,
           \/ u[1] < v[1]
           \/ u[1] = v[1] /\ u[2] < v[2]
           \/ u[1] = v[1] /\ u[2] = v[2] /\ u[3] < v[3]
           \/ u[1] = v[1] /\ u[2] = v[2] /\ u[3] = v[3] /\ u[4] < v[4]
    PROVE  IsLess(u, v)
<1>1. CASE u[1] < v[1]
    BY <1>1 DEF IsLess
<1>2. CASE u[1] = v[1] /\ u[2] < v[2]
    BY <1>2 DEF IsLess
<1>3. CASE u[1] = v[1] /\ u[2] = v[2] /\ u[3] < v[3]
    BY <1>3 DEF IsLess
<1>4. CASE u[1] = v[1] /\ u[2] = v[2] /\ u[3] = v[3] /\ u[4] < v[4]
    BY <1>4 DEF IsLess
<1>5. QED
    BY <1>1, <1>2, <1>3, <1>4

(* How the parser moves on: to the end, to an argument behind, to the      *)
(* letters of the argument, or to the next letter.                         *)
MovesOn ==
    \/ pc' = "parsed"
    \/ /\ UNCHANGED argv
       /\ \/ pc' = "arg" /\ i <= Len(argv) /\ i' > i
          \/ pc = "arg" /\ pc' = "letter" /\ i' = i
          \/ /\ pc = "letter" /\ pc' = "letter" /\ i' = i
             /\ letter <= Len(Arg.letters) /\ letter' = letter + 1

LEMMA SetOptionMovesOn ==
    ASSUME IInv, i <= Len(argv), NEW option, NEW attached, SetOption(option, attached)
    PROVE  MovesOn
<1>1. CASE Return("USAGE")
    BY <1>1 DEF Return, MovesOn
<1>2. CASE ~Return("USAGE")
  <2>1. i' = take_value(attached).last + 1 /\ pc' = "arg" /\ UNCHANGED argv
    BY <1>2 DEF SetOption
  <2>2. i \in Nat
    BY DEF IInv, ParserInv
  <2>3. take_value(attached).last \in {i, i + 1}
    BY DEF take_value
  <2>4. QED
    BY <2>1, <2>2, <2>3 DEF MovesOn
<1>3. QED
    BY <1>1, <1>2

LEMMA ParseMovesOn ==
    ASSUME IInv, ReadInv, Parse
    PROVE  MovesOn /\ pc \in {"arg", "letter"}
<1>1. i \in Nat
    BY DEF IInv, ParserInv
<1>2. pc \in {"arg", "letter"}
    BY DEF Parse, TakeOperand, EndOptions, EndArguments, ParseLong, ParseShort,
       LongDecompress, LongValue, LongText, LongVerbose, LongUnknown, BeginLetters, LetterD,
       LetterV, LetterP, LetterUnknown, EndLetters, AtLetter, AtLong, AtOption, AtArgument
<1>3. CASE \E r : Return(r)
    BY <1>2, <1>3 DEF Return, MovesOn
<1>4. CASE ~\E r : Return(r)
  <2>1. CASE TakeOperand \/ EndOptions
    BY <1>1, <1>4, <2>1
    DEF TakeOperand, EndOptions, AtOption, AtArgument, MovesOn
  <2>2. CASE LongDecompress \/ LongVerbose
    BY <1>1, <1>4, <2>2
    DEF LongDecompress, LongVerbose, push_stage, NextArgument, AtLong, AtOption, AtArgument,
        MovesOn
  <2>3. CASE LongValue
    <3>1. i <= Len(argv) /\ SetOption(Arg.name, Arg.value)
        BY <2>3 DEF LongValue, AtLong, AtOption, AtArgument
    <3>2. QED
        BY <1>2, <3>1, SetOptionMovesOn
  <2>4. CASE LetterP
    <3>1. pc = "letter" /\ SetOption("pack", Arg.value)
        BY <2>4 DEF LetterP, AtLetter
    <3>2. i <= Len(argv)
        BY <3>1 DEF IInv, ParserInv
    <3>3. QED
        BY <1>2, <3>1, <3>2, SetOptionMovesOn
  <2>5. CASE BeginLetters
    BY <2>5 DEF BeginLetters, AtOption, AtArgument, MovesOn
  <2>6. CASE LetterD \/ LetterV
    BY <1>4, <2>6 DEF LetterD, LetterV, push_stage, NextLetter, AtLetter, MovesOn
  <2>7. CASE EndLetters
    BY <1>1, <2>7 DEF EndLetters, NextArgument, MovesOn, IInv, ParserInv
  <2>8. ~(LongText \/ LongUnknown \/ LetterUnknown \/ EndArguments)
    BY <1>4 DEF LongText, LongUnknown, LetterUnknown, EndArguments
  <2>9. QED
    BY <1>2, <2>1, <2>2, <2>3, <2>4, <2>5, <2>6, <2>7, <2>8 DEF Parse, ParseLong, ParseShort
<1>5. QED
    BY <1>3, <1>4

LEMMA StepIsLess == IInv /\ IInv' /\ ReadInv /\ Next => IsLess(Left', Left)
<1> SUFFICES ASSUME IInv, IInv', ReadInv, Next PROVE IsLess(Left', Left)
    OBVIOUS
<1> DEFINE last(p, s, l) == IF p = "stage" THEN s ELSE l
<1>1. /\ Len(Left) = 4
      /\ Left[1] = PartsLeft /\ Left[2] = ArgumentsLeft /\ Left[3] = HeadsLeft
      /\ Left[4] = last(pc, StagesLeft, LettersLeft)
      /\ Left'[1] = PartsLeft' /\ Left'[2] = ArgumentsLeft' /\ Left'[3] = HeadsLeft'
      /\ Left'[4] = last(pc', StagesLeft', LettersLeft')
    BY DEF Left
<1>2. CASE Parse
  <2>1. MovesOn /\ pc \in {"arg", "letter"}
    BY <1>2, ParseMovesOn
  <2>2. CASE pc' = "parsed"
    BY <1>1, <2>1, <2>2, IsLessIf DEF PartsLeft
  <2>3. CASE pc' = "arg" /\ i <= Len(argv) /\ i' > i /\ UNCHANGED argv
    <3>1. Len(argv) \in Nat /\ i \in Nat /\ i' \in Nat
        BY ArgvIsSeq DEF IInv, ParserInv
    <3>2. ArgumentsLeft' < ArgumentsLeft
        BY <2>3, <3>1 DEF ArgumentsLeft
    <3>3. QED
        BY <1>1, <2>1, <2>3, <3>2, IsLessIf DEF PartsLeft
  <2>4. CASE pc = "arg" /\ pc' = "letter" /\ i' = i /\ UNCHANGED argv
    BY <1>1, <2>4, IsLessIf DEF PartsLeft, ArgumentsLeft, HeadsLeft
  <2>5. CASE /\ pc = "letter" /\ pc' = "letter" /\ i' = i /\ UNCHANGED argv
             /\ letter <= Len(Arg.letters) /\ letter' = letter + 1
    <3> DEFINE n == Len(Arg.letters)
    <3>1. n \in Nat /\ letter \in Nat
        BY <2>5, LettersAre
    <3>2. letter <= n /\ letter' = letter + 1 /\ LettersLeft = n + 1 - letter
        BY <2>5 DEF LettersLeft
    <3>3. LettersLeft' = n + 1 - letter'
        BY <2>5 DEF LettersLeft, Arg
    <3> HIDE DEF n
    <3>4. LettersLeft' < LettersLeft
        BY <3>1, <3>2, <3>3
    <3>5. QED
        BY <1>1, <2>5, <3>4, IsLessIf DEF PartsLeft, ArgumentsLeft, HeadsLeft
  <2>6. QED
    BY <2>1, <2>2, <2>3, <2>4, <2>5 DEF MovesOn
<1>3. CASE Open \/ StagesDone \/ Close
    BY <1>1, <1>3, IsLessIf DEF Open, StagesDone, Close, Exit, PartsLeft
<1>4. CASE RunStage
  <2>1. CASE pc' = "close"
    BY <1>1, <1>4, <2>1, IsLessIf DEF RunStage, PartsLeft
  <2>2. CASE pc' # "close"
    <3>1. /\ pc = "stage" /\ pc' = "stage" /\ stage <= Len(stages) /\ stage' = stage + 1
          /\ UNCHANGED <<argv, i, stages>>
        BY <1>4, <2>2 DEF RunStage, parsing, options
    <3>2. stage \in Nat /\ Len(stages) \in Nat
        BY StagesAssumption DEF IInv, ParserInv, MainInv
    <3>3. StagesLeft' < StagesLeft
        BY <3>1, <3>2 DEF StagesLeft
    <3>4. QED
        BY <1>1, <3>1, <3>3, IsLessIf DEF PartsLeft, ArgumentsLeft, HeadsLeft
  <2>3. QED
    BY <2>1, <2>2
<1>5. QED
    BY <1>2, <1>3, <1>4 DEF Next, Main

(* The program ends for every list of arguments: each step of the parser   *)
(* and of the stages leaves less to do.                                    *)
THEOREM ProgramEnds == Spec => []IsMeasure(Left) /\ [][IsLess(Left', Left)]_vars
<1>1. IInv /\ IInv' /\ ReadInv /\ [Next]_vars => [IsLess(Left', Left)]_vars
    BY StepIsLess
<1>2. QED
    BY <1>1, LeftIsMeasure, Invariance, Reading, PTL DEF Spec
=============================================================================
