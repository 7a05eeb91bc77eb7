------------------------------ MODULE Program ------------------------------
(***************************************************************************)
(* The zelda64 program (src/options.c, src/zelda64.c, src/decompress.c):   *)
(* the arguments are parsed, one at a time and short ones letter by        *)
(* letter, into a list of stages and two file names; the ROM is opened,    *)
(* every stage is run on it, and it is closed.                             *)
(*                                                                         *)
(* An argument is a record; the value of an option that is attached to it  *)
(* (--pack=dense, -Pdense) is part of it.  A file is named by the argument *)
(* itself, and the store says what each name stands for.                   *)
(***************************************************************************)
EXTENDS Integers, Sequences, FiniteSets

CONSTANTS
    MAX_STAGES,   \* ZELDA64_MAX_STAGES
    CommandLines, \* the argument lists the program is started with
    Roms,         \* the names that stand for a ROM that can be opened
    Faults        \* may the library fail?

ASSUME StagesAssumption == MAX_STAGES \in Nat \ {0}
(* A short argument has a letter (- alone is a Dash), and what is behind a *)
(* P is its value.                                                         *)
IsArgument(a) ==
    a.kind = "short" =>
        /\ Len(a.letters) \in Nat \ {0}
        /\ \A n \in 1..(Len(a.letters) - 1) : a.letters[n] # "P"

ASSUME CommandLinesAssumption ==
    \A a \in CommandLines :
        /\ a \in Seq({a[k] : k \in DOMAIN a})
        /\ \A k \in DOMAIN a : IsArgument(a[k])

NoValue == [kind |-> "none"]

Operand(t) == [kind |-> "word", text |-> t]
Dash == [kind |-> "dash"]                        \* -
DashDash == [kind |-> "dashdash"]                \* --
Long(name, value) == [kind |-> "long", name |-> name, value |-> value]
Short(letters, value) == [kind |-> "short", letters |-> letters, value |-> value]

VARIABLES
    argv,
    pc,
    i,        \* the argument at hand
    letter,   \* the letter of a short argument at hand
    end,      \* was "--" met?
    stages,   \* options.stages, the last one current
    in, out,  \* where the file names are in argv; 0 when there is none
    parse,    \* what parse_options returned
    stage,    \* the stage that runs next
    rom,      \* is the ROM open?
    store,    \* what each file holds
    status    \* the exit status

vars == <<argv, pc, i, letter, end, stages, in, out, parse, stage, rom, store, status>>
options == <<stages, in, out>>
running == <<stage, rom, store, status>>

File(k) == argv[k]
RomOf(f) == [is |-> "rom", of |-> f]
Decompressed(f, s) == [is |-> "decompressed", of |-> f, spec |-> s]
Damaged == [is |-> "damaged"]

Init ==
    /\ argv \in CommandLines
    /\ pc = "arg"
    /\ i = 1 /\ letter = 1 /\ end = FALSE
    /\ stages = <<>> /\ in = 0 /\ out = 0
    /\ parse = "OK"
    /\ stage = 1 /\ rom = FALSE
    /\ store = [f \in Roms |-> RomOf(f)]
    /\ status = 0

-----------------------------------------------------------------------------
(* parse_options.  Each step handles an argument, or a letter of one.      *)

Arg == argv[i]
AtArgument == pc = "arg" /\ i <= Len(argv)
AtOption == AtArgument /\ ~end /\ Arg.kind \notin {"word", "dash"}
AtLong == AtOption /\ Arg.kind = "long"
AtLetter == pc = "letter" /\ letter <= Len(Arg.letters)
Letter == Arg.letters[letter]

(* Parsing is over: with the usage or another text, or with the options.   *)
Return(r) ==
    /\ parse' = r
    /\ pc' = "parsed"
    /\ UNCHANGED <<argv, i, letter, end, options, running>>

TakeOperand ==
    /\ AtArgument
    /\ end \/ Arg.kind \in {"word", "dash"}
    /\ \/ Arg.kind = "dash" /\ Return("USAGE")
       \/ /\ Arg.kind # "dash"
          /\ in # 0 /\ out # 0
          /\ Return("USAGE")
       \/ /\ Arg.kind # "dash"
          /\ in = 0 \/ out = 0
          /\ in' = IF in = 0 THEN i ELSE in
          /\ out' = IF in = 0 THEN out ELSE i
          /\ i' = i + 1
          /\ UNCHANGED <<argv, pc, letter, end, stages, parse, running>>

EndOptions ==
    /\ AtOption
    /\ Arg.kind = "dashdash"
    /\ end' = TRUE
    /\ i' = i + 1
    /\ UNCHANGED <<argv, pc, letter, options, parse, running>>

DefaultStage == [pack |-> "sparse", pad |-> "zero"]

(* Mutant: off by one, a stage too many. *)
push_stage_late(Then) ==
    \/ Len(stages) > MAX_STAGES /\ Return("USAGE")
    \/ /\ Len(stages) <= MAX_STAGES
       /\ stages' = Append(stages, DefaultStage)
       /\ Then

(* push_stage, and Then when there is room. *)
push_stage(Then) ==
    \/ Len(stages) = MAX_STAGES /\ Return("USAGE")
    \/ /\ Len(stages) # MAX_STAGES
       /\ stages' = Append(stages, DefaultStage)
       /\ Then

current_stage == Len(stages)

(* Mutant: what was taken as a value is parsed again. *)
take_value_again(attached) ==
    IF attached # NoValue THEN [value |-> attached, last |-> i]
    ELSE IF i + 1 > Len(argv) THEN [value |-> NoValue, last |-> i]
    ELSE [value |-> argv[i + 1], last |-> i]

(* The value of an option, and the last argument that was used for it.     *)
take_value(attached) ==
    IF attached # NoValue THEN [value |-> attached, last |-> i]
    ELSE IF i + 1 > Len(argv) THEN [value |-> NoValue, last |-> i]
    ELSE [value |-> argv[i + 1], last |-> i + 1]

Values == [pack |-> {"sparse", "dense"}, pad |-> {"none", "zero", "ramp"}]

(* parse_pack and parse_pad: the value goes to the current stage. *)
SetOption(option, attached) ==
    LET v == take_value(attached)
        usable == {w \in Values[option] : v.value = Operand(w)}
    IN \/ /\ usable = {} \/ current_stage = 0
          /\ Return("USAGE")
       \/ /\ usable # {}
          /\ current_stage # 0
          /\ \E w \in usable : stages' = [stages EXCEPT ![current_stage][option] = w]
          /\ i' = v.last + 1
          /\ pc' = "arg"
          /\ UNCHANGED <<argv, letter, end, in, out, parse, running>>

(* Mutant: the loop does not advance. *)
SameArgument ==
    /\ pc' = "arg"
    /\ UNCHANGED i

NextArgument ==
    /\ pc' = "arg"
    /\ i' = i + 1

LongDecompress ==
    /\ AtLong
    /\ Arg.name = "decompress"
    /\ \/ Arg.value # NoValue /\ Return("USAGE")
       \/ /\ Arg.value = NoValue
          /\ push_stage(NextArgument /\ UNCHANGED <<argv, letter, end, in, out, parse, running>>)

LongValue ==
    /\ AtLong
    /\ Arg.name \in {"pack", "pad"}
    /\ SetOption(Arg.name, Arg.value)

LongText ==
    /\ AtLong
    /\ Arg.name \in {"version", "help"}
    /\ Return(IF Arg.value = NoValue THEN Arg.name ELSE "USAGE")

LongVerbose ==
    /\ AtLong
    /\ Arg.name = "verbose"
    /\ \/ Arg.value # NoValue /\ Return("USAGE")
       \/ /\ Arg.value = NoValue
          /\ NextArgument
          /\ UNCHANGED <<argv, letter, end, options, parse, running>>

LongUnknown ==
    /\ AtLong
    /\ Arg.name \notin {"decompress", "pack", "pad", "version", "help", "verbose"}
    /\ Return("USAGE")

(* The letters of a short argument; the value of P ends it. *)
BeginLetters ==
    /\ AtOption
    /\ Arg.kind = "short"
    /\ pc' = "letter"
    /\ letter' = 1
    /\ UNCHANGED <<argv, i, end, options, parse, running>>

NextLetter ==
    /\ letter' = letter + 1
    /\ UNCHANGED <<argv, pc, i, end, in, out, parse, running>>

LetterD == AtLetter /\ Letter = "d" /\ push_stage(NextLetter)
LetterV == AtLetter /\ Letter = "v" /\ NextLetter /\ UNCHANGED stages
LetterP == AtLetter /\ Letter = "P" /\ SetOption("pack", Arg.value)
LetterUnknown == AtLetter /\ Letter \notin {"d", "v", "P"} /\ Return("USAGE")

EndLetters ==
    /\ pc = "letter"
    /\ letter > Len(Arg.letters)
    /\ NextArgument
    /\ UNCHANGED <<argv, letter, end, options, parse, running>>

EndArguments ==
    /\ pc = "arg"
    /\ i > Len(argv)
    /\ Return("OK")

ParseLong == LongDecompress \/ LongValue \/ LongText \/ LongVerbose \/ LongUnknown
ParseShort ==
    BeginLetters \/ LetterD \/ LetterV \/ LetterP \/ LetterUnknown \/ EndLetters
Parse == TakeOperand \/ EndOptions \/ ParseLong \/ ParseShort \/ EndArguments

-----------------------------------------------------------------------------
(* main: open, run the stages, close. *)

parsing == <<argv, i, letter, end, options, parse>>

EXIT_FAILURE == 1
EXIT_USAGE == 2

Exit(s) ==
    /\ pc' = "exit"
    /\ status' = s
    /\ UNCHANGED <<stage, store>>

Open ==
    /\ pc = "parsed"
    /\ \/ parse = "USAGE" /\ Exit(EXIT_USAGE) /\ UNCHANGED rom
       \/ parse \in {"help", "version"} /\ Exit(0) /\ UNCHANGED rom
       \/ /\ parse = "OK"
          /\ in = 0 \/ (in # 0 /\ File(in) \notin Roms) \/ Faults
          /\ Exit(EXIT_FAILURE)
          /\ UNCHANGED rom
       \/ /\ parse = "OK"
          /\ in # 0 /\ File(in) \in Roms
          /\ rom' = TRUE
          /\ pc' = "stage"
          /\ UNCHANGED <<stage, store, status>>
    /\ UNCHANGED parsing

(* The output name of the stage: only the last one has any. *)
OutOfStage == IF stage = Len(stages) THEN out ELSE 0

Stored(f, content) ==
    [g \in DOMAIN store \cup {f} |-> IF g = f THEN content ELSE store[g]]

(* Mutant: the error of zelda64_write is not looked at. *)
WriteUnchecked(f) ==
    /\ \/ store' = Stored(f, Decompressed(File(in), stages[stage]))
       \/ Faults /\ store' \in {store, Stored(f, Damaged)}
    /\ status' = 0

(* zelda64_write of the decompressed ROM, as far as a caller can tell: it  *)
(* may fail having written a part.  Opening the output empties it: when it *)
(* is the input, what is then written comes from memory that was never     *)
(* set, and whether that looks like a ROM is anyone's guess.               *)
Write(f) ==
    \/ /\ File(in) # f
       /\ store' = Stored(f, Decompressed(File(in), stages[stage]))
       /\ status' = 0
    \/ /\ File(in) = f
       /\ store' = Stored(f, Damaged)
       /\ status' \in {0, EXIT_FAILURE}
    \/ /\ Faults
       /\ store' \in {store, Stored(f, Damaged)}
       /\ status' = EXIT_FAILURE

(* run_decompress, with or without an output name. *)
run_decompress ==
    \/ OutOfStage = 0 /\ status' = EXIT_FAILURE /\ UNCHANGED store
    \/ OutOfStage # 0 /\ Write(File(OutOfStage))

(* Mutant: a failing stage does not end the loop. *)
RunStageAndGoOn ==
    /\ pc = "stage"
    /\ stage <= Len(stages)
    /\ run_decompress
    /\ stage' = stage + 1
    /\ UNCHANGED <<parsing, pc, rom>>

RunStage ==
    /\ pc = "stage"
    /\ stage <= Len(stages)
    /\ run_decompress
    /\ pc' = IF status' = 0 THEN "stage" ELSE "close"
    /\ stage' = stage + 1
    /\ UNCHANGED <<parsing, rom>>

StagesDone ==
    /\ pc = "stage"
    /\ stage > Len(stages)
    /\ pc' = "close"
    /\ UNCHANGED <<parsing, running>>

Close ==
    /\ pc = "close"
    /\ rom' = FALSE
    /\ pc' = "exit"
    /\ UNCHANGED <<parsing, stage, store, status>>

Main == Open \/ RunStage \/ StagesDone \/ Close
Next == Parse \/ Main

Spec == Init /\ [][Next]_vars

(* One thread; nothing waits. *)
FairSpec == Spec /\ WF_vars(Next)

-----------------------------------------------------------------------------
(* The reference: what a list of arguments says, read as a whole.          *)

WantsValue(a) ==
    /\ \/ a.kind = "long" /\ a.name \in {"pack", "pad"}
       \/ a.kind = "short" /\ a.letters[Len(a.letters)] = "P"
    /\ a.value = NoValue

(* What each argument is: an option, the value of the one before it, an    *)
(* operand, the end of the options, or an operand behind that.             *)
RoleAfter(args, before, k) ==
    IF before \in {"end", "behind"} THEN "behind"
    ELSE IF before = "option" /\ WantsValue(args[k - 1]) THEN "value"
    ELSE IF args[k].kind \in {"word", "dash"} THEN "operand"
    ELSE IF args[k].kind = "dashdash" THEN "end" ELSE "option"
Role(args) ==
    LET role[k \in 0..Len(args)] ==
            IF k = 0 THEN "none" ELSE RoleAfter(args, role[k - 1], k)
    IN role

Operands(args) == {k \in 1..Len(args) : Role(args)[k] \in {"operand", "behind"}}

(* What an option asks for: one thing, or one with each letter. *)
Wishes(a) ==
    IF a.kind = "long" THEN <<a.name>>
    ELSE [n \in 1..Len(a.letters) |->
             CASE a.letters[n] = "d" -> "decompress"
               [] a.letters[n] = "P" -> "pack"
               [] OTHER -> "nothing"]

(* Where something is asked for: the argument and the letter. *)
Places(args) ==
    UNION {{k} \X (1..Len(Wishes(args[k]))) :
           k \in {m \in 1..Len(args) : Role(args)[m] = "option"}}
Asked(args, wish) == {p \in Places(args) : Wishes(args[p[1]])[p[2]] = wish}

Before(p, q) == p[1] < q[1] \/ (p[1] = q[1] /\ p[2] < q[2])

(* The stage a value is for is the last one asked for before it. *)
StageOf(args, p) == Cardinality({d \in Asked(args, "decompress") : Before(d, p)})

ValueOf(args, p) ==
    LET a == args[p[1]]
    IN IF a.value = NoValue THEN args[p[1] + 1].text ELSE a.value.text

(* Stage s is as the places say: the last value given for it holds.        *)
Means(args, spec, s, option, places) ==
    LET given == {p \in places : StageOf(args, p) = s}
    IN \/ given = {} /\ spec[option] = DefaultStage[option]
       \/ \E p \in given :
             /\ \A q \in given : ~Before(p, q)
             /\ spec[option] = ValueOf(args, p)

-----------------------------------------------------------------------------
(* Properties. *)

(* Every variable keeps its type; options.stages is never overrun. *)
TypeOK ==
    /\ pc \in {"arg", "letter", "parsed", "stage", "close", "exit"}
    /\ i \in 1..(Len(argv) + 1)
    /\ Len(stages) <= MAX_STAGES
    /\ \A k \in 1..Len(stages) :
          stages[k].pack \in Values["pack"] /\ stages[k].pad \in Values["pad"]
    /\ {in, out} \subseteq 0..Len(argv)
    /\ parse \in {"OK", "USAGE", "help", "version"}
    /\ stage \in 1..(MAX_STAGES + 1)
    /\ status \in {0, EXIT_FAILURE, EXIT_USAGE}

(* The argument list that is accepted means what it says: each pack and    *)
(* pad belongs to the stage before it, values are never taken for          *)
(* operands nor operands for values, in clusters, attached or apart, and   *)
(* behind "--".                                                            *)
OptionsMeanWhatTheySay ==
    pc \notin {"arg", "letter"} /\ parse = "OK" =>
        /\ Len(stages) = Cardinality(Asked(argv, "decompress"))
        /\ \A option \in {"pack", "pad"} :
              /\ \A p \in Asked(argv, option) : StageOf(argv, p) # 0
              /\ \A s \in 1..Len(stages) :
                    Means(argv, stages[s], s, option, Asked(argv, option))
        /\ Operands(argv) = {in, out} \ {0}
        /\ out # 0 => in # 0 /\ in < out

(* A stage that failed is what the program reports, whatever follows it. *)
FailureIsReported == [][status # 0 => status' = status]_vars

(* Success means that what was asked for was done: all of the stages, the  *)
(* last one into the output file, and no other file was touched.           *)
SuccessMeansDone ==
    pc = "exit" /\ status = 0 /\ parse = "OK" /\ (out # 0 => File(in) # File(out)) =>
        /\ \A f \in Roms : (out # 0 => f # File(out)) => store[f] = RomOf(f)
        /\ stages # <<>> =>
              /\ out # 0 /\ File(out) \in DOMAIN store
              /\ store[File(out)] = Decompressed(File(in), stages[Len(stages)])

(* The parser and the stages end. *)
Terminates == <>(pc = "exit")
=============================================================================
