----------------------------- MODULE MCProgram -----------------------------
(***************************************************************************)
(* The command lines Program is checked on: every list of up to two        *)
(* arguments of a set with each form of each option, operands that look    *)
(* like values and like the names of ROMs, those lists behind `-d', and    *)
(* the lists that a sensible call is a part of.                            *)
(***************************************************************************)
EXTENDS Program

Rom == Operand("rom")
New == Operand("new")
Dense == Operand("dense")

MCRoms == {Rom, Dense}

Args ==
    {Rom, New, Dense, Operand("ramp"), Dash, DashDash,
     Long("decompress", NoValue), Long("decompress", Dense),
     Long("pack", NoValue), Long("pack", Dense), Long("pack", New),
     Long("pad", NoValue), Long("pad", Operand("none")),
     Long("version", NoValue), Long("help", Dense), Long("verbose", NoValue),
     Long("verbose", New), Long("level", NoValue),
     Short(<<"d">>, NoValue), Short(<<"v", "d">>, NoValue), Short(<<"d", "d">>, NoValue),
     Short(<<"P">>, NoValue), Short(<<"d", "P">>, Dense), Short(<<"d", "P">>, NoValue),
     Short(<<"P">>, Operand("sparse")), Short(<<"i">>, NoValue), Short(<<"z">>, NoValue)}

Lists(n) == UNION {[1..k -> Args] : k \in 0..n}

(* Operations and their options, around an input and an output. *)
Opts == {Long("pack", Dense), Long("pad", Operand("ramp")), Short(<<"d">>, NoValue),
         Short(<<"P">>, NoValue), DashDash, Operand("sparse")}
Calls == {<<Short(<<"d">>, NoValue)>> \o o \o <<Rom, f>> :
             o \in UNION {[1..k -> Opts] : k \in 0..3}, f \in {New, Rom}}

MCCommandLines == Lists(2) \cup Calls \cup
    {<<Short(<<"d">>, NoValue)>> \o l : l \in Lists(2)}
=============================================================================
