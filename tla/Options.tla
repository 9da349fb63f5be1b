------------------------------- MODULE Options -------------------------------
(***************************************************************************)
(* The command line.  parseOptions offers each argument to the options in  *)
(* turn, the first that recognises it takes it, and what none takes stays  *)
(* in argv, moved to the front.  An argument is one of                     *)
(*   [kind |-> "plain", name]             no dash in front                 *)
(*   [kind |-> "help", rest]              --help and what follows it       *)
(*   [kind |-> "flag", name, no, value]   -name, -no-name, -name=value     *)
(* where a value is the text together with the number that strtol (or, for *)
(* a double, in thousandths, strtod) reads at its front, 0 if there is     *)
(* none: parse never finds out that there was none.                        *)
(***************************************************************************)
EXTENDS Integers, Sequences, SequencesExt, FiniteSets

CONSTANTS
  Invocations, \* records of args and of disk, a function from names to contents
  IntValues,   \* how many values an int has (2 ^ 32)
  None         \* a flag without a value

ASSUME IntValuesAssumption == IntValues \in Nat /\ IntValues >= 65536 /\ IntValues % 2 = 0

\* An argument with a number has one that is an integer.
ASSUME ArgumentsAssumption ==
  \A i \in Invocations :
    /\ i.args \in Seq(ToSet(i.args))
    /\ \A a \in ToSet(i.args) : a.kind = "flag" /\ a.value # None => a.value.number \in Int

VARIABLES
  invocation, \* how the program was called
  args,       \* the arguments not looked at yet
  kept,       \* those moved to the front of argv
  values,     \* of the options, by name
  pc          \* "options", and then where the program is

optionVars == <<invocation, args, kept, values>>

-----------------------------------------------------------------------------
(* The options, under their names without dashes.  The solver's rnd-seed   *)
(* is left out: in thousandths it is beyond TLC's integers.                *)

MaxInt == IntValues \div 2 - 1
MinInt == -(IntValues \div 2)
HugeVal == 1000000000

BoolOption(def) == [type |-> "bool", value |-> def]
StringOption(def) == [type |-> "string", value |-> def]
IntOption(def, begin, end) ==
  [type |-> "int", value |-> def, begin |-> begin, end |-> end, beginIn |-> TRUE, endIn |-> TRUE]
DoubleOption(def, begin, beginIn, end, endIn) ==
  [type |-> "double", value |-> def, begin |-> begin, end |-> end,
   beginIn |-> beginIn, endIn |-> endIn]

MainOptions ==
  [mc |-> BoolOption(FALSE), dDNNF |-> BoolOption(FALSE), print |-> BoolOption(FALSE),
   query |-> BoolOption(FALSE), optAnd |-> BoolOption(TRUE), rp |-> BoolOption(FALSE),
   rpg |-> BoolOption(TRUE), eqs |-> BoolOption(TRUE),
   cs |-> StringOption("NT"), cr |-> StringOption("CL"), vh |-> StringOption("VSADS"),
   ph |-> StringOption("TRUE"), pv |-> StringOption("CB"), wFile |-> StringOption("/dev/null"),
   out |-> StringOption("/dev/null"), drat |-> StringOption("/dev/null"),
   fpv |-> StringOption("/dev/null"), preproc |-> StringOption(""),
   optCache |-> IntOption(1, MinInt, MaxInt), precision |-> IntOption(128, MinInt, MaxInt),
   reduceCache |-> IntOption(20, 0, 31), freqLimitDyn |-> IntOption(18, 0, 31),
   strategyRedCache |-> IntOption(0, 0, 2)]

SolverOptions ==
  [varDecay |-> DoubleOption(950, 0, FALSE, 1000, FALSE),
   claDecay |-> DoubleOption(999, 0, FALSE, 1000, FALSE),
   rndFreq |-> DoubleOption(0, 0, TRUE, 1000, TRUE),
   ccminMode |-> IntOption(2, 0, 2), phaseSaving |-> IntOption(2, 0, 2),
   rndInit |-> BoolOption(FALSE), luby |-> BoolOption(TRUE),
   rfirst |-> IntOption(100, 1, MaxInt), rinc |-> DoubleOption(2000, 1000, FALSE, HugeVal, FALSE),
   gcFrac |-> DoubleOption(200, 0, FALSE, HugeVal, FALSE)]

OptionList == [o \in DOMAIN MainOptions \cup DOMAIN SolverOptions |->
                 IF o \in DOMAIN MainOptions THEN MainOptions[o] ELSE SolverOptions[o]]

-----------------------------------------------------------------------------
(* parse, of each type of option.                                          *)

\* A bool takes -name and -no-name, without a value; the others take -name=value.
ParsesBool(o, a) == OptionList[o].type = "bool" /\ a.value = None
ParsesValue(o, a) == OptionList[o].type # "bool" /\ ~a.no /\ a.value # None
Parses(o, a) == a.kind = "flag" /\ a.name = o /\ (ParsesBool(o, a) \/ ParsesValue(o, a))
ParsedBy(a) == {o \in DOMAIN OptionList : Parses(o, a)}

\* int32_t tmp = strtol(..): what does not fit is cut to the width.
ToInt(n) == MinInt + ((n - MinInt) % IntValues)

ParseBool(a) == ~a.no
ParseString(a) == a.value.text
ParseInt(a) == ToInt(a.value.number)
ParseDouble(a) == a.value.number
ReadValue(o, a) == CASE OptionList[o].type = "bool"   -> ParseBool(a)
                     [] OptionList[o].type = "string" -> ParseString(a)
                     [] OptionList[o].type = "int"    -> ParseInt(a)
                     [] OptionList[o].type = "double" -> ParseDouble(a)

TooLarge(o, n) == LET r == OptionList[o] IN n > r.end \/ (n = r.end /\ ~r.endIn)
TooSmall(o, n) == LET r == OptionList[o] IN n < r.begin \/ (n = r.begin /\ ~r.beginIn)
InRange(o, v) ==
  OptionList[o].type \in {"int", "double"} => ~TooLarge(o, v) /\ ~TooSmall(o, v)

-----------------------------------------------------------------------------
(* parseOptions, strict as main calls it.                                  *)

OptionsInit ==
  /\ invocation \in Invocations
  /\ args = invocation.args /\ kept = <<>>
  /\ values = [o \in DOMAIN OptionList |-> OptionList[o].value]
  /\ pc = "options"

NextArgument(kind) == pc = "options" /\ args # <<>> /\ Head(args).kind = kind

\* --help and --help-verb print the options and exit; --help with anything else behind
\* it is dropped without a word.
PrintUsageAndExit ==
  /\ NextArgument("help") /\ Head(args).rest \in {"", "-verb"}
  /\ pc' = "usage"
  /\ UNCHANGED optionVars

DropHelp ==
  /\ NextArgument("help") /\ Head(args).rest \notin {"", "-verb"}
  /\ args' = Tail(args)
  /\ UNCHANGED <<invocation, kept, values, pc>>

ParseOption ==
  /\ NextArgument("flag")
  /\ \E o \in ParsedBy(Head(args)) :
       LET v == ReadValue(o, Head(args)) IN
       /\ InRange(o, v)
       /\ values' = [values EXCEPT ![o] = v]
  /\ args' = Tail(args)
  /\ UNCHANGED <<invocation, kept, pc>>

OutOfRange ==
  /\ NextArgument("flag")
  /\ \E o \in ParsedBy(Head(args)) : ~InRange(o, ReadValue(o, Head(args)))
  /\ pc' = "rejected"
  /\ UNCHANGED optionVars

UnknownFlag ==
  /\ NextArgument("flag") /\ ParsedBy(Head(args)) = {}
  /\ pc' = "rejected"
  /\ UNCHANGED optionVars

KeepArgument ==
  /\ NextArgument("plain")
  /\ kept' = Append(kept, Head(args).name)
  /\ args' = Tail(args)
  /\ UNCHANGED <<invocation, values, pc>>

EndOfArguments ==
  /\ pc = "options" /\ args = <<>>
  /\ pc' = "open"
  /\ UNCHANGED optionVars

OptionsNext ==
  \/ PrintUsageAndExit \/ DropHelp
  \/ ParseOption \/ OutOfRange \/ UnknownFlag
  \/ KeepArgument \/ EndOfArguments

-----------------------------------------------------------------------------
(* What main and the constructors make of the values.                      *)

\* OptionManager
OptList == [o \in {"optCache", "optAnd", "rp", "rpg", "eqs", "cs", "vh", "ph", "pv", "cr",
                   "reduceCache", "strategyRedCache", "freqLimitDyn"} |-> values[o]]

\* main: -mc comes before -dDNNF, and that before -print.
Engine == IF values["mc"] THEN "counter"
          ELSE IF values["dDNNF"] THEN "compiler"
          ELSE IF values["print"] THEN "printer" ELSE "nothing"

\* The names that the heuristics and the partitioner know; with another one the program exits.
KnownVariableHeuristic == OptList["vh"] \in {"VSADS", "VSIDS", "DLCS", "JW-TS", "MOM"}
KnownPhaseHeuristic == OptList["ph"] \in {"OCCURRENCE", "TRUE", "FALSE", "POLARITY"}
KnownPartitioner == OptList["pv"] \in {"NO", "CB", "VB"}
KnownNames == KnownVariableHeuristic /\ KnownPhaseHeuristic /\ KnownPartitioner

-----------------------------------------------------------------------------
(* What a command line asks for, read as a whole.                          *)

ArgumentsFor(o) == {n \in DOMAIN invocation.args : Parses(o, invocation.args[n])}
LastFor(o) == CHOOSE n \in ArgumentsFor(o) : \A m \in ArgumentsFor(o) : m <= n
Equals(o, a, v) ==
  CASE OptionList[o].type = "bool"   -> v = ~a.no
    [] OptionList[o].type = "string" -> v = a.value.text
    [] OptionList[o].type = "double" -> v = a.value.number
    [] OptionList[o].type = "int"    -> v % IntValues = a.value.number % IntValues

\* An option has the value of the last argument for it (an integer up to the width), or its
\* first value, and is in its range; no argument was a flag that no option knows.
ValuesAsked ==
  /\ \A o \in DOMAIN OptionList :
       /\ IF ArgumentsFor(o) = {} THEN values[o] = OptionList[o].value
          ELSE Equals(o, invocation.args[LastFor(o)], values[o])
       /\ InRange(o, values[o])
  /\ \A n \in DOMAIN invocation.args :
       invocation.args[n].kind = "flag" => \E o \in DOMAIN OptionList : n \in ArgumentsFor(o)

\* The formula is in the file named by the first argument that is not a flag.
PlainArguments == {n \in DOMAIN invocation.args : invocation.args[n].kind = "plain"}
FirstPlain == CHOOSE n \in PlainArguments : \A m \in PlainArguments : n <= m
FileAsked == invocation.disk[invocation.args[FirstPlain].name]
=============================================================================
