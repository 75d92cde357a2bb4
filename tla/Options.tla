------------------------------- MODULE Options ------------------------------
(***************************************************************************)
(* The command line of the server: the tables and the first of the two      *)
(* passes of src/src/server.c, which looks for the command's first word.    *)
(* Words are counted from 1, the program's name.                            *)
(*                                                                          *)
(* A word is its text and what getopt_long takes it for: opt is the option  *)
(* it starts, or None; attached what follows the option in the same word    *)
(* ("-W" or "--writable" has None, "-p80" or "--port=80" has "80").         *)
(***************************************************************************)
EXTENDS Naturals, Sequences, SequencesExt

CONSTANTS
    None,
    Numbers,      \* the texts strtol reads a number from
    Negatives,    \* those of them that it finds negative
    SignalNames,  \* the texts get_sig finds a signal in
    Files,        \* the paths of files that are no directories
    KeyValues,    \* the texts with "=" in them
    RootPaths     \* the texts of slashes only

\* opt_string and options.
Flags == {"a", "W", "O", "o", "q", "B", "6", "S", "v", "h"}
NumberOptions == {"d", "m", "r", "p", "u", "g", "P", "f"}
TextOptions == {"c", "H", "i", "U", "w", "T", "s", "I", "b", "C", "K", "A", "t"}
Settings == (Flags \cup NumberOptions \cup TextOptions) \ {"t", "v", "h"}

TakesArgument(word) == word.opt \in NumberOptions \cup TextOptions
TakesNext(word) == TakesArgument(word) /\ word.attached = None
Width(word) == IF TakesNext(word) THEN 2 ELSE 1

\* calc_command_start: getopt_long goes over all words; its copy of argv ends with
\* those that are no options, in their order.  The first of these is looked up
\* in argv by its text: at[i] is where it is, seen from the word i.
OperandFrom(argv, at, i) ==
    IF i > Len(argv) THEN Len(argv) + 1
    ELSE IF argv[i].opt = None THEN i
    ELSE IF TakesNext(argv[i]) THEN at[i + 2] ELSE at[i + 1]
FirstOperand(argv) ==
    LET at[i \in 2 .. Len(argv) + 2] == OperandFrom(argv, at, i)
    IN  at[2]
CommandStartLast(argv) ==  \* mutant: where the text is last
    LET operand == FirstOperand(argv)
    IN  IF operand > Len(argv) THEN operand
        ELSE Max({i \in DOMAIN argv : argv[i].text = argv[operand].text})
CommandStart(argv) ==
    LET operand == FirstOperand(argv)
    IN  IF operand > Len(argv) THEN operand
        ELSE Min({i \in DOMAIN argv : argv[i].text = argv[operand].text})

\* What an option sets: its argument; case 'b' puts the path, without the slashes
\* at its end, before what the endpoints begin with already.
Prefix(path) == IF path \in RootPaths THEN <<>> ELSE <<path>>
Taken(opt, old, arg) == IF opt = "b" THEN Prefix(arg) \o old ELSE arg
Unset == [opt \in Settings |-> IF opt = "b" THEN <<>> ELSE None]

\* The arguments the second pass does not take: parse_int's, negative ones, a
\* signal that is none, a page that is not there, a client option without "=".
Refused(opt, arg) ==
    \/ opt \in NumberOptions /\ arg \notin Numbers
    \/ opt \in {"r", "p", "P", "f"} /\ arg \in Negatives
    \/ opt = "s" /\ arg \notin SignalNames
    \/ opt = "I" /\ arg \notin Files
    \/ opt = "t" /\ arg \notin KeyValues
=============================================================================
