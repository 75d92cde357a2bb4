------------------------------ MODULE MCStartup -----------------------------
(***************************************************************************)
(* Startup.tla for TLC: one process that is given every kind of command     *)
(* line and another one that is just given a command.                       *)
(***************************************************************************)
EXTENDS Startup, TLC

CONSTANTS p1, p2

MCGenerated == {<<"a", "a">>, <<"b", "b">>}
MCNumbers == {"2", "-1"}
MCNegatives == {"-1"}
MCSignalNames == {"INT"}
MCFiles == {"file"}
MCKeyValues == {"k=1", "k=2"}
MCRootPaths == {"/"}

\* Options as a user means them, and the words that they write.
Set(opt) == [opt |-> opt, arg |-> "set", joined |-> FALSE]
Give(opt, arg) == [opt |-> opt, arg |-> arg, joined |-> FALSE]
Join(opt, arg) == [opt |-> opt, arg |-> arg, joined |-> TRUE]

Plain(text) ==
    [opt |-> IF text = "-W" THEN "W" ELSE None, attached |-> None, text |-> text]
OptionWords(o) ==
    LET word(attached, text) == [opt |-> o.opt, attached |-> attached, text |-> text]
    IN  IF o.joined THEN <<word(o.arg, "-" \o o.opt \o o.arg)>>
        ELSE IF o.opt \in Flags THEN <<word(None, "-" \o o.opt)>>
        ELSE <<word(None, "-" \o o.opt), Plain(o.arg)>>

Line(options, rest, command) ==
    LET given(n) == FlattenSeq([m \in 1 .. n |-> OptionWords(options[m])])
        before == <<Plain("wettyd")>> \o given(Len(options)) \o rest
    IN  [options |-> options,
         begins |-> [n \in DOMAIN options |-> 2 + Len(given(n - 1))],
         words |-> before \o command,
         at |-> Len(before) + 1,
         command |-> command]

Bash == <<Plain("bash")>>
Unknown == [opt |-> "z", attached |-> None, text |-> "-z"]
LacksArgument == [opt |-> "T", attached |-> None, text |-> "-T"]
OwnOption == [opt |-> "c", attached |-> None, text |-> "-c"]

AllLines == {
    Line(<<Set("W"), Give("t", "k=1"), Give("T", "-W"), Give("t", "k=2"), Join("m", "2")>>,
         <<Unknown>>, Bash \o <<OwnOption, Plain("bash")>>),
    Line(<<Give("H", "header"), Give("m", "2"), Give("m", "-1"), Give("b", "/a"), Set("o")>>,
         <<>>, Bash),
    Line(<<Give("c", "file"), Give("I", "file"), Give("s", "INT"), Set("q")>>, <<>>, Bash),
    Line(<<Give("T", "bash")>>, <<>>, Bash),
    Line(<<Give("t", "-W")>>, <<>>, Bash),
    Line(<<Give("b", "/a"), Give("b", "/"), Give("b", "/b")>>, <<>>, Bash),
    Line(<<Give("r", "-1")>>, <<>>, Bash),
    Line(<<Give("t", "k")>>, <<>>, Bash),
    Line(<<Set("h")>>, <<>>, Bash),
    Line(<<>>, <<LacksArgument>>, <<>>)}
EachLines == p1 :> AllLines @@ p2 :> {Line(<<>>, <<>>, Bash)}
MCLines == EachLines  \* which TLC evaluates once
\* A client option in one word with its argument, which the manual does not rule out.
MCJoinedLines == p1 :> {Line(<<Join("t", "k=1")>>, <<>>, Bash)}

Says1(key, value) == <<key, ":", " ">> \o value \o <<Newline>>
AllEdits == {
    Says1("auth", <<"none">>),
    Says1("auth", <<"none">>) \o Says1("auth", <<"password">>) \o Says1("password", <<"b">>),
    <<"#">> \o Says1("auth", <<"none">>) \o Says1("password", <<"'", " ", ":", "'">>),
    Says1("password", <<"\"", "a", "\"", "return">>) \o Says1("password", <<"a", "'">>),
    Says1("auth", <<"a">>) \o Says1("password", <<"a">>),
    Says1("password", <<"a">>) \o <<"auth">>,
    Says1("password", <<"a", "b", "a", "b">>)}
MCEdits == AllEdits

MCCuts == {2, 9}  \* in the middle of a key and of the password
MCProcs == {p1, p2}
MCOneProc == {p1}
=============================================================================
