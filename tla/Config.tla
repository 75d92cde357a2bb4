------------------------------- MODULE Config -------------------------------
(***************************************************************************)
(* The configuration file, src/src/config.c: what is read from a text and   *)
(* the text that is written.  A key, "password" and "none" are one          *)
(* character each, so a text that is cut is cut between or after them.      *)
(***************************************************************************)
EXTENDS Text

CONSTANTS
    PasswordMax,  \* WETTYD_PASSWORD_MAX, the NUL at the end included
    Generated     \* the passwords that config_generate_password makes

Newline == "newline"
Blanks == {" ", "tab", "return"}
Quotes == {"'", "\""}

\* Letters and digits, and not too many.
ASSUME GeneratedAssumption == PasswordMax \in Nat /\ \A password \in Generated :
    /\ password \in Seq(STRING) /\ Len(password) \in 1 .. PasswordMax - 1
    /\ Range(password) \cap (Blanks \cup Quotes \cup {Newline, "#", ":", NUL}) = {}

Trim(s) ==
    LET kept == {i \in DOMAIN s : s[i] \notin Blanks}
    IN  IF kept = {} THEN <<>> ELSE SubSeq(s, Min(kept), Max(kept))

Unquote(s) ==
    IF Len(s) >= 2 /\ s[1] \in Quotes /\ s[Len(s)] = s[1] THEN SubSeq(s, 2, Len(s) - 1) ELSE s

\* A line that says nothing; and the key and value of one that does.
IsComment(line) == Trim(line) = <<>> \/ Trim(line)[1] = "#"
Colon(line) == SelectInSeq(line, LAMBDA c : c = ":")
Key(line) == Trim(SubSeq(line, 1, Colon(line) - 1))
Value(line) == Unquote(Trim(SubSeq(line, Colon(line) + 1, Len(line))))

\* config_init.
Initial == [ok |-> TRUE, auth |-> "password", password |-> <<>>]

\* What the two keys' lines make of what was read before, and any line.
Error(cfg) == [cfg EXCEPT !.ok = FALSE]
ReadAuth(cfg, value) ==
    IF value \in {<<"password">>, <<"none">>} THEN [cfg EXCEPT !.auth = value[1]] ELSE Error(cfg)
Fits(value) == Len(value) < PasswordMax
ReadPasswordOnce(cfg, value) ==  \* mutant: the first one counts
    IF cfg.password # <<>> THEN cfg
    ELSE IF Fits(value) THEN [cfg EXCEPT !.password = value] ELSE Error(cfg)
ReadPassword(cfg, value) ==
    IF Fits(value) THEN [cfg EXCEPT !.password = value] ELSE Error(cfg)
ReadLine(cfg, line) ==
    IF ~cfg.ok \/ IsComment(line) THEN cfg
    ELSE IF Colon(line) = 0 THEN Error(cfg)
    ELSE IF Key(line) = <<"auth">> THEN ReadAuth(cfg, Value(line))
    ELSE IF Key(line) = <<"password">> THEN ReadPassword(cfg, Value(line))
    ELSE cfg

LacksPasswordNever(cfg) == FALSE  \* mutant
LacksPassword(cfg) == cfg.auth = "password" /\ cfg.password = <<>>

\* The loop of config_parse, and what it checks in the end.
Parsed(text) ==
    LET lines == Parts(text, Newline)
        after[n \in 0 .. Len(lines)] ==
            IF n = 0 THEN Initial
            ELSE LET before == after[n - 1] IN ReadLine(before, lines[n])
        cfg == after[Len(lines)]
    IN  [cfg EXCEPT !.ok = cfg.ok /\ ~LacksPassword(cfg)]

\* What config_write writes; it is never called to write another auth.
Written(password) ==
    <<"auth", ":", " ", "password", Newline, "password", ":", " ">> \o password \o <<Newline>>

-----------------------------------------------------------------------------
\* What a text says, to someone who reads all of it: whose last lines count.
Says(text, key) ==
    LET lines == Parts(text, Newline)
        saying == {n \in DOMAIN lines :
            ~IsComment(lines[n]) /\ Colon(lines[n]) # 0 /\ Key(lines[n]) = <<key>>}
    IN  IF saying = {} THEN <<>> ELSE Value(lines[Max(saying)])
=============================================================================
