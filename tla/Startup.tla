------------------------------- MODULE Startup ------------------------------
(***************************************************************************)
(* The life of server processes, main of src/src/server.c: the command      *)
(* line, the configuration file they share and leave to the next one, and   *)
(* the signals that end them.  A process may be killed between any two      *)
(* steps, and the user edits or deletes the file whenever they like.        *)
(***************************************************************************)
EXTENDS Config, Options

CONSTANTS
    Procs,     \* the processes there may be at once (bound)
    Lines,     \* the command lines that each is started with, see LineAssumption
    Edits,     \* what a user may write to the file (bound)
    Cuts       \* where a full disk may cut what is written (bound)

\* A command line is its words, and what the user means by them: where the command
\* begins, if there is one, and the options, in the order in which they begin.
IsPlace(l, n, i) == l.begins[n] <= i /\ i < l.begins[n] + Width(l.words[l.begins[n]])

\* An option is before the command as a whole.
IsOption(l, n) ==
    LET first == l.begins[n]
        word == l.words[first]
        next == l.words[first + 1]
    IN  /\ first \in 2 .. l.at - Width(word)
        /\ word.opt \in Settings \cup {"t", "v", "h"} /\ word.opt = l.options[n].opt
        /\ l.options[n].arg = IF TakesNext(word) THEN next.text
                              ELSE IF TakesArgument(word) THEN word.attached ELSE "set"
        /\ \A m \in DOMAIN l.options : n < m => l.begins[m] >= first + Width(word)

\* No other word there is known; or it is the last of all and lacks its argument.
IsUnknown(l, i) ==
    /\ l.words[i].opt # None
    /\ \/ ~TakesArgument(l.words[i]) /\ l.words[i].opt \notin Flags
       \/ TakesNext(l.words[i]) /\ i = Len(l.words)

\* What is before the command is an option, or unknown: never the word "--".
IsLine(l) ==
    /\ l.words \in Seq(Range(l.words)) /\ Len(l.words) > 1
    /\ l.at \in 2 .. Len(l.words) + 1
    /\ l.command = SubSeq(l.words, l.at, Len(l.words))
    /\ l.at <= Len(l.words) => l.words[l.at].opt = None
    /\ l.options \in Seq(Range(l.options))
    /\ \A n \in DOMAIN l.options : IsOption(l, n)
    /\ \A i \in 2 .. l.at - 1 :
          (\A n \in DOMAIN l.options : ~IsPlace(l, n, i)) => IsUnknown(l, i)

ASSUME LineAssumption == \A p \in Procs : \A l \in Lines[p] : IsLine(l)
ASSUME NoneAssumption == None \notin Flags \cup NumberOptions \cup TextOptions

\* What is in the file is a text, never None.
ASSUME FileAssumption ==
    /\ Edits \subseteq Seq(STRING)
    /\ \A password \in Generated :
          Written(password) # None /\ Cuts \subseteq 0 .. Len(Written(password))

VARIABLES
    config,    \* the file's text, or None
    phase,     \* where in main a process is
    line,      \* its command line, None when it is down
    start,     \* main's: the first word of the command
    optind,    \* getopt_long's, in the second pass
    settings,  \* the options' variables, in struct server and in main
    prefs,     \* client_prefs
    cfg,       \* struct wettyd_config, or None; then server->password
    stopping,  \* the service loop was told to stop
    forceExit, \* force_exit
    changed    \* the file was changed since this process read or wrote it: by the
               \* user, another process, or a full disk

unread == <<line, start, optind, settings, prefs, stopping, forceExit>>
procVars == <<phase, unread, cfg>>
vars == <<config, procVars, changed>>

Init ==
    /\ config \in Edits \cup {None}
    /\ phase = [p \in Procs |-> "down"] /\ line = [p \in Procs |-> None]
    /\ start = [p \in Procs |-> 2] /\ optind = [p \in Procs |-> 2]
    /\ settings = [p \in Procs |-> Unset]
    /\ prefs = [p \in Procs |-> {}] /\ cfg = [p \in Procs |-> None]
    /\ stopping = [p \in Procs |-> FALSE] /\ forceExit = [p \in Procs |-> FALSE]
    /\ changed = [p \in Procs |-> FALSE]

-----------------------------------------------------------------------------
\* The process is gone, and all its memory with it.
Exit(p) ==
    /\ phase' = [phase EXCEPT ![p] = "down"] /\ line' = [line EXCEPT ![p] = None]
    /\ start' = [start EXCEPT ![p] = 2] /\ optind' = [optind EXCEPT ![p] = 2]
    /\ settings' = [settings EXCEPT ![p] = Unset]
    /\ prefs' = [prefs EXCEPT ![p] = {}] /\ cfg' = [cfg EXCEPT ![p] = None]
    /\ stopping' = [stopping EXCEPT ![p] = FALSE] /\ forceExit' = [forceExit EXCEPT ![p] = FALSE]
    /\ changed' = [changed EXCEPT ![p] = FALSE]

Goes(p, to) == phase' = [phase EXCEPT ![p] = to]

\* A process is started.
Launch(p) ==
    /\ phase[p] = "down"
    /\ Goes(p, "options")
    /\ \E l \in Lines[p] :
        /\ line' = [line EXCEPT ![p] = l]
        /\ start' = [start EXCEPT ![p] = CommandStart(l.words)]
    /\ UNCHANGED <<config, optind, settings, prefs, cfg, stopping, forceExit, changed>>

-----------------------------------------------------------------------------
\* The second pass of getopt_long, over the words before the command.
Argv(p) == line[p].words
Word(p) == Argv(p)[optind[p]]
IsLast(p) == optind[p] + 1 >= start[p]
Argument(p) == IF TakesNext(Word(p)) THEN Argv(p)[optind[p] + 1].text ELSE Word(p).attached
optionVars == <<config, phase, line, start, cfg, stopping, forceExit, changed>>
After(p) == optind[p] + Width(Word(p))

\* No options are left.
EndOptions(p) ==
    /\ optind[p] >= start[p]
    /\ Goes(p, "auth")
    /\ UNCHANGED <<config, unread, cfg, changed>>

\* A word that is no option, an option that is unknown or lacks its argument.
SkipWordAgain(p) ==  \* mutant: does not go on
    /\ optind[p] < start[p]
    /\ \/ ~TakesArgument(Word(p)) /\ Word(p).opt \notin Flags
       \/ TakesNext(Word(p)) /\ IsLast(p)
    /\ UNCHANGED <<optionVars, optind, settings, prefs>>
SkipWord(p) ==
    /\ optind[p] < start[p]
    /\ \/ ~TakesArgument(Word(p)) /\ Word(p).opt \notin Flags
       \/ TakesNext(Word(p)) /\ IsLast(p)
    /\ optind' = [optind EXCEPT ![p] = @ + 1]
    /\ UNCHANGED <<optionVars, settings, prefs>>

\* Case 't' goes back to its argument and takes every word from there to the next
\* option for one; the second would be read in what the first has left.
ClientOption(p) ==
    LET first == After(p) - 1
        IsOne(i) == i < start[p] /\ Argv(p)[i].opt = None
    IN  IF ~IsOne(first)
        THEN /\ optind' = [optind EXCEPT ![p] = first]
             /\ UNCHANGED <<optionVars, settings, prefs>>
        ELSE IF Refused("t", Argument(p)) \/ IsOne(first + 1)
        THEN Exit(p) /\ UNCHANGED config
        ELSE /\ prefs' = [prefs EXCEPT ![p] = @ \cup {Argument(p)}]
             /\ optind' = [optind EXCEPT ![p] = first + 1]
             /\ UNCHANGED <<optionVars, settings>>

\* Any other option; --help and --version end the program, and so does what is
\* refused.
TakeOption(p) ==
    /\ optind[p] < start[p]
    /\ TakesArgument(Word(p)) \/ Word(p).opt \in Flags
    /\ ~(TakesNext(Word(p)) /\ IsLast(p))
    /\ IF Word(p).opt = "t" THEN ClientOption(p)
       ELSE IF \/ Word(p).opt \in {"h", "v"}
               \/ TakesArgument(Word(p)) /\ Refused(Word(p).opt, Argument(p))
       THEN Exit(p) /\ UNCHANGED config
       ELSE /\ settings' = [settings EXCEPT ![p][Word(p).opt] =
                  Taken(Word(p).opt, @, IF TakesArgument(Word(p)) THEN Argument(p) ELSE "set")]
            /\ optind' = [optind EXCEPT ![p] = After(p)]
            /\ UNCHANGED <<optionVars, prefs>>

-----------------------------------------------------------------------------
\* setup_auth and config_read.  The last alternative: no path to read, a file
\* that cannot be read, no memory.
TrustHeader(p) ==
    /\ settings[p]["H"] # None
    /\ Goes(p, "command")
    /\ UNCHANGED <<config, unread, cfg, changed>>
ReadConfig(p) ==
    /\ settings[p]["H"] = None
    /\ config # None /\ Parsed(config).ok
    /\ cfg' = [cfg EXCEPT ![p] = Parsed(config)]
    /\ changed' = [changed EXCEPT ![p] = FALSE]
    /\ Goes(p, "command")
    /\ UNCHANGED <<config, unread>>
IsMissingOrWrong == IF config = None THEN TRUE ELSE ~Parsed(config).ok  \* mutant: or refused
IsMissing == config = None
GeneratePassword(p) ==
    /\ settings[p]["H"] = None
    /\ IsMissing
    /\ \E password \in Generated :
        cfg' = [cfg EXCEPT ![p] = [Initial EXCEPT !.password = password]]
    /\ changed' = [changed EXCEPT ![p] = FALSE]
    /\ Goes(p, "write")
    /\ UNCHANGED <<config, unread>>
RefuseConfig(p) ==
    /\ settings[p]["H"] = None
    /\ Exit(p) /\ UNCHANGED config
SetupAuth(p) ==
    /\ phase[p] = "auth"
    /\ TrustHeader(p) \/ RefuseConfig(p) \/ ReadConfig(p) \/ GeneratePassword(p)

\* config_write: the directories are made and the file is created, or emptied ...
ChangedFor(p) == changed' = [q \in Procs |-> changed[q] \/ q # p]
OpenConfig(p) ==
    /\ phase[p] = "write"
    /\ \/ /\ config' = <<>>
          /\ Goes(p, "flush")
          /\ ChangedFor(p) /\ UNCHANGED <<unread, cfg>>
       \/ Exit(p) /\ UNCHANGED config

\* ... stdio writes the text when it is closed, over what others have written there
\* since, or into a file that is not the one at the path any more; nobody asks
\* how much of it was written if the disk had no room for a file ...
FlushConfig(p) ==
    /\ LET text == Written(cfg[p].password)
       IN  \/ /\ phase[p] = "flush"
              /\ config' = text \o SubSeq(config, Len(text) + 1, Len(config))
              /\ ChangedFor(p)
           \/ /\ phase[p] = "flush" /\ config = <<>>
              /\ \E n \in Cuts : config' = SubSeq(text, 1, n)
              /\ changed' = [q \in Procs |-> TRUE]
           \/ /\ phase[p] = "flush elsewhere"
              /\ UNCHANGED <<config, changed>>
    /\ Goes(p, "chmod")
    /\ UNCHANGED <<unread, cfg>>

\* ... and chmod may fail, as it does if there is no file.
ChmodConfig(p) ==
    /\ phase[p] = "chmod"
    /\ \/ config # None /\ Goes(p, "command") /\ UNCHANGED <<unread, cfg, changed>>
       \/ Exit(p)
    /\ UNCHANGED config

\* The command is looked at last.  lws_create_context, lws_create_vhost and
\* uv_signal_start: the port may be taken.
Listen(p) ==
    /\ phase[p] = "command"
    /\ \/ start[p] <= Len(Argv(p))
          /\ Goes(p, "serving") /\ UNCHANGED <<unread, cfg, changed>>
       \/ Exit(p)
    /\ UNCHANGED config

-----------------------------------------------------------------------------
\* signal_cb: the first one stops the loop, another one exits at once.
Signal(p) ==
    /\ phase[p] = "serving"
    /\ IF forceExit[p] THEN Exit(p)
       ELSE /\ forceExit' = [forceExit EXCEPT ![p] = TRUE]
            /\ stopping' = [stopping EXCEPT ![p] = TRUE]
            /\ UNCHANGED <<phase, line, start, optind, settings, prefs, cfg, changed>>
    /\ UNCHANGED config

\* callback_tty, CLOSED: with --once or --exit-no-conn the last client is gone;
\* its command runs on, or there is none.
LastClientGone(p) ==
    /\ phase[p] = "serving"
    /\ settings[p]["o"] # None \/ settings[p]["q"] # None
    /\ \/ Exit(p)
       \/ /\ forceExit' = [forceExit EXCEPT ![p] = TRUE]
          /\ UNCHANGED <<phase, line, start, optind, settings, prefs, cfg, stopping, changed>>
    /\ UNCHANGED config

\* process_exit_cb: a command exits.
CommandExits(p) ==
    /\ phase[p] = "serving"
    /\ forceExit[p]
    /\ Exit(p) /\ UNCHANGED config

\* lws_service returns: the signals are stopped, then the connections and the
\* server go.
LeaveLoop(p) ==
    /\ phase[p] = "serving" /\ stopping[p]
    /\ Goes(p, "cleanup")
    /\ UNCHANGED <<config, unread, cfg, changed>>
ServerFree(p) ==
    /\ phase[p] = "cleanup"
    /\ Exit(p) /\ UNCHANGED config

-----------------------------------------------------------------------------
\* A process is killed, or gets a signal it does not handle yet or any more.
Kill(p) ==
    /\ phase[p] # "down"
    /\ Exit(p) /\ UNCHANGED config

\* The user writes the file, or deletes it or puts another one in its place: what a
\* process has open is then elsewhere.
Edit ==
    /\ config' \in Edits \cup {None}
    /\ \/ config # None /\ config' # None /\ UNCHANGED phase
       \/ phase' = [p \in Procs |-> IF phase[p] = "flush" THEN "flush elsewhere" ELSE phase[p]]
    /\ changed' = [p \in Procs |-> TRUE]
    /\ UNCHANGED <<unread, cfg>>

\* What a process does by itself.
ParseOption(p) ==
    /\ phase[p] = "options"
    /\ EndOptions(p) \/ SkipWord(p) \/ TakeOption(p)
Step(p) ==
    \/ ParseOption(p) \/ SetupAuth(p) \/ OpenConfig(p) \/ FlushConfig(p)
    \/ ChmodConfig(p) \/ Listen(p) \/ LeaveLoop(p) \/ ServerFree(p)

Next ==
    \/ \E p \in Procs :
        Step(p) \/ Launch(p) \/ Signal(p) \/ LastClientGone(p) \/ CommandExits(p) \/ Kill(p)
    \/ Edit

Spec == Init /\ [][Next]_vars

\* A process that can go on does.
FairSpec == Spec /\ \A p \in Procs : WF_vars(Step(p))

-----------------------------------------------------------------------------
\* A server that asks for no password was told so, by an option or by the last
\* word of the file on it: never by a file that is missing, half written, in
\* error, or that mentions "auth: none" and then takes it back.
OpenOnlyIfSaid ==
    \A p \in Procs : phase[p] = "serving" /\ settings[p]["H"] = None =>
        /\ cfg[p].auth = "password" => cfg[p].password # <<>>
        /\ ~changed[p] /\ cfg[p].auth = "none" => Says(config, "auth") = <<"none">>

\* The password a server takes is the one its file says, so the one to be read there
\* and the one the next server takes, with which the cookies stay valid; unless
\* somebody else has changed the file since, or the disk was full.
PasswordInFile ==
    \A p \in Procs : phase[p] = "serving" /\ settings[p]["H"] = None /\ ~changed[p] =>
        /\ config # None
        /\ cfg[p].password = Says(config, "password")
        /\ Parsed(config) = cfg[p]

\* A file that says something is changed by its user only, whatever is wrong with
\* it and whoever crashes when; but for one that was made while a server that had
\* not found any was about to make its own.
NeverOverwritten ==
    [][config \notin {None, <<>>} /\ config' # config =>
        \/ Edit
        \/ \E p \in Procs : phase[p] \in {"write", "flush"} /\ changed[p]]_vars

\* The lines on which the code does what was meant.  On the others it does not: the
\* command is looked up by the text of its first word, and an earlier word may have
\* the same (-T bash bash); case 't' goes back to its argument and takes it for the
\* next option, if it looks like one; and a second base path is put before the
\* first.
Unambiguous(l) ==
    LET first(n) == l.words[l.begins[n]]
    IN  /\ l.at <= Len(l.words) =>
              \A i \in 1 .. l.at - 1 : l.words[i].text # l.words[l.at].text
        /\ \A n \in DOMAIN l.options :
              first(n).opt = "t" /\ TakesNext(first(n)) => l.words[l.begins[n] + 1].opt = None
        /\ \A n, m \in DOMAIN l.options :
              l.options[n].opt = "b" /\ l.options[m].opt = "b" => n = m

\* A server that serves, and whose command line is unambiguous, runs the command it was
\* given, under the options it was given before it, of which the last of a kind
\* counts, and under no others: the two passes of getopt_long agree on where the
\* options end.
CommandAsGiven ==
    \A p \in Procs : phase[p] = "serving" /\ Unambiguous(line[p]) =>
        LET given == line[p].options
            OfKind(opt) == {n \in DOMAIN given : given[n].opt = opt}
        IN  /\ SubSeq(Argv(p), start[p], Len(Argv(p))) = line[p].command
            /\ \A opt \in Settings : settings[p][opt] =
                  IF OfKind(opt) = {} THEN Unset[opt]
                  ELSE Taken(opt, Unset[opt], given[Max(OfKind(opt))].arg)
            /\ prefs[p] = {given[n].arg : n \in OfKind("t")}

\* A start comes to an end: the server serves, or has given up.
StartEnds ==
    \A p \in Procs : phase[p] = "options" ~> phase[p] \in {"serving", "down"}
=============================================================================
