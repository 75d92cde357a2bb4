------------------------------ MODULE Terminal ------------------------------
(***************************************************************************)
(* What a page makes of the output it receives: outputDecoder.ts, which     *)
(* puts characters together, download.ts, which takes files out of them,    *)
(* and wetty.ts, which writes the rest to the terminal and counts what is   *)
(* not drawn yet.  All three carry something over from one message to the   *)
(* next, wherever the server cut the stream into messages, and from one     *)
(* connection to the next.                                                  *)
(*                                                                          *)
(* A byte is a character, but for "lead" and "continuation", which make one *)
(* of two bytes.                                                            *)
(***************************************************************************)
EXTENDS Naturals, Sequences, SequencesExt

CONSTANTS
    Streams,    \* the output of the sessions there may be (bound)
    FileBegin,  \* DEFAULT_FILE_BEGIN
    FileEnd,    \* DEFAULT_FILE_END
    FlowLimit,  \* FLOW_LIMIT
    HighWater,  \* FLOW_HIGH_WATER
    LowWater,   \* FLOW_LOW_WATER
    MaxLosses   \* how often the connection is lost (bound)

\* The begin marker starts with a character that is not in the rest of it.
ASSUME MarkerAssumption ==
    /\ FileBegin \in Seq(STRING) /\ Len(FileBegin) > 1
    /\ FileEnd \in Seq(STRING) /\ Len(FileEnd) > 0
    /\ \A i \in 2 .. Len(FileBegin) : FileBegin[i] # FileBegin[1]
\* The output is characters, the last of which may be cut.
ASSUME StreamAssumption ==
    \A s \in Streams :
        /\ s \in Seq(STRING)
        /\ \A i \in 1 .. Len(s) - 1 : s[i] = "lead" => s[i + 1] = "continuation"
ASSUME FlowAssumption ==
    FlowLimit \in Nat /\ HighWater \in Nat /\ LowWater \in 1 .. HighWater + 1

VARIABLES
    stream,     \* the output of the session the page is attached to
    connected,
    received,   \* TtydSocket.received
    carried,    \* what the TextDecoder keeps of a character that is cut
    partial,    \* FileDownloader.partialFileBegin
    file,       \* FileDownloader.fileBuffer
    written,    \* since the last write with a callback
    pending,    \* writes whose callback is still to come, as the page counts them
    drawing,    \* and as the terminal does
    told,       \* the last flow control message: "pause" or "resume"
    shown,      \* what was written to the terminal since it was reset, at
    base,       \* this offset
    files,      \* the files completed since
    clean,      \* and whether nothing was carried into it from before
    losses      \* connections lost so far

flowVars == <<written, pending, drawing, told>>
fileVars == <<partial, file, files>>
vars == <<stream, connected, received, carried, fileVars, flowVars, shown, base, clean, losses>>

Init ==
    /\ stream \in Streams /\ connected = TRUE /\ received = 0 /\ carried = <<>>
    /\ partial = <<>> /\ file = <<>> /\ files = <<>>
    /\ written = 0 /\ pending = 0 /\ drawing = 0 /\ told = "resume"
    /\ shown = <<>> /\ base = 0 /\ clean = TRUE /\ losses = 0

-----------------------------------------------------------------------------
\* TextDecoder.decode with stream: true: the characters that are complete, and
\* what is kept of the last one.
Decode(bytes, from, i) ==
    IF i > Len(bytes) THEN <<>>
    ELSE IF bytes[i] # "lead" THEN <<bytes[i]>> \o from[i + 1]
    ELSE IF i = Len(bytes) THEN <<>>
    ELSE <<"wide">> \o from[i + 2]
Decoded(bytes) ==
    LET from[i \in 1 .. Len(bytes) + 1] == Decode(bytes, from, i) IN from[1]
Kept(bytes) == IF bytes # <<>> /\ Last(bytes) = "lead" THEN <<"lead">> ELSE <<>>

\* FileDownloader.bufferCharacter, on the state of the downloader and what it has
\* returned and completed.
EndsFile(buffer) ==
    /\ Len(buffer) >= Len(FileBegin) + Len(FileEnd)
    /\ IsSuffix(FileEnd, buffer)
Content(buffer) == SubSeq(buffer, Len(FileBegin) + 1, Len(buffer) - Len(FileEnd))
BufferCharacter(d, c) ==
    IF d.file # <<>> THEN
        LET buffer == Append(d.file, c)
        IN  IF EndsFile(buffer)
            THEN [d EXCEPT !.file = <<>>, !.files = Append(@, Content(buffer))]
            ELSE [d EXCEPT !.file = buffer]
    ELSE IF c = FileBegin[Len(d.partial) + 1] THEN
        IF Append(d.partial, c) = FileBegin
        THEN [d EXCEPT !.partial = <<>>, !.file = FileBegin]
        ELSE [d EXCEPT !.partial = Append(@, c)]
    ELSE [d EXCEPT !.out = @ \o Append(d.partial, c), !.partial = <<>>]

\* FileDownloader.buffer, which does not look at the characters one by one if no
\* marker can be among them.
NoMarkerUnlessFile(d, chars) == d.file = <<>> /\ FileBegin[1] \notin Range(chars)  \* mutant
NoMarker(d, chars) ==
    d.file = <<>> /\ d.partial = <<>> /\ FileBegin[1] \notin Range(chars)
Buffered(d, chars) ==
    LET after[n \in 0 .. Len(chars)] ==
            IF n = 0 THEN d
            ELSE LET before == after[n - 1] IN BufferCharacter(before, chars[n])
    IN  IF NoMarker(d, chars) THEN [d EXCEPT !.out = @ \o chars] ELSE after[Len(chars)]

\* socket.on("data"): the text is written, with a callback once it is much.
IsLittle(text) == written + Len(text) <= FlowLimit
WriteCountsAll(text) ==  \* mutant: counts what it has no callback for
    IF text = <<>> THEN UNCHANGED flowVars
    ELSE
        /\ written' = IF IsLittle(text) THEN written + Len(text) ELSE 0
        /\ pending' = pending + 1
        /\ drawing' = IF IsLittle(text) THEN drawing ELSE drawing + 1
        /\ told' = IF pending' > HighWater THEN "pause" ELSE told
Write(text) ==
    IF text = <<>> THEN UNCHANGED flowVars
    ELSE IF IsLittle(text) THEN
        /\ written' = written + Len(text)
        /\ UNCHANGED <<pending, drawing, told>>
    ELSE
        /\ written' = 0
        /\ pending' = pending + 1
        /\ drawing' = drawing + 1
        /\ told' = IF pending' > HighWater THEN "pause" ELSE told

\* onMessage, OUTPUT: the next n bytes.
ReceiveOutput(n) ==
    /\ connected
    /\ received + n <= Len(stream)
    /\ LET bytes == carried \o SubSeq(stream, received + 1, received + n)
           d == Buffered([partial |-> partial, file |-> file, out |-> <<>>, files |-> files],
                         Decoded(bytes))
       IN  /\ carried' = Kept(bytes)
           /\ partial' = d.partial /\ file' = d.file /\ files' = d.files
           /\ shown' = shown \o d.out
           /\ Write(d.out)
    /\ received' = received + n
    /\ UNCHANGED <<stream, connected, base, clean, losses>>

\* The terminal has drawn the oldest write with a callback, which takes it off the
\* count.
ResumesStale(left) == pending < LowWater /\ connected  \* mutant: looks before that
Resumes(left) == left < LowWater /\ connected
Drawn ==
    /\ drawing > 0
    /\ drawing' = drawing - 1
    /\ pending' = IF pending = 0 THEN 0 ELSE pending - 1
    /\ told' = IF Resumes(pending') THEN "resume" ELSE told
    /\ UNCHANGED <<stream, connected, received, carried, fileVars, written, shown, base, clean,
                   losses>>

-----------------------------------------------------------------------------
\* onSession, when what comes next is not what the page has not seen: the
\* decoder is new and the terminal reset, the downloader as it was.  (The line
\* that says a new session was started is left out.)
Reset(offset) ==
    /\ carried' = <<>>
    /\ shown' = <<>> /\ base' = offset /\ files' = <<>>
    /\ clean' = (file = <<>> /\ partial = <<>>)
    /\ UNCHANGED <<partial, file>>

\* The connection is lost, and the server goes on with no client.
Disconnect ==
    /\ connected /\ losses < MaxLosses
    /\ connected' = FALSE
    /\ losses' = losses + 1
    /\ told' = "resume"
    /\ UNCHANGED <<stream, received, carried, fileVars, written, pending, drawing, shown, base,
                   clean>>

\* It is made again and the server says where it goes on: where the page is, or
\* behind that, at the start of a character.
Reconnect ==
    /\ ~connected
    /\ connected' = TRUE
    /\ \E offset \in received .. Len(stream) :
        /\ received' = offset
        /\ IF offset = received THEN UNCHANGED <<carried, fileVars, shown, base, clean>>
           ELSE stream[offset] # "lead" /\ Reset(offset)
    /\ UNCHANGED <<stream, flowVars, losses>>

\* Or the session is gone, and it is a new one.
Replaced ==
    /\ ~connected
    /\ connected' = TRUE
    /\ stream' \in Streams
    /\ received' = 0
    /\ Reset(0)
    /\ UNCHANGED <<flowVars, losses>>

Next ==
    \/ \E n \in 1 .. Len(stream) : ReceiveOutput(n)
    \/ Drawn
    \/ Disconnect
    \/ Reconnect
    \/ Replaced

Spec == Init /\ [][Next]_vars

\* The terminal draws what it was given.
FairSpec == Spec /\ WF_vars(Drawn)

-----------------------------------------------------------------------------
\* What a text is to be split into, read as a whole: a file is what is between
\* a begin marker and the first end marker behind it.  What may turn out to be
\* a marker is still to come.
Occurs(marker, text, i) == IsPrefix(marker, SubSeq(text, i, Len(text)))
Held(text) == Max({n \in 0 .. Len(FileBegin) - 1 :
    n <= Len(text) /\ IsSuffix(SubSeq(FileBegin, 1, n), text)})
At(marker, text, i) == {j \in i .. Len(text) : Occurs(marker, text, j)}
SplitAt(text, from, i) ==
    IF At(FileBegin, text, i) = {} THEN
        LET rest == SubSeq(text, i, Len(text))
        IN  [out |-> SubSeq(rest, 1, Len(rest) - Held(rest)), files |-> <<>>]
    ELSE
        LET begin == Min(At(FileBegin, text, i))
            content == begin + Len(FileBegin)
            before == SubSeq(text, i, begin - 1)
        IN  IF At(FileEnd, text, content) = {} THEN [out |-> before, files |-> <<>>]
            ELSE LET end == Min(At(FileEnd, text, content))
                     rest == from[end + Len(FileEnd)]
                 IN  [out |-> before \o rest.out,
                      files |-> <<SubSeq(text, content, end - 1)>> \o rest.files]
Split(text) ==
    LET from[i \in 1 .. Len(text) + 1] == SplitAt(text, from, i) IN from[1]

\* No begin of a marker is cut short by another one: a marker that begins where the
\* rest of one was expected is not seen by bufferCharacter, which writes it out with
\* what it kept.
Apart(text) == \A n \in 1 .. Len(FileBegin) - 1 : \A i \in 1 .. Len(text) - n :
    SubSeq(text, i, i + n - 1) = SubSeq(FileBegin, 1, n) => text[i + n] # FileBegin[1]

\* However the stream was cut into messages, and however often the connection was
\* lost: the terminal shows the session's output from where it was reset, whole
\* characters only and without the files, and the files are whole; unless it was
\* reset in the middle of one, or markers are cut short by others.
ShowsStream ==
    LET text == Decoded(SubSeq(stream, base + 1, received))
    IN  clean /\ Apart(text) => shown = Split(text).out /\ files = Split(text).files

\* A server that was told to pause waits for something: the terminal has at least
\* FLOW_LOW_WATER writes still to draw, whose callbacks will tell it to go on.  A
\* write the page has counted and the terminal will not call back for, a RESUME that
\* was due while there was no connection, or a PAUSE taken over to the next one would
\* leave it paused with nothing to come.
PausedWhileDrawing == told = "pause" => drawing >= LowWater

\* A server that was told to pause is told to go on.
PauseIsLifted == told = "pause" ~> told = "resume"
=============================================================================
