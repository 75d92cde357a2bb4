-------------------------------- MODULE Http --------------------------------
(***************************************************************************)
(* The pages of the server: src/src/http.c, the callback that serves plain  *)
(* HTTP requests, over connections that are kept alive from one request to  *)
(* the next and may be closed at any time.                                  *)
(*                                                                          *)
(* A connection is one libwebsockets connection with its struct pss_http.   *)
(* Requests are inputs; a page is its name and its length, of which ptr     *)
(* says how much was written; the body of a login form is character for     *)
(* character.  pss->path and pss->authenticated are used only within the    *)
(* callback that sets them and have no variable.                            *)
(***************************************************************************)
EXTENDS Auth

CONSTANTS
    Conns,      \* the connections there may be at once (bound)
    None,       \* the null pointer
    Requests,   \* the requests of each connection's client, see RequestAssumption
    LaterRequests,  \* those made on a connection that is overtaken, see below (bound)
    Password,   \* server->password
    Token,      \* server->session_token
    PageSize,   \* the length of each page
    BodyMax,    \* LOGIN_BODY_MAX
    CookieMax,  \* the longest Cookie header that request_authenticated reads
    WriteMax    \* the most that one lws_write_http is given

\* A page is compiled in, gzipped; uncompressed once into a cache all requests
\* share; or allocated for one request.
StaticPages == {"index.gz", "login.gz"}
CachedPages == {"index", "login"}
Pages == StaticPages \cup CachedPages \cup {"token"}
Paths == {"index", "parent", "token", "login", "logout", "other"}

AllRequests == UNION {Requests[c] : c \in Conns}

ASSUME RequestAssumption ==
    \A r \in AllRequests :
        /\ r.path \in Paths
        /\ r.gzip \in BOOLEAN     \* Accept-Encoding says gzip
        /\ r.proxied \in BOOLEAN  \* has the --auth-header header
        /\ r.jar \in Seq([name : Seq(STRING), value : Seq(STRING)])  \* the client's cookies
        /\ \A i \in DOMAIN r.jar : IsCookie(r.jar[i])
        /\ r.header = CookieHeader(r.jar)
        /\ r.form = None \/ IsForm(r.form)  \* the body, whatever it is sent to
        /\ r.post \in BOOLEAN /\ (r.post => r.form # None)  \* the method is POST
ASSUME PageAssumption ==
    /\ PageSize \in [Pages -> Nat \ {0}] /\ WriteMax \in Nat \ {0}
    /\ BodyMax \in Nat /\ CookieMax \in Nat
    /\ None \notin Pages \cup {"file", "404"} \cup Seq(STRING)
\* Every password the configuration file may hold fits a login form, however
\* much of it is escaped.
ASSUME FormAssumption ==
    /\ Password \in Seq(STRING) /\ Token \in Seq(STRING)
    /\ Len(Password) < PasswordMax
    /\ Len(FieldName) + 3 * (PasswordMax - 1) <= BodyMax

VARIABLES
    auth,       \* "password", or "none" (no session_token), or "header"
    custom,     \* server->index is set
    cached,     \* the pages in html_cache and login_cache
    phase,      \* what libwebsockets does with a connection: "closed", "idle" between
                \* requests, "body" arriving, "reply" being written, "file" being sent
    asked,      \* the request being served, or served last
    rest,       \* what is still to arrive of its body
    wanted,     \* lws_callback_on_writable was called
    loginPost,  \* pss->login_post
    body,       \* pss->body with pss->body_len
    overflow,   \* pss->body_overflow
    buffer,     \* pss->buffer, and pss->len its page's length
    ptr,        \* pss->ptr, from the start of the buffer
    answer,     \* what the client was answered: a page, where it was sent, a status
    cookie,     \* what the answer does to the session cookie
    length,     \* Content-Length of the answer
    received,   \* how much of the answer's body was sent
    overtaken   \* a body ended before the page that its request was served was
                \* sent, and the connection was kept (history)

serverVars == <<auth, custom, cached>>
lwsVars == <<phase, asked, rest, wanted>>
pssVars == <<loginPost, body, overflow, buffer, ptr>>
clientVars == <<answer, cookie, length, received>>
vars == <<serverVars, lwsVars, pssVars, clientVars, overtaken>>

Init ==
    /\ auth \in {"password", "none", "header"} /\ custom \in BOOLEAN
    /\ cached = {}
    /\ phase = [c \in Conns |-> "closed"] /\ asked = [c \in Conns |-> None]
    /\ rest = [c \in Conns |-> <<>>] /\ wanted = [c \in Conns |-> FALSE]
    /\ loginPost = [c \in Conns |-> FALSE] /\ body = [c \in Conns |-> None]
    /\ overflow = [c \in Conns |-> FALSE]
    /\ buffer = [c \in Conns |-> None] /\ ptr = [c \in Conns |-> 0]
    /\ answer = [c \in Conns |-> None] /\ cookie = [c \in Conns |-> "kept"]
    /\ length = [c \in Conns |-> 0] /\ received = [c \in Conns |-> 0]
    /\ overtaken = [c \in Conns |-> FALSE]

-----------------------------------------------------------------------------
\* request_authenticated.  A Cookie header that does not fit its buffer is not
\* read.
RightHeaders == {header \in {r.header : r \in AllRequests} :
    Len(header) \in 1 .. CookieMax /\ CookieMatches(header, Token)}
RequestAuthenticated(r) ==
    CASE auth = "header" -> r.proxied
      [] auth = "none" -> TRUE
      [] auth = "password" -> r.header \in RightHeaders

\* pss_body_free.
BodyFreedNotOverflow(c) ==  \* mutant: forgets the overflow
    /\ loginPost' = [loginPost EXCEPT ![c] = FALSE]
    /\ body' = [body EXCEPT ![c] = None]
    /\ UNCHANGED overflow
BodyFreed(c) ==
    /\ loginPost' = [loginPost EXCEPT ![c] = FALSE]
    /\ body' = [body EXCEPT ![c] = None]
    /\ overflow' = [overflow EXCEPT ![c] = FALSE]

\* pss_buffer_free, which must leave the pages alone that it does not own.
BufferFreed(c) ==
    /\ buffer' = [buffer EXCEPT ![c] = None]
    /\ ptr' = [ptr EXCEPT ![c] = 0]
    /\ UNCHANGED cached

\* The headers of an answer, whose Content-Length is 0 unless there is a page (the
\* text of a status is written with them by lws_return_http_status).
Answers(c, what, does) ==
    /\ answer' = [answer EXCEPT ![c] = what]
    /\ cookie' = [cookie EXCEPT ![c] = does]
    /\ length' = [length EXCEPT ![c] = IF what \in Pages THEN PageSize[what] ELSE 0]
    /\ received' = [received EXCEPT ![c] = 0]

\* The connection is gone: CLOSED_HTTP frees the body, and libwebsockets the
\* struct, with it the only pointer to a token page that was not sent.
Closed(c) ==
    /\ phase' = [phase EXCEPT ![c] = "closed"]
    /\ rest' = [rest EXCEPT ![c] = <<>>]
    /\ wanted' = [wanted EXCEPT ![c] = FALSE]
    /\ buffer' = [buffer EXCEPT ![c] = None]
    /\ ptr' = [ptr EXCEPT ![c] = 0]
    /\ BodyFreed(c)
    /\ asked' = [asked EXCEPT ![c] = None]
    /\ Answers(c, None, "kept")
    /\ overtaken' = [overtaken EXCEPT ![c] = FALSE]

\* try_to_reuse: lws_http_transaction_completed keeps the connection; closing it
\* instead is Close.
Completed(c) ==
    /\ phase' = [phase EXCEPT ![c] = "idle"]
    /\ rest' = [rest EXCEPT ![c] = <<>>]
\* What of a body is still to come then is dropped, or given to the callback all
\* the same.
BodyOf(r) == IF r.form = None THEN <<>> ELSE r.form.text
CompletedBefore(c, left) ==
    \/ Completed(c)
    \/ /\ left # <<>>
       /\ phase' = [phase EXCEPT ![c] = "body"]
       /\ rest' = [rest EXCEPT ![c] = left]

\* What HTTP does with a request, in the order of its early returns.
Route(r) ==
    LET authenticated == RequestAuthenticated(r)
    IN  IF r.path = "login" THEN
            IF auth # "password" THEN "to index"
            ELSE IF r.post THEN "form"
            ELSE IF authenticated THEN "to index" ELSE "login"
        ELSE IF r.path = "logout" THEN IF auth = "password" THEN "to login" ELSE "to index"
        ELSE IF ~authenticated THEN
            IF auth = "header" THEN "407"
            ELSE IF r.path \in {"index", "parent"} THEN "to login" ELSE "401"
        ELSE IF r.path = "token" THEN "token"
        ELSE IF r.path = "parent" THEN "to index"
        ELSE IF r.path # "index" THEN "404"
        ELSE IF custom THEN "file" ELSE "index"

\* A redirect or a bare status.
AnswerAtOnce(c, r, to) ==
    /\ to \in {"to index", "to login", "401", "404", "407"}
    /\ Answers(c, to, IF r.path = "logout" THEN "cleared" ELSE "kept")
    /\ CompletedBefore(c, BodyOf(r))
    /\ UNCHANGED <<cached, wanted, pssVars, overtaken>>

\* A login is answered once its body is there.
AwaitForm(c, r, to) ==
    /\ to = "form"
    /\ Answers(c, None, "kept")
    /\ phase' = [phase EXCEPT ![c] = "body"]
    /\ rest' = [rest EXCEPT ![c] = BodyOf(r)]
    /\ loginPost' = [loginPost EXCEPT ![c] = TRUE]
    /\ UNCHANGED <<cached, wanted, body, overflow, buffer, ptr, overtaken>>

\* The page to serve: as compiled in, or uncompressed (uncompress_page), which
\* fills the cache the first time and may fail, see ReceiveRequest.  The request may
\* have a body, of which the callback does not know: it arrives while the page
\* is written.
Page(r, to) ==
    IF to = "token" \/ ~r.gzip THEN to ELSE IF to = "login" THEN "login.gz" ELSE "index.gz"
ServePage(c, r, to) ==
    /\ to \in {"login", "index", "token"}
    /\ cached' = cached \cup ({Page(r, to)} \cap CachedPages)
    /\ Answers(c, Page(r, to), "kept")
    /\ buffer' = [buffer EXCEPT ![c] = Page(r, to)]
    /\ ptr' = [ptr EXCEPT ![c] = 0]
    /\ wanted' = [wanted EXCEPT ![c] = TRUE]
    /\ phase' = [phase EXCEPT ![c] = IF r.form = None THEN "reply" ELSE "body"]
    /\ rest' = [rest EXCEPT ![c] = BodyOf(r)]
    /\ UNCHANGED <<loginPost, body, overflow, overtaken>>

\* The --index file, sent by lws_serve_http_file, at once or piece by piece.
ServeFile(c, r, to) ==
    /\ to = "file"
    /\ Answers(c, "file", "kept")
    /\ \/ CompletedBefore(c, BodyOf(r))
       \/ /\ phase' = [phase EXCEPT ![c] = "file"]
          /\ rest' = [rest EXCEPT ![c] = BodyOf(r)]
    /\ UNCHANGED <<cached, wanted, pssVars, overtaken>>

\* HTTP: the last alternative is any call that fails, after which the callback
\* closes the connection.
ReceiveRequest(c) ==
    /\ phase[c] = "idle"
    /\ \/ \E r \in Requests[c] :
            /\ overtaken[c] => r \in LaterRequests
            /\ asked' = [asked EXCEPT ![c] = r]
            /\ LET to == Route(r)
               IN  \/ AnswerAtOnce(c, r, to) \/ AwaitForm(c, r, to)
                   \/ ServePage(c, r, to) \/ ServeFile(c, r, to)
       \/ Closed(c) /\ UNCHANGED cached
    /\ UNCHANGED <<auth, custom>>

\* HTTP_BODY: the next part of the body, however the network cut it.
BodyFits(c, part) == Len(part) + (IF body[c] = None THEN 0 ELSE Len(body[c])) <= BodyMax
ReceiveBody(c) ==
    /\ phase[c] = "body"
    /\ \E n \in 1 .. Len(rest[c]) :
        LET part == SubSeq(rest[c], 1, n)
        IN  /\ rest' = [rest EXCEPT ![c] = SubSeq(@, n + 1, Len(@))]
            /\ overflow' = [overflow EXCEPT ![c] = @ \/ (loginPost[c] /\ ~BodyFits(c, part))]
            /\ body' = [body EXCEPT ![c] =
                  IF ~loginPost[c] \/ ~BodyFits(c, part) THEN @
                  ELSE IF @ = None THEN part ELSE @ \o part]
    /\ UNCHANGED <<serverVars, phase, asked, wanted, loginPost, buffer, ptr, clientVars, overtaken>>

\* handle_login_post.
LoginIsRightIfCut(c) ==  \* mutant: does not look at the overflow
    /\ body[c] # None
    /\ FormPassword(body[c]).ok
    /\ TokenMatches(CString(FormPassword(body[c]).text), Password)
LoginIsRight(c) ==
    /\ body[c] # None /\ ~overflow[c]
    /\ FormPassword(body[c]).ok
    /\ TokenMatches(CString(FormPassword(body[c]).text), Password)
HandleLoginPost(c) ==
    IF auth # "password" THEN Answers(c, "to index", "kept")
    ELSE IF LoginIsRight(c) THEN Answers(c, "to index", "set")
    ELSE Answers(c, "to login?error=1", "kept")

\* HTTP_BODY_COMPLETION, which does not look at pss->buffer: a page that is not
\* all written is left in it.
CompleteBody(c) ==
    /\ phase[c] = "body" /\ rest[c] = <<>>
    /\ \/ /\ loginPost[c]  \* the answer cannot be sent
          /\ Closed(c)
       \/ /\ \/ loginPost[c] /\ HandleLoginPost(c) /\ BodyFreed(c)
             \/ ~loginPost[c] /\ UNCHANGED <<loginPost, body, overflow, clientVars>>
          /\ Completed(c)
          /\ overtaken' = [overtaken EXCEPT ![c] = @ \/ buffer[c] # None]
          /\ UNCHANGED <<asked, wanted, buffer, ptr>>
    /\ UNCHANGED serverVars

\* The last round of HTTP_WRITEABLE's loop, with ptr at "at" and room for n:
\* either it was cut short at the page's end, or the connection is choked.
LastPieceToTheEnd(c, at, n) ==  \* mutant: done as soon as the connection is choked
    LET size == PageSize[buffer[c]]
        done == at + n > size
        to == IF done THEN size ELSE at + n
    IN  /\ received' = [received EXCEPT ![c] = @ + (to - ptr[c])]
        /\ BufferFreed(c)
        /\ wanted' = [wanted EXCEPT ![c] = FALSE]
        /\ CompletedBefore(c, rest[c])
LastPiece(c, at, n) ==
    LET size == PageSize[buffer[c]]
        done == at + n > size
        to == IF done THEN size ELSE at + n
    IN  /\ received' = [received EXCEPT ![c] = @ + (to - ptr[c])]
        /\ IF ~done /\ to < size
           THEN /\ ptr' = [ptr EXCEPT ![c] = to]
                /\ UNCHANGED <<cached, phase, rest, wanted, buffer>>
           ELSE /\ BufferFreed(c)
                /\ wanted' = [wanted EXCEPT ![c] = FALSE]
                /\ CompletedBefore(c, rest[c])

\* A round that may write nothing asks for another callback.
BlockedForGood(c, at) ==  \* mutant: does not ask for it
    /\ received' = [received EXCEPT ![c] = @ + (at - ptr[c])]
    /\ ptr' = [ptr EXCEPT ![c] = at]
    /\ wanted' = [wanted EXCEPT ![c] = FALSE]
    /\ UNCHANGED <<cached, phase, rest, buffer>>
Blocked(c, at) ==
    /\ received' = [received EXCEPT ![c] = @ + (at - ptr[c])]
    /\ ptr' = [ptr EXCEPT ![c] = at]
    /\ UNCHANGED <<cached, phase, rest, wanted, buffer>>

\* HTTP_WRITEABLE: full rounds take ptr to "at", then comes the last one.  It is
\* asked for with a page only, so that pss->buffer is never NULL (HeldInv, see
\* HttpProofs).  While a file is sent libwebsockets does not call it.
Writeable(c) ==
    /\ wanted[c] /\ phase[c] # "file"
    /\ \/ /\ buffer[c] = None
          /\ wanted' = [wanted EXCEPT ![c] = FALSE]
          /\ CompletedBefore(c, rest[c])
          /\ UNCHANGED <<cached, pssVars, received>>
       \/ /\ buffer[c] # None
          /\ \E at \in ptr[c] .. PageSize[buffer[c]] :
                Blocked(c, at) \/ \E n \in 1 .. WriteMax : LastPiece(c, at, n)
          /\ UNCHANGED <<loginPost, body, overflow>>
    /\ UNCHANGED <<auth, custom, asked, answer, cookie, length, overtaken>>

\* HTTP_FILE_COMPLETION.
FileSent(c) ==
    /\ phase[c] = "file"
    /\ CompletedBefore(c, rest[c])
    /\ UNCHANGED <<serverVars, asked, wanted, pssVars, clientVars, overtaken>>

\* A client connects, on a connection not in use.
Connect(c) ==
    /\ phase[c] = "closed"
    /\ phase' = [phase EXCEPT ![c] = "idle"]
    /\ UNCHANGED <<serverVars, asked, rest, wanted, pssVars, clientVars, overtaken>>

\* Either side closes the connection: a write failed, the client left, or
\* libwebsockets gave up on it or does not keep it alive.
Close(c) ==
    /\ phase[c] # "closed"
    /\ Closed(c)
    /\ UNCHANGED serverVars

Next == \E c \in Conns :
    \/ Connect(c)
    \/ ReceiveRequest(c)
    \/ ReceiveBody(c)
    \/ CompleteBody(c)
    \/ Writeable(c)
    \/ FileSent(c)
    \/ Close(c)

Spec == Init /\ [][Next]_vars

\* The service loop runs, and a client that has begun a request goes on with
\* it, sending and reading; libwebsockets closes one that does not.
Fairness == \A c \in Conns :
    WF_vars(Writeable(c)) /\ WF_vars(FileSent(c)) /\ WF_vars(ReceiveBody(c) \/ CompleteBody(c))
FairSpec == Spec /\ Fairness

-----------------------------------------------------------------------------
\* What makes a request one of a logged in client's, whatever else its Cookie
\* header carries.
Entitled(r) ==
    CASE auth = "none" -> TRUE
      [] auth = "header" -> r.proxied
      [] auth = "password" ->
            /\ [name |-> CookieName, value |-> Token] \in Range(r.jar)
            /\ Len(r.header) <= CookieMax

\* The answer a kept connection ends a request with is the one this request is
\* entitled to, whatever the connection carried before: the terminal and its token
\* to those who are logged in and only to them, who in turn are never sent to
\* log in again.
RightAnswer ==
    \A c \in Conns : phase[c] = "idle" /\ asked[c] # None /\ auth # "none" =>
        /\ answer[c] \in {"index", "index.gz", "token", "file", "404"} => Entitled(asked[c])
        /\ Entitled(asked[c]) /\ asked[c].path \notin {"login", "logout"} =>
              answer[c] \notin {"401", "407", "to login"}

\* A posted form gets the session cookie exactly if the password typed into it
\* is the server's and the form is not too long: however the form was encoded
\* and whatever other fields it has, however the network cut it, and even if
\* what was left of a long one reads as a right one.  On a connection that is
\* overtaken, see below, the page left there may end the request of a form that
\* is not all there.
LoginExact ==
    \A c \in Conns :
        phase[c] = "idle" /\ asked[c] # None /\ auth = "password" /\ ~overtaken[c] =>
            (cookie[c] = "set" <=>
                /\ asked[c].path = "login" /\ asked[c].post /\ answer[c] = "to index"
                /\ asked[c].form.typed = Password
                /\ Len(asked[c].form.text) <= BodyMax)

\* Between requests nothing of the last one is left: a login neither starts
\* with another one's body nor inherits its overflow.  Not so on a connection
\* that is overtaken: HTTP_BODY_COMPLETION completed a request, with a body, for a
\* page that takes none, and left what was not written of the page in pss->buffer.
NothingCarriedOver ==
    \A c \in Conns : phase[c] \in {"idle", "closed"} /\ ~overtaken[c] =>
        ~loginPost[c] /\ body[c] = None /\ ~overflow[c] /\ buffer[c] = None

\* A client was sent as many bytes as it was promised when its connection is
\* used again, whatever the socket took at a time: one more or less, and the
\* next answer would be read from the middle.  (A connection that is overtaken is
\* used again with fewer, and sent the others at any time.)  Until then the
\* bytes are there, also those of a page that several connections are sent from
\* one cache.
WholeAnswers ==
    \A c \in Conns :
        /\ phase[c] = "idle" /\ ~overtaken[c] => received[c] = length[c]
        /\ received[c] < length[c] => buffer[c] # None
        /\ buffer[c] \in CachedPages => buffer[c] \in cached

\* Every request is answered, unless the connection goes away before.
RequestsEnd ==
    \A c \in Conns : phase[c] \in {"body", "reply", "file"} ~> phase[c] \in {"idle", "closed"}
=============================================================================
