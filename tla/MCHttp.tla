------------------------------- MODULE MCHttp -------------------------------
(***************************************************************************)
(* Http.tla for TLC: a password of three characters that all mean something *)
(* in a form, and the requests of a browser that holds, among others, the   *)
(* session cookie or cookies that look like it.                             *)
(***************************************************************************)
EXTENDS Http, TLC

CONSTANTS c1, c2

MCHexDigits == <<"0", "1", "2">>
MCCodes == <<"NUL", " ", "%", "&", "+", "0", "1", "2", ";">>
MCFieldName == <<"p", "=">>
MCCookieName == <<"s">>
MCPassword == <<"+", "1", " ">>
MCToken == <<"1", "=">>
MCPageSize ==
    [page \in Pages |-> CASE page = "index" -> 4 [] page = "index.gz" -> 3 [] OTHER -> 2]

Cookie(name, value) == [name |-> name, value |-> value]
Session == Cookie(<<"s">>, MCToken)
Trap == Cookie(<<"x">>, <<"s", "=">> \o MCToken)
LoggedIn == <<Trap, Session>>
Jars == {
    <<>>, LoggedIn, <<Trap, Cookie(<<"s">>, <<"1">>)>>,
    <<Cookie(<<"x">>, <<"1", "1", "1", "1", "1", "1">>), Session>>}  \* too long to be read

\* A form, between other fields.
Form(typed, everything, before, after) ==
    [typed |-> typed, everything |-> everything, before |-> before, after |-> after,
     text |-> before \o MCFieldName \o FormText(typed, everything) \o after]
Forms == {
    Form(MCPassword, FALSE, <<>>, <<>>), Form(MCPassword, TRUE, <<>>, <<>>),
    Form(MCPassword, FALSE, <<"x", "=", "&">>, <<>>),
    Form(<<"+", "1", " ", "1">>, FALSE, <<>>, <<>>),  \* too long a password
    Form(<<" ", "1", " ">>, FALSE, <<>>, <<>>),
    \* too long a form, of which a part is a right one
    Form(MCPassword, FALSE, <<>>, <<"&", "x", "=", "1", "1">>)}

Request(path, gzip, jar, form) ==
    [path |-> path, gzip |-> gzip, jar |-> jar, header |-> CookieHeader(jar),
     proxied |-> jar # <<>>, form |-> form, post |-> form # None]
\* A body that was sent where it does not belong, or by the wrong method.
Astray(path, jar) == Request(path, FALSE, jar, Form(<<>>, FALSE, <<>>, <<>>))
BodiesAstray == {
    Astray("index", LoggedIn), Astray("token", LoggedIn), Astray("logout", LoggedIn),
    [Astray("login", <<>>) EXCEPT !.post = FALSE]}
MCLaterRequests == {Astray("token", LoggedIn), Astray("login", <<>>)}
MCConns == {c1, c2}
\* One client asks for everything, the other one for a page the two share.
EachRequests == c1 :>
    {Request("index", FALSE, jar, None) : jar \in Jars}
    \cup {Request(path, FALSE, jar, None) : path \in Paths, jar \in {<<>>, LoggedIn}}
    \cup {Request("index", TRUE, LoggedIn, None), Request("login", TRUE, <<>>, None)}
    \cup {Request("login", FALSE, <<>>, form) : form \in Forms}
    \cup BodiesAstray \cup MCLaterRequests
    @@ c2 :> {Request("index", FALSE, LoggedIn, None)}
MCRequests == EachRequests  \* which TLC evaluates once
=============================================================================
