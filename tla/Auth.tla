-------------------------------- MODULE Auth --------------------------------
(***************************************************************************)
(* The pure part of logging in: src/src/auth.c, which reads a password out  *)
(* of a posted form and a session token out of a Cookie header.             *)
(*                                                                          *)
(* Where the code has 256 character codes, 16 hexadecimal digits and the    *)
(* field name "password=", the constants give it fewer and a shorter one.   *)
(***************************************************************************)
EXTENDS Text

CONSTANTS
    HexDigits,    \* the hexadecimal digits, in order
    Codes,        \* the characters in the order of their codes, NUL first
    FieldName,    \* "password="
    CookieName,   \* AUTH_COOKIE_NAME
    PasswordMax   \* WETTYD_PASSWORD_MAX, the NUL at the end included

\* A byte is two hexadecimal digits, a form that does not decode none.
Malformed == "malformed"
ASSUME CodesAssumption ==
    /\ Codes \in Seq(STRING) /\ HexDigits \in Seq(STRING)
    /\ Len(Codes) = Len(HexDigits) * Len(HexDigits)
    /\ Codes[1] = NUL
    /\ IsInjective(Codes) /\ IsInjective(HexDigits)
    /\ Malformed \notin Range(Codes) /\ "&" \notin Range(HexDigits)
ASSUME FieldAssumption ==
    FieldName \in Seq(STRING) /\ FieldName # <<>> /\ "&" \notin Range(FieldName)
ASSUME PasswordMaxAssumption == PasswordMax \in Nat \ {0}

-----------------------------------------------------------------------------
\* auth_token_matches: every character is compared, whatever the first
\* difference, and the lengths are compared too.
TokenMatches(token, expected) ==
    /\ Len(token) = Len(expected)
    /\ \A i \in DOMAIN expected : token[i] = expected[i]

\* auth_cookie_matches: the cookies are what the semicolons separate, without
\* the spaces before them; a name ends at the first "=".
WithTheSpaces(text) == text  \* mutant: keeps them
WithoutSpaces(text) ==
    LET first == SelectInSeq(text, LAMBDA c : c # " ")
    IN  IF first = 0 THEN <<>> ELSE SubSeq(text, first, Len(text))
CookieMatches(header, token) ==
    \E start \in Starts(header, ";") :
        LET cookie == WithoutSpaces(PartAt(header, start, ";"))
            eq == SelectInSeq(cookie, LAMBDA c : c = "=")
        IN  /\ eq # 0
            /\ SubSeq(cookie, 1, eq - 1) = CookieName
            /\ TokenMatches(SubSeq(cookie, eq + 1, Len(cookie)), token)

-----------------------------------------------------------------------------
\* auth_form_password's decoding loop: "+" is a space and %XX the character of
\* that code; a % that two hexadecimal digits do not follow ends it.
HexValue(c) == SelectInSeq(HexDigits, LAMBDA d : d = c) - 1
IsEscape(value, j) ==
    j + 2 <= Len(value) /\ \A k \in 1 .. 2 : value[j + k] \in Range(HexDigits)
Decoded(value) ==
    LET decoded[j \in 1 .. Len(value) + 1] ==
            IF j > Len(value) THEN <<>>
            ELSE IF value[j] = "+" THEN <<" ">> \o decoded[j + 1]
            ELSE IF value[j] # "%" THEN <<value[j]>> \o decoded[j + 1]
            ELSE IF ~IsEscape(value, j) THEN <<Malformed>>
            ELSE <<Codes[HexValue(value[j + 1]) * Len(HexDigits) + HexValue(value[j + 2]) + 1]>>
                    \o decoded[j + 3]
    IN  decoded[1]

\* The value of the form's first password field; ok if there is one, it is well
\* formed and not too long.
FormPassword(form) ==
    LET fields == {start \in Starts(form, "&") : IsPrefix(FieldName, PartAt(form, start, "&"))}
        field == PartAt(form, Min(fields), "&")
        text == Decoded(SubSeq(field, Len(FieldName) + 1, Len(field)))
    IN  IF fields = {} THEN [ok |-> FALSE, text |-> <<>>]
        ELSE [ok |-> Malformed \notin Range(text) /\ Len(text) < PasswordMax, text |-> text]

-----------------------------------------------------------------------------
\* The other side, the browser's: a field as it is encoded for posting, with what
\* has a meaning in a form escaped or everything, in a form that has other fields
\* before it and after it; and a Cookie header.
Escaped(c) ==
    LET code == SelectInSeq(Codes, LAMBDA d : d = c) - 1
    IN  <<"%", HexDigits[(code \div Len(HexDigits)) + 1], HexDigits[(code % Len(HexDigits)) + 1]>>
FormText(typed, everything) ==
    FlattenSeq([i \in DOMAIN typed |->
        IF everything \/ typed[i] \in {NUL, "%", "&", "+"} THEN Escaped(typed[i])
        ELSE IF typed[i] = " " THEN <<"+">> ELSE <<typed[i]>>])
IsForm(form) ==
    /\ form.typed \in Seq(Range(Codes) \ {NUL}) /\ form.everything \in BOOLEAN
    /\ form.before \in Seq(STRING) /\ form.after \in Seq(STRING) /\ form.text \in Seq(STRING)
    /\ form.before # <<>> => form.before[Len(form.before)] = "&"
    /\ \A start \in Starts(form.before, "&") : ~IsPrefix(FieldName, PartAt(form.before, start, "&"))
    /\ form.after # <<>> => form.after[1] = "&"
    /\ form.text =
          form.before \o FieldName \o FormText(form.typed, form.everything) \o form.after

IsCookie(cookie) ==
    /\ cookie.name \in Seq(STRING) /\ cookie.value \in Seq(STRING)
    /\ {"=", ";"} \cap Range(cookie.name) = {} /\ ";" \notin Range(cookie.value)
    /\ cookie.name # <<>> /\ cookie.name[1] # " "
CookieHeader(jar) ==
    FlattenSeq([i \in DOMAIN jar |->
        (IF i = 1 THEN <<>> ELSE <<";", " ">>) \o jar[i].name \o <<"=">> \o jar[i].value])
=============================================================================
