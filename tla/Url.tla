-------------------------------- MODULE Url --------------------------------
(* The two readers of URLs: URLParts (httpx/url_parts.hpp) cuts a URL at its  *)
(* marks, url_utils (utils/url_utils.hpp), which the cURL client uses,        *)
(* matches it with a regular expression (httpx/url_utils.hpp is a second copy *)
(* of it, word for word).  A text is a sequence of characters; the scheme's   *)
(* word and the default ports count as one character each.                    *)
EXTENDS Integers, Sequences, FiniteSetsExt

CONSTANTS
    Letters, Digits,     \* characters of host names
    Secure,              \* the schemes "https" and "wss", letters here
    MaxPieces            \* bound: pieces of a URL after those it starts with

SchemeMark == <<":", "/", "/">>
HostChars == Letters \cup Digits \cup {"-", "."}

\* Where a text has the mark first, or npos.
\* Mutant: last.
npos == 0
Finds(text, mark, i) == i + Len(mark) - 1 <= Len(text) /\ \A j \in 1 .. Len(mark) : text[i + j - 1] = mark[j]
rfind(text, mark) ==
    LET found == {i \in 1 .. Len(text) : Finds(text, mark, i)} IN IF found = {} THEN npos ELSE Max(found)
find(text, mark) ==
    LET found == {i \in 1 .. Len(text) : Finds(text, mark, i)} IN IF found = {} THEN npos ELSE Min(found)
From(text, i) == SubSeq(text, i, Len(text))
Before(text, i) == SubSeq(text, 1, i - 1)

\* URLParts::Parse() where it returns true: scheme, user, host, port and path
\* are cut off in this order.
CanParse(url) == find(url, SchemeMark) # npos
\* What is left for user, host and port, up to the path.
Authority(url) ==
    LET rest == From(url, find(url, SchemeMark) + 3)
        m == find(rest, <<"/">>)
    IN  IF m = npos THEN [text |-> rest, path |-> << >>] ELSE [text |-> Before(rest, m), path |-> From(rest, m)]
HostPort(text) == LET m == find(text, <<"@">>) IN From(text, m + 1)
Parse(url) ==
    LET authority == Authority(url)
        at == find(authority.text, <<"@">>)
        host_port == HostPort(authority.text)
        colon == find(host_port, <<":">>)
    IN  [scheme |-> Before(url, find(url, SchemeMark)), user_pass |-> Before(authority.text, at),
         host |-> IF colon = npos THEN host_port ELSE Before(host_port, colon),
         port |-> IF colon = npos THEN << >> ELSE From(host_port, colon + 1), path_query_fragment |-> authority.path]

DefaultPort(is_ssl) == IF is_ssl THEN <<"443">> ELSE <<"80">>
GetPort(parts) == IF parts.port # << >> THEN parts.port ELSE DefaultPort(parts.scheme \in {<<s>> : s \in Secure})

\* The expression of parse_uri() is greedy: a scheme up to the last mark that a
\* host follows, as much host as there is, a colon and digits if they are there.
Begins(url) == {n \in 1 .. Len(url) - 3 : Finds(url, SchemeMark, n) /\ url[n + 3] \in HostChars}
Run(text, i, chars) == Max({i - 1} \cup {k \in i .. Len(text) : \A j \in i .. k : text[j] \in chars})
PortEnd(url, i) ==
    IF i <= Len(url) /\ url[i] = ":" /\ Run(url, i + 1, Digits) > i THEN Run(url, i + 1, Digits) ELSE i - 1

\* Without a match the constructor of CClient stops at an assertion.
Matches(url) == Begins(url) # {}
parse_uri(url) ==
    LET n == Max(Begins(url))
        host_end == Run(url, n + 3, HostChars)
        port_end == PortEnd(url, host_end + 1)
    IN  [host |-> SubSeq(url, n + 3, host_end),
         port |-> IF port_end = host_end THEN DefaultPort(Before(url, n) \in {<<s>> : s \in Secure})
                  ELSE SubSeq(url, host_end + 2, port_end),
         path |-> From(url, port_end + 1)]
-----------------------------------------------------------------------------
\* URLs that are built piece by piece, from nothing, a scheme, or a scheme and
\* a user.
VARIABLES url, pieces
urlVars == <<url, pieces>>

Pieces == {<<c>> : c \in Letters \cup Digits \cup {":", "/", "@"}} \cup {SchemeMark}

Starting == {<< >>} \cup {<<s>> \o SchemeMark \o user : s \in Secure, user \in {<< >>} \cup {<<c, "@">> : c \in Letters}}
UrlInit == url \in Starting /\ pieces = 0
UrlNext == pieces < MaxPieces /\ \E p \in Pieces : url' = url \o p /\ pieces' = pieces + 1
-----------------------------------------------------------------------------
Contains(text, c) == find(text, c) # npos
Optional(text, put) == IF text = << >> THEN {<< >>, put} ELSE {put}
ReadsBack == CanParse(url) =>
    LET p == Parse(url)
        User == Optional(p.user_pass, p.user_pass \o <<"@">>)
        Port == Optional(p.port, <<":">> \o p.port)
    IN  /\ \E user \in User, port \in Port :
              /\ url = p.scheme \o SchemeMark \o user \o p.host \o port \o p.path_query_fragment
              /\ user = << >> => ~Contains(p.host \o port, <<"@">>)
              /\ ~Contains(user \o p.host \o port, <<"/">>)
              /\ port = << >> => ~Contains(p.host, <<":">>)
        /\ p.path_query_fragment # << >> => p.path_query_fragment[1] = "/"
        /\ ~Contains(p.scheme \o <<":", "/">>, SchemeMark)
        /\ ~Contains(p.user_pass, <<"@">>) /\ ~Contains(p.host, <<":">>)

OneMark == CanParse(url) /\ ~Contains(From(url, find(url, SchemeMark) + 1), SchemeMark)
SameAnswer ==
    LET p == Parse(url)
        plain == /\ OneMark /\ p.host # << >> /\ ~Contains(Authority(url).text, <<"@">>)
                 /\ \A i \in DOMAIN p.port : p.port[i] \in Digits
                 /\ p.port = << >> => ~Contains(Authority(url).text, <<":">>)
    IN  plain => Matches(url) /\ parse_uri(url) = [host |-> p.host, port |-> GetPort(p), path |-> p.path_query_fragment]

=============================================================================
