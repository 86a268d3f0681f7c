----------------------------- MODULE MCHandshake -----------------------------
\* Small instances of Handshake for TLC.
EXTENDS Handshake, TLC

CONSTANTS a, b, w1, w2

\* A request as a browser sends it, and what may be different about one.
Header(name, value) == [name |-> name, value |-> value]
Version(v) == Header("sec-websocket-version", <<v>>)
Key(k) == Header("sec-websocket-key", <<k>>)
Host == Header("host", <<"server">>)
Upgrade == <<Host, Header("upgrade", <<"websocket">>),
             Header("connection", <<"keep-alive", "upgrade">>)>>

Line(path) == <<"GET", path, "HTTP/1.1">>
Text(line, headers) == [line |-> line, headers |-> headers]
Good == Upgrade \o <<Key(GoodKey), Version("13")>>

Of(path, size) == [text |-> Text(Line(path), Good), size |-> size]
Odd(line, headers) == [text |-> Text(line, headers), size |-> 1]

OldVersion == Odd(Line("/source"), Upgrade \o <<Version("8"), Key(GoodKey)>>)
NotUpgrade == Odd(Line("/feed"), <<Host, Key(GoodKey), Version("13")>>)

Pair(ofA, ofB) == (a :> ofA) @@ (b :> ofB)

\* What is refused, or only just granted.
Oddities == {
    Pair(Odd(<<"POST", "/feed", "HTTP/1.1">>, Good), Odd(<<"GET", "/feed">>, Good)),
    Pair(Odd(<<"GET">>, Good), Odd(Line(""), Good)),
    Pair(Odd(Line(LongPath), Good), Odd(Line("/source"), <<>>)),
    Pair(Odd(Line("/feed"), <<Header("upgrade", <<"websocket-ish">>)>> \o Good),
         Odd(Line("/feed"), <<Header("connection", <<"close">>)>> \o Good)),
    Pair(Odd(Line("/feed"), Good \o <<Version("8")>>),
         Odd(Line("/feed"), Upgrade \o <<Version("13")>>)),
    Pair(Odd(Line("/source"), Upgrade \o <<Key("c2hvcnQ="), Version("13")>>),
         Odd(Line("/source"), Upgrade \o <<Header("sec-websocket-version", <<"13", "8">>)>>))}

\* Two sinks, of which one replaces the other; requests that come in pieces;
\* refusals, and a request that is too long.
AllCases == {
    Pair(Of("/feed", 2), Of("/feed", 1)),
    Pair(Of("/source", 2), Of("/feed", 1)),
    Pair([OldVersion EXCEPT !.size = 2], Of("/source", 4)),
    Pair(NotUpgrade, Of("/source", 1))}
    \cup Oddities

=============================================================================
