-------------------------------- MODULE Http --------------------------------
(***************************************************************************)
(* What http.c makes of the request for an upgrade. A request is the words *)
(* of its request line and its header lines; a header is a name and the    *)
(* items of its value between commas, without the spaces around them.      *)
(* Names and tokens are in lower case: the code compares them ignoring it. *)
(***************************************************************************)
EXTENDS Naturals, Sequences, FiniteSetsExt

Headers == [name : STRING, value : Seq(STRING)]
Requests == [line : Seq(STRING), headers : Seq(Headers)]

\* 24 characters that decode to 16 bytes, a path of 256 characters, and one with
\* blanks and line ends in it.
GoodKey == "dGhlIHNhbXBsZSBub25jZQ=="
LongPath == "/0123456789abcdef..."
WithHeaders == "/path and headers"

\* The value httpFindHeader() returns is that of the first line of the name.
FindHeader(r, name) == {i \in DOMAIN r.headers : r.headers[i].name = name}
Value(r, name) ==
    IF FindHeader(r, name) = {} THEN <<>> ELSE r.headers[Min(FindHeader(r, name))].value

\* Mutant: the value is compared as a whole.
HasToken_Whole(r, name, token) == Value(r, name) = <<token>>

\* httpHeaderHasToken()
HasToken(r, name, token) == \E i \in DOMAIN Value(r, name) : Value(r, name)[i] = token

\* The path ends with the second space; without one on the request line it runs
\* on into the headers.
Path(r) ==
    IF Len(r.line) > 2 THEN r.line[2]
    ELSE IF r.headers = <<>> THEN "" ELSE WithHeaders

Judge(r) ==
    IF Len(r.line) < 2 \/ r.line[1] # "GET" \/ Path(r) \in {"", LongPath} THEN "HS_BAD_REQUEST"
    ELSE IF ~HasToken(r, "upgrade", "websocket") \/ ~HasToken(r, "connection", "upgrade")
    THEN "HS_NOT_UPGRADE"
    ELSE IF Value(r, "sec-websocket-version") # <<"13">> THEN "HS_BAD_VERSION"
    ELSE IF Value(r, "sec-websocket-key") # <<GoodKey>> THEN "HS_BAD_REQUEST"
    ELSE "HS_OK"

-----------------------------------------------------------------------------
(* What README.md:166-178 and RFC 6455, section 4.2.1, ask for *)

Lists(r, name, item) ==
    \E i \in DOMAIN r.headers :
        /\ r.headers[i].name = name
        /\ \E j \in DOMAIN r.headers[i].value : r.headers[i].value[j] = item

AsksUpgrade(r) ==
    /\ Len(r.line) >= 2 /\ r.line[1] = "GET"
    /\ Lists(r, "upgrade", "websocket") /\ Lists(r, "connection", "upgrade")
    /\ Lists(r, "sec-websocket-version", "13") /\ Lists(r, "sec-websocket-key", GoodKey)

\* A request nobody could object to: three words in the request line, a path
\* that fits, and no header twice.
WellFormed(r) ==
    /\ Len(r.line) = 3 /\ r.line[2] \notin {"", LongPath}
    /\ \A i, j \in DOMAIN r.headers : r.headers[i].name = r.headers[j].name => i = j
    /\ \A i \in DOMAIN r.headers :
           r.headers[i].name \in {"sec-websocket-version", "sec-websocket-key"} =>
               Len(r.headers[i].value) = 1
=============================================================================
