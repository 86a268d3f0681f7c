------------------------------- MODULE Options -------------------------------
(***************************************************************************)
(* parseArgs() (options.c): the command line, option by option, into a     *)
(* configuration. An argument is [opt, val]. The text of a number is       *)
(* [num, clean]: the long that strtol() makes of it (0 if it begins with   *)
(* no number) and whether it is one to its end. An upstream URL is         *)
(* [ws, authority, path]: whether it begins with ws://, what stands before *)
(* the first '/' as a sequence of pieces, and the length of the rest. A    *)
(* piece is one of ":", "[", "]" or a text without these:                  *)
(* [mark, len, num, clean].                                                *)
(***************************************************************************)
EXTENDS Integers, Sequences, SequencesExt, FiniteSetsExt

CONSTANT IntBits    \* bits of an int

ASSUME IntAssumption == IntBits \in Nat /\ IntBits >= 17

MaxWorkers == 64
MaxListeners == 16
HostMax == 256
PathMax == 512
Ports == 1..65535

Defaults ==
    [port |-> 33333, workers |-> 8, listeners |-> 2, sinkPath |-> "/feed",
     handshakeMax |-> 8192, maxFrame |-> 65536, maxMessage |-> 4194304,
     hwm |-> 256, lwm |-> 128, tickMs |-> 1000, upstreams |-> <<>>]

\* An argument as described above; an option that is not known has no value.
Numbers == [num : Int, clean : BOOLEAN]
Pieces == {p \in [mark : {":", "[", "]", "text"}, len : Nat \ {0}, num : Int, clean : BOOLEAN] :
              p.mark # "text" => p.len = 1 /\ p.num = 0 /\ ~p.clean}
Urls == [ws : BOOLEAN, authority : Seq(Pieces), path : Nat]
Arguments ==
    [opt : {"port", "workers", "listeners", "hwm", "lwm", "maxFrame", "maxMessage", "tickMs"},
     val : Numbers]
        \cup [opt : {"upstream"}, val : Urls]
        \cup [opt : {"sinkPath"}, val : [slash : BOOLEAN, text : STRING]]
        \cup [opt : {"help", "other"}, val : {0}]

-----------------------------------------------------------------------------
(* addUpstreamUrl() *)

Mark(p) == p.mark
Length(pieces) == FoldFunction(+, 0, [i \in DOMAIN pieces |-> pieces[i].len])

Positions(pieces, mark) == {i \in DOMAIN pieces : pieces[i].mark = mark}

Bracketed(pieces) == pieces # <<>> /\ pieces[1].mark = "["

\* Mutant: the host of an address without brackets ends at the first colon.
HostEnd_First(pieces) ==
    IF Bracketed(pieces) THEN Min(Positions(pieces, "]")) ELSE Min(Positions(pieces, ":"))

\* The piece behind the host: the first bracket that closes an IPv6 address, or
\* the last colon.
HostEnd(pieces) ==
    IF Bracketed(pieces) THEN Min(Positions(pieces, "]")) ELSE Max(Positions(pieces, ":"))

HasPort(pieces) ==
    IF Bracketed(pieces)
    THEN /\ Positions(pieces, "]") # {}
         /\ HostEnd(pieces) < Len(pieces)
         /\ pieces[HostEnd(pieces) + 1].mark = ":"
    ELSE Positions(pieces, ":") # {}

Host(pieces) ==
    SubSeq(pieces, IF Bracketed(pieces) THEN 2 ELSE 1, HostEnd(pieces) - 1)
Port(pieces) ==
    SubSeq(pieces, HostEnd(pieces) + (IF Bracketed(pieces) THEN 2 ELSE 1), Len(pieces))

\* strtol() has to take the whole text.
IsPort(pieces) ==
    /\ Len(pieces) = 1 /\ pieces[1].mark = "text" /\ pieces[1].len < 16
    /\ pieces[1].clean /\ pieces[1].num \in Ports

UrlAccepted(url) ==
    /\ url.ws /\ Length(url.authority) + url.path > 0
    /\ HasPort(url.authority)
    /\ Length(Host(url.authority)) \in 1..(HostMax - 1)
    /\ IsPort(Port(url.authority))
    /\ url.path < PathMax

\* With no path the client asks for "/".
Upstream(url) ==
    [host |-> Host(url.authority), port |-> Port(url.authority)[1].num,
     path |-> IF url.path = 0 THEN 1 ELSE url.path]

-----------------------------------------------------------------------------
(* parseArgs() *)

\* parsePositive() asks for a whole number that fits a long.
Positive(val) == val.clean /\ val.num > 0

\* The cast of a long to int.
ToInt(n) == ((n + 2 ^ (IntBits - 1)) % (2 ^ IntBits)) - 2 ^ (IntBits - 1)

\* What is stored: atoi() casts before the range is looked at, and takes what is
\* a number at the beginning of a text; --tick is cast after parsePositive().
Value(arg) ==
    IF arg.opt \in {"port", "workers", "listeners", "tickMs"}
    THEN ToInt(arg.val.num)
    ELSE arg.val.num

Accepted(arg) ==
    CASE arg.opt = "port"      -> Value(arg) \in Ports
      [] arg.opt = "workers"   -> Value(arg) \in 1..MaxWorkers
      [] arg.opt = "listeners" -> Value(arg) \in 1..MaxListeners
      [] arg.opt = "sinkPath"  -> arg.val.slash
      [] arg.opt = "upstream"  -> UrlAccepted(arg.val)
      [] arg.opt \in {"hwm", "lwm", "maxFrame", "maxMessage", "tickMs"} -> Positive(arg.val)
      [] OTHER                 -> FALSE

Set(conf, arg) ==
    CASE arg.opt = "upstream" ->
             [conf EXCEPT !.upstreams = Append(@, Upstream(arg.val))]
      [] arg.opt = "sinkPath" -> [conf EXCEPT !.sinkPath = arg.val.text]
      [] OTHER                -> [conf EXCEPT ![arg.opt] = Value(arg)]

\* The first option that is wrong, and --help, end the loop.
Step(result, arg) ==
    IF result.rc # "go" THEN result
    ELSE IF arg.opt = "help" THEN [result EXCEPT !.rc = "help"]
    ELSE IF Accepted(arg) THEN [result EXCEPT !.conf = Set(@, arg)]
    ELSE [result EXCEPT !.rc = "error"]

\* The watermarks are compared at the end, so that their order does not matter.
ParseArgs(args) ==
    LET result == FoldLeft(Step, [rc |-> "go", conf |-> Defaults], args)
        marksOk == result.conf.lwm < result.conf.hwm
    IN  [result EXCEPT !.rc = IF @ # "go" THEN @ ELSE IF marksOk THEN "ok" ELSE "error"]

\* The period of the aggregator's timer (agg.c:524): a tick that the cast to int
\* has made zero or negative becomes the default.
TimerPeriod(conf) == IF conf.tickMs > 0 THEN conf.tickMs ELSE Defaults.tickMs
=============================================================================
