----------------------------- MODULE MCUpstream -----------------------------
\* Instances of Upstream for TLC.
EXTENDS Upstream

\* One client: a fragmented message around a PING and a CLOSE, a refusal, a
\* frame out of place, and a short connection.
OneScript ==
    << << <<"101", "whole", "begin", "ping", "end", "close">>, <<"refuse">>,
          <<"101", "more">>, <<"101", "whole">> >> >>

\* Two busy clients.
TwoScript ==
    << << <<"101", "whole", "whole">> >>,
       << <<"101", "whole">> >> >>
=============================================================================
