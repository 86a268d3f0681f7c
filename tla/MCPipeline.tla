----------------------------- MODULE MCPipeline -----------------------------
\* Small instances of Pipeline for TLC.
EXTENDS Pipeline, TLC

CONSTANTS a, b, w1, w2

\* a fills the queue and parks; b competes.
ScriptData == (a :> <<"data", "data", "data">>) @@ (b :> <<"data">>)
\* Messages beside a CLOSE.
ScriptClose == (a :> <<"data", "data">>) @@ (b :> <<"data", "close">>)
\* After an answer that may block, more messages than the queue holds and the
\* park list holds back.
ScriptBurst == (a :> <<"ping", "data", "data", "data", "data">>)

WorkerSymmetry == Permutations(Workers)
=============================================================================
