---------------------------- MODULE MCPipelineDag ----------------------------
\* The values of PipelineDag's constants for TLC.
EXTENDS PipelineDag

CONSTANTS r1, r2

MCRun == {r1, r2}

\* A data set with a row PostgreSQL refuses, and one that breaks the contract.
MCDataSets == {<<"ok", "unstorable", "ok">>, <<"bad">>}

\* The loader's first attempt stops short of what the consumer relays; its retry
\* reads the rest.
MCMaxMessages == [consumer |-> 3, loader |-> 2]
=============================================================================
