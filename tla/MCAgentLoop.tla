----------------------------- MODULE MCAgentLoop -----------------------------
\* A small agent: four steps and a two-step extension, two retries of the
\* verification, one reflection per cycle.
EXTENDS AgentLoop

CONSTANTS readA, writeB

MCUsages == {0, 2}
MCSignatures == {readA, writeB}
MCFailedCalls == 0..2
=============================================================================
