------------------------------- MODULE Calls -------------------------------
\* The calls made on a component, bounded by MaxCalls.
EXTENDS Naturals

CONSTANT MaxCalls
VARIABLE calls

InitCalls == calls = 0
Call == calls < MaxCalls /\ calls' = calls + 1
=============================================================================
