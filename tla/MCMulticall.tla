---------------------------- MODULE MCMulticall ------------------------------
EXTENDS Multicall
MCCalls == [h \in Hooks |-> IF h = "pool" THEN {1, 2} ELSE {2}]
MCRate == [h \in Hooks |-> IF h = "pool" THEN 1 ELSE Infinity]
=============================================================================
