--------------------------- MODULE MCPlatformProvider ---------------------------
(* An instance of PlatformProvider for TLC: two providers that share a cache and, by *)
(* their keys, the Platform's answers.                                               *)
EXTENDS PlatformProvider

CONSTANTS t1, t2, p1, p2

MCProviderOf == [t \in {t1, t2} |-> IF t = t1 THEN p1 ELSE p2]
Two(a, b) == [t \in {t1, t2} |-> IF t = t1 THEN a ELSE b]
MCTimed == {Two("find", "find")}
MCCalls == MCTimed \cup {Two("sign", "sign"), Two("resolve", "resolve")}
MCControls == {[directive |-> None, maxAge |-> None]}
MCExpiries == {None, 1}
=============================================================================
