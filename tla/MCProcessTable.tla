-------------------------- MODULE MCProcessTable ---------------------------
(* An instance of ProcessTable for TLC.                                    *)
EXTENDS ProcessTable

CONSTANTS p1, c1, c2, c3

OneProcess == {p1}
ThreeCallers == {c1, c2, c3}
=============================================================================
