--------------------------- MODULE MCSessionSync ---------------------------
(* SessionSync for TLC.                                                    *)
EXTENDS SessionSync, TLC

CONSTANTS r1, r2, o1, o2

TwoOwn == {r1, r2}
OneOther == {o1}
OneOwn == {r1}
=============================================================================
