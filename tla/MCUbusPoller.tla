---------------------------- MODULE MCUbusPoller ----------------------------
(* Small instances of UbusPoller for TLC. *)
EXTENDS UbusPoller, TLC

CONSTANTS c1, c2, c3, a1, r1, w1, w2

TwoCallers == {c1, c2}
ThreeCallers == {c1, c2, c3}
OneCallerAndAdder == {c1, a1}
OneAdder == {a1}
OneRequest == {r1}
TwoWorkers == {w1, w2}
OneWorker == {w1}
Empty == {}
AlwaysConnects == {TRUE}
MayNotConnect == BOOLEAN
CallerSymmetry == Permutations(ThreeCallers)
=============================================================================
