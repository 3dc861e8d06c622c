------------------------------- MODULE MCUbusd -------------------------------
(* Small instances of Ubusd for TLC. *)
EXTENDS Ubusd, TLC

CONSTANTS c1, c2, o1, o2, o3, t1, t2, p1, p2

TwoClients == {c1, c2}
TwoObjects == {o1, o2}
ThreeObjects == {o1, o2, o3}
TwoTypes == {t1, t2}
TwoPaths == {p1, p2}
OnePath == {p1}
LowId == {o1}
Empty == {}
Removals == {"ubus.object.remove"}
RegistrySymmetry == Permutations(TwoClients) \union Permutations(ThreeObjects)
                    \union Permutations(TwoPaths) \union Permutations(TwoTypes)
=============================================================================
