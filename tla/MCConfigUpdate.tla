--------------------------- MODULE MCConfigUpdate ---------------------------
(* Small instances of ConfigUpdate for TLC. *)
EXTENDS ConfigUpdate, TLC

CONSTANTS a, b, c, e, first

TwoUpdates == {a, b}
ThreeUpdates == {a, b, c}
NoEdit == {}
OneEdit == {e}

\* The installation's file is the longest, b is longer than a and c.
Lengths == [x \in {a, b, c, e, first} |-> CASE x = first -> 3 [] x = b -> 2 [] OTHER -> 1]
SizesOfAll == [x \in Configs |-> Lengths[x]]

=============================================================================
