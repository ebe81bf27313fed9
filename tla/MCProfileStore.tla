--------------------------- MODULE MCProfileStore ---------------------------
(* Small instances of ProfileStore for TLC. *)
EXTENDS ProfileStore, TLC

CONSTANTS p1, p2, p3, r1, r2, r3

ThreeProfiles == {p1, p2, p3}
ThreeRequests == {r1, r2, r3}

\* Profiles and requests are interchangeable; heirs are chosen by time stamp.
Interchangeable == Permutations(ThreeProfiles) \cup Permutations(ThreeRequests)

=============================================================================
