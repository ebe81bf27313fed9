---------------------------- MODULE ActiveProfile ----------------------------
(***************************************************************************)
(* What the profile store promises its readers, whatever the interleaving  *)
(* of requests and crashes: ids are never reused, a retired profile never  *)
(* comes back, and at every moment at most one live profile is current.    *)
(* It does not promise that there is one: Lose is a step of the store.     *)
(***************************************************************************)
CONSTANT Profiles

VARIABLES
    live,      \* profiles clients see
    current,   \* the profile the /base endpoints use: empty or a singleton
    retired    \* soft-deleted profiles

Init ==
    /\ live = {}
    /\ current = {}
    /\ retired = {}

Fresh == Profiles \ (live \cup retired)

\* A new profile, which may become the current one.
Add(p) ==
    /\ p \in Fresh
    /\ live' = live \cup {p}
    /\ current' \in {current, {p}}
    /\ UNCHANGED retired

\* A live profile takes over.
Switch(p) ==
    /\ p \in live
    /\ current' = {p}
    /\ UNCHANGED <<live, retired>>

\* Nobody is current any more.
Lose ==
    /\ current' = {}
    /\ UNCHANGED <<live, retired>>

\* A live profile is retired; if it was current, nobody is.
Retire(p) ==
    /\ p \in live
    /\ live' = live \ {p}
    /\ current' = current \ {p}
    /\ retired' = retired \cup {p}

Next ==
    \/ \E p \in Profiles : Add(p) \/ Switch(p) \/ Retire(p)
    \/ Lose

Spec == Init /\ [][Next]_<<live, current, retired>>

=============================================================================
