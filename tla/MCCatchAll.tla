----------------------------- MODULE MCCatchAll -----------------------------
(* Small instances of CatchAll for TLC: objects with fields a, b and zero   *)
(* (a name that is a number), arrays of up to two elements below them, and  *)
(* up to two JSON paths.                                                    *)
EXTENDS CatchAll, TLC

CONSTANTS a, b, zero, h1, h2, messages, get, post

AllFields == {a, b, zero}
Numbers == zero :> 0

\* The tree with one node, a tree below a key, and a node with such trees.
Leaf(kind) == <<>> :> kind
Below(key, tree) ==
    [n \in {<<key>> \o m : m \in DOMAIN tree} |-> tree[Tail(n)]]
Strings == {Leaf("string")}
Arrays(elements) ==
    {Leaf("array")}
        \cup {Leaf("array") @@ Below(0, e) : e \in elements}
        \cup {Leaf("array") @@ Below(0, e) @@ Below(1, f) : e \in elements, f \in elements}
Objects(key, values) == {Leaf("object") @@ Below(key, v) : v \in values}

Inner == Strings \cup Objects(b, Strings) \cup {Leaf("scalar")}
Deep == Strings \cup Arrays(Inner) \cup Objects(b, Strings \cup {Leaf("array") @@ Below(0, Leaf("string"))})
            \cup Objects(zero, Strings)
None == {Leaf("object")}
Merged(S, T) == {s @@ t : s \in S, t \in T}
Trees == Merged(Merged(None \cup Objects(a, Deep), None \cup Objects(b, Strings \cup {Leaf("big")})),
                None \cup Objects(zero, Strings))

Paths == {<<b>>, <<a, Wildcard>>, <<a, Wildcard, b>>, <<a, 0>>, <<a, -1>>, <<a, b>>, <<zero>>, <<a, zero>>, <<Wrong>>}
PathLists == {<<>>} \cup {<<p>> : p \in Paths} \cup (Paths \X Paths)

Target(host, paths) == [host |-> host, path |-> messages, methods |-> {post}, paths |-> paths]
Later == {<<Target(AnyHost, <<<<b>>>>)>>}
AllConfigs == Later \cup {<<Target(h1, ps), Target(AnyHost, <<<<a, 1>>>>)>> : ps \in PathLists}

Request(host, method, body) == [host |-> host, path |-> messages, method |-> method, body |-> body]
AllRequests ==
    {Request(h1, post, t) : t \in Trees \cup {Unreadable, Malformed, Absent}}
        \cup {Request(h2, post, t) : t \in Objects(a, Arrays(Strings))}
        \cup {Request(h1, get, Absent)}

=============================================================================
