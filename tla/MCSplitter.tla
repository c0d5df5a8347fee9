----------------------------- MODULE MCSplitter -----------------------------
(***************************************************************************)
(* Documents for Splitter: collections of up to three items (members with  *)
(* their features, nested collections, references, boundedBy elements,     *)
(* each with or without a declaration of the prefix), documents of one     *)
(* feature, documents cut off anywhere, and malformed ones.                *)
(***************************************************************************)
EXTENDS Splitter

Open(n, d) == <<[kind |-> "start", raw |-> n, decl |-> d]>>
Close(n) == <<[kind |-> "end", raw |-> n, decl |-> 0]>>
Empty(n, d) == <<[kind |-> "empty", raw |-> n, decl |-> d]>>
Comment == <<[kind |-> "other", raw |-> "wrap", decl |-> 0]>>
Elem(n, d, inner) == Open(n, d) \o inner \o Close(n)

\* A feature that is one tag, one with a nested element of its own name, and one
\* with other content.
Feature == {Empty("p:A", 0), Empty("p:A", 2), Elem("p:A", 0, Open("p:A", 2) \o Comment \o Close("p:A")),
            Elem("p:B", 0, Empty("p:B", 0) \o Elem("memb", 1, <<>>))}
Bounds == {Elem("bnd", 0, <<>>), Elem("bnd", 2, Empty("p:A", 0))}
Member == {Elem("memb", 0, f) : f \in Feature} \cup {Elem("memb", 2, f) : f \in {Empty("p:A", 0), Empty("p:B", 0)}}
          \cup {Elem("memb", 0, Empty("p:A", 0) \o Empty("p:B", 0) \o Empty("p:A", 0)),
                Elem("memb", 0, <<>>), Empty("memb", 2)}
Nested == {Elem("memb", d, Elem("coll", 0, b \o Elem("memb", 0, Empty("p:A", 0)))) :
              d \in {0, 2}, b \in Bounds \cup {<<>>}}
Item == Member \cup Bounds \cup Nested \cup {Elem("wrap", 2, Elem("memb", 0, Empty("p:A", 0))), <<>>}

Collections == {Elem("coll", 1, a \o b \o c) : a \in Item, b \in Item \ Nested, c \in Member \cup {<<>>}}
Singles == {Elem("p:A", d, b \o c) : d \in {0, 1}, b \in Bounds \cup {<<>>, Empty("wrap", 1)},
              c \in {<<>>, Comment, Empty("p:B", 1), Empty("memb", 0)}}
           \cup {Empty("p:A", 1), Empty("coll", 1), Empty("wrap", 0), Elem("memb", 1, Empty("p:A", 0))}
Whole == {Elem("coll", 1, a \o b) : a \in Nested, b \in Bounds \cup Member} \cup Singles
Cut == UNION {Prefixes(d) : d \in Whole}
Malformed == {Elem("coll", 0, a) : a \in Member} \cup {d \o Empty("coll", 0) : d \in Singles}
             \cup {Comment \o d \o Comment : d \in Singles}
             \cup {Close("coll"), Open("coll", 1) \o Close("memb")}

MCDocs == Collections \cup Singles \cup Cut \cup Malformed

Named == {[local |-> "p:A", ns |-> 1], [local |-> "p:B", ns |-> 2]}
AnyA == {[local |-> "p:A", ns |-> 0]}
MCAllLayers == {[local |-> "all", ns |-> 0]}
MCOptions == {[target |-> 3, layers |-> MCAllLayers, single |-> TRUE, block |-> 1, faulty |-> FALSE],
              [target |-> 2, layers |-> Named, single |-> TRUE, block |-> 3, faulty |-> TRUE],
              [target |-> 1, layers |-> AnyA, single |-> FALSE, block |-> 1, faulty |-> FALSE]}
=============================================================================
