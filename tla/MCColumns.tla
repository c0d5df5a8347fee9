----------------------------- MODULE MCColumns ------------------------------
(* Inputs for Columns: features whose properties repeat, nest, are wrapped *)
(* in types, have text here and children there, links and attributes.      *)
EXTENDS Columns

E(name, attrs, text, kids) == [name |-> name, attrs |-> attrs, text |-> text, kids |-> kids]
A(name, value) == <<[name |-> name, value |-> value]>>
V(kind) == [kind |-> kind, tz |-> "absent", fine |-> FALSE]
Vz(kind, tz) == [kind |-> kind, tz |-> tz, fine |-> FALSE]

Leaf(name, kind) == E(name, <<>>, V(kind), <<>>)
Feature(kids) == E("F", A("id", V("word")), NoText, kids)

(* A property may be empty, text of several types, with a constant or a    *)
(* varying attribute, a link, hold children, or be a wrapper of one of two *)
(* types, whose own properties repeat or differ.                           *)
Properties ==
    {E("p", <<>>, NoText, <<>>), Leaf("p", "word"), Leaf("p", "int"),
     E("p", A("uom", V("word")), V("int"), <<>>), E("p", A("uom", V("int")), V("int"), <<>>),
     E("p", A("href", V("word")), NoText, <<>>),
     E("p", <<>>, NoText, <<Leaf("a", "int")>>), E("p", <<>>, NoText, <<Leaf("a", "int"), Leaf("b", "word")>>),
     E("p", <<>>, NoText, <<Leaf("a", "word"), Leaf("a", "int")>>), E("p", <<>>, V("word"), <<Leaf("a", "int")>>),
     E("p", <<>>, NoText, <<E("T", <<>>, NoText, <<Leaf("a", "int")>>)>>),
     E("p", <<>>, NoText, <<E("T", A("id", V("word")), NoText, <<Leaf("b", "int"), Leaf("b", "int")>>)>>),
     E("p", <<>>, NoText, <<E("U", <<>>, NoText, <<Leaf("a", "word")>>)>>),
     E("p", <<>>, NoText, <<E("U", <<>>, NoText, <<E("a", <<>>, NoText, <<E("T", <<>>, V("int"), <<>>)>>)>>)>>)}

Others == {Leaf("q", "word"), E("q", <<>>, NoText, <<Leaf("a", "int")>>)}

Features == {Feature(<<p>>) : p \in Properties}
            \cup {Feature(<<p, r>>) : p \in Properties, r \in Properties \cup Others}

TwoChunks == {<<<<f>>, <<g>>>> : f \in Features, g \in {Feature(<<p>>) : p \in Properties}}

(* Temporal values, whose zones agree, differ or are missing; and layers.  *)
Zoned == {Vz(kind, tz) : kind \in {"date", "datetime"}, tz \in {"absent", "Z", "+2"}}
Values == Zoned \cup {Vz("time", "absent"), Vz("time", "Z"), [kind |-> "datetime", tz |-> "Z", fine |-> TRUE],
                      [kind |-> "time", tz |-> "absent", fine |-> TRUE],
                      V("bool"), V("shout"), V("bit"), V("int"), V("code"), V("decimal"), V("word")}

Valued(v) == Feature(<<E("p", <<>>, v, <<>>)>>)
ManyValues == {<<<<Valued(u)>>, <<Valued(v)>>, <<Valued(w)>>>> : u, v, w \in Zoned}
              \cup {<<<<Valued(u)>>, <<Valued(v)>>>> : u, v \in Values}

Small == {Feature(<<Leaf("a", "int")>>), Feature(<<Leaf("b", "int"), Leaf("a", "int")>>),
          Feature(<<Leaf("a", "int"), Leaf("b", "word")>>), Feature(<<Leaf("p", "int")>>),
          E("G", <<>>, V("word"), <<Leaf("a", "int")>>)}
ThreeChunks == {<<<<f>>, <<g>>, <<h>>>> : f, g, h \in Small}
TwoInAChunk == {<<<<f, g>>, <<h>>>> : f, g, h \in Small}

PassDocs == TwoChunks \cup ManyValues \cup ThreeChunks \cup TwoInAChunk

(* The order in which three chunks introduce their properties. *)
OrderDocs == ThreeChunks
=============================================================================
