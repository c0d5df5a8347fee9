------------------------------ MODULE Columns -------------------------------
(***************************************************************************)
(* From a scan to the rows of a read: workers scan chunks into partial     *)
(* observations that are merged (Scanner::run), the rule engine makes a    *)
(* layer's columns of them (xeibe-schema/src/rules.rs), and the read       *)
(* follows the columns' paths through every feature (xeibe-arrow/src/      *)
(* route.rs and feature.rs).                                               *)
(*                                                                         *)
(* The options are the defaults: lists are inferred, type wrappers are     *)
(* collapsed, mixed content is kept as raw XML, constant attributes move   *)
(* to metadata, nothing is overridden, and the scan is a full one.  A      *)
(* column is its path, its attribute, its anchor (0: not a list), its      *)
(* type and the constants in its metadata; its name is left out.           *)
(***************************************************************************)
EXTENDS PathTree

CONSTANTS
    Workers,   \* the number of scan threads
    Docs       \* the inputs: sequences of chunks, each a sequence of features

VARIABLES
    doc,       \* the input
    next,      \* chunks taken so far
    partial,   \* Partial::observation of each worker
    layer,     \* the layer that is read
    cols,      \* its schema, or NotInferred
    rows       \* what the read made of the layer's features

vars == <<doc, next, partial, layer, cols, rows>>

NotInferred == <<[path |-> <<"not inferred">>]>>

-----------------------------------------------------------------------------
(***************************************************************************)
(* The rule engine.                                                        *)
(***************************************************************************)
\* ElementNode::shape; a geometry is not among the elements of the model.
Shape(node) ==
    CASE node.mixed -> "Mixed"
      [] ~node.mixed /\ (node.kidOrder # <<>> \/ node.truncated) -> "ElementsOnly"
      [] ~node.mixed /\ node.kidOrder = <<>> /\ ~node.truncated ->
            IF node.text.count > 0 THEN "Text"
            ELSE IF node.byReference > 0 THEN "ByReferenceOnly" ELSE "Empty"

\* ElementNode::is_type_wrapper.
IsTypeWrapper(node) ==
    /\ node.kidOrder # <<>> /\ ~node.truncated /\ ~node.mixed /\ node.text.count = 0
    /\ DOMAIN node.attrs \subseteq {"href"}
    /\ node.singleChild = node.instances - (node.empty + node.byReference)
    /\ \A n \in DOMAIN node.kids :
          /\ UpperCamel(n) /\ node.kids[n].maxOccurs = 1
          /\ DOMAIN node.kids[n].attrs \subseteq {"id"}

\* Engine::scalar: the first type of the set that the time zones and decimals allow.
ScalarType(stats) ==
    LET lossy == Lossless = "lossy"
        tz == IF stats.tz = "unseen" THEN "absent" ELSE stats.tz
        fits == lossy \/ ~stats.fine
        oneZone == lossy \/ tz \notin {"mixed", "inconsistent"}
        chosen == <<<<"BOOL", TRUE, "Boolean">>, <<"INT", TRUE, "Int64">>, <<"FLOAT", TRUE, "Float64">>,
                    <<"DATE", oneZone, "Date32">>,
                    <<"DATETIME", fits /\ tz # "inconsistent",
                      IF tz = "absent" THEN "Timestamp" ELSE "TimestampUTC">>,
                    <<"TIME", fits /\ oneZone, "Time64">>>>
        possible == SelectSeq(chosen, LAMBDA c : c[1] \in stats.types /\ c[2])
    IN  IF stats.count = 0 \/ possible = <<>> THEN "Utf8View" ELSE possible[1][3]

Col(path, attr, anchor, type, constants) ==
    [path |-> path, attr |-> attr, anchor |-> anchor, type |-> type, constants |-> constants]

\* Engine::attributes: an attribute with one value in every instance is a constant.
IsConstant(node, name) ==
    /\ name \notin {"id", "href"}
    /\ node.attrs[name].count = node.instances
    /\ ~node.attrs[name].overflowed /\ Cardinality(node.attrs[name].distinct) = 1

AttributeCols(node, path, anchor, names) ==
    [i \in DOMAIN names |-> Col(path, names[i], anchor, ScalarType(node.attrs[names[i]]), {})]

\* Engine::own_content, without the children: the element's own column, if it has
\* one, and those of its attributes.
OwnCols(node, path, anchor) ==
    LET constant == SelectSeq(node.attrOrder, LAMBDA n : IsConstant(node, n))
        varying == SelectSeq(node.attrOrder, LAMBDA n : ~IsConstant(node, n))
        own == \/ Shape(node) \in {"Text", "Mixed"}
               \/ Shape(node) = "Empty" /\ varying = <<>>
        type == IF Shape(node) = "Text" THEN ScalarType(node.text) ELSE "Utf8View"
        constants == {<<n, v>> \in ToSet(constant) \X UNION {node.attrs[n].distinct : n \in ToSet(constant)} :
                          v \in node.attrs[n].distinct}
    IN  IF own
        THEN <<Col(path, "none", anchor, type, constants)>> \o AttributeCols(node, path, anchor, varying)
        ELSE AttributeCols(node, path, anchor, varying) \o AttributeCols(node, path, anchor, constant)

\* Engine::element, content, wrapper, own_content and children.
RECURSIVE ElementCols(_, _, _)
ChildCols(node, path, anchor) ==
    FlattenSeq([i \in DOMAIN node.kidOrder |->
        ElementCols(node.kids[node.kidOrder[i]], Append(path, node.kidOrder[i]), anchor)])

MutWrapped(node) == node.kids[Head(node.kidOrder)]

\* The wrapper types of a property, merged in the order of its children.
Wrapped(node) ==
    FoldLeft(LAMBDA merged, n : MergeNode(merged, node.kids[n]),
             node.kids[Head(node.kidOrder)], Tail(node.kidOrder))

ElementCols(node, path, outer) ==
    LET anchor == IF node.maxOccurs > 1 THEN Len(path) ELSE outer
        type == Wrapped(node)
        inner == Append(path, "*")
        Content(n, p) == OwnCols(n, p, anchor) \o ChildCols(n, p, anchor)
    IN  IF node.truncated THEN <<Col(path, "none", anchor, "Map", {})>>
        ELSE IF IsTypeWrapper(node)
        THEN AttributeCols(node, path, anchor, node.attrOrder) \o Content(type, inner)
        ELSE Content(node, path)

\* infer_schema.
InferSchema(root) ==
    AttributeCols(root, <<>>, 0, root.attrOrder) \o ChildCols(root, <<>>, 0)

-----------------------------------------------------------------------------
(***************************************************************************)
(* The read.  A node of the route tree is the prefix of a path.  A column  *)
(* of the row is the sequence of its values: one at most if it is not a    *)
(* list; an empty sequence is null.                                        *)
(***************************************************************************)
\* parse_scalar succeeds.
Parses(type, v) ==
    CASE type = "Utf8View"     -> TRUE
      [] type = "Boolean"      -> v.kind \in {"bool", "bit"}
      [] type = "Int64"        -> v.kind \in {"bit", "int", "code"}
      [] type = "Float64"      -> v.kind \in {"bit", "int", "code", "decimal"}
      [] type = "Date32"       -> v.kind = "date"
      [] type = "Timestamp"    -> v.kind = "datetime" /\ v.tz = "absent" /\ ~v.fine
      [] type = "TimestampUTC" -> v.kind = "datetime" /\ v.tz # "absent" /\ ~v.fine
      [] type = "Time64"       -> v.kind = "time" /\ ~v.fine

\* RouteTree::new: every step of every path, and the nodes lists are anchored on.
Routes(columns) == UNION {Prefixes(columns[i].path) : i \in DOMAIN columns}
Anchor(c) == SubSeq(c.path, 1, c.anchor)
Anchors(columns) == {Anchor(columns[i]) : i \in {j \in DOMAIN columns : columns[j].anchor > 0}}

\* RouteNode::matching_children of the nodes an element matched.
Matching(columns, nodes, name) ==
    {Append(q, step) : q \in nodes, step \in {name, "*"}} \cap Routes(columns)

\* FeatureReader::put.
Put(c, i, value, state) ==
    LET slot == state.row[i]
        count == IF c.anchor = 0 THEN 1 ELSE Most(state.counts[Anchor(c)], 1)
        padding == [j \in 1..(count - 1 - Len(slot)) |-> NoText]
    IN  IF Len(slot) >= count THEN [state EXCEPT !.failed = TRUE]
        ELSE [state EXCEPT !.row[i] = slot \o Append(padding, value)]

\* FeatureReader::put_text, for each column of `targets'.
PutText(columns, targets, value(_), state) ==
    FoldLeft(LAMBDA st, i :
                IF i \notin targets \/ value(columns[i]) = NoText THEN st
                ELSE IF Parses(columns[i].type, value(columns[i]))
                     THEN Put(columns[i], i, value(columns[i]), st)
                     ELSE [st EXCEPT !.failed = TRUE],
             state, [i \in DOMAIN columns |-> i])

MutStartTag(columns, nodes, e, state) ==
    LET put == FoldLeft(LAMBDA st, a :
            PutText(columns, {i \in DOMAIN columns : columns[i].path \in nodes /\ columns[i].attr = a.name},
                    LAMBDA c : a.value, st),
            state, e.attrs)
    IN  [put EXCEPT !.counts = [a \in DOMAIN @ |-> IF a \in nodes THEN @[a] + 1 ELSE @[a]]]

\* FeatureReader::start: the anchors are counted before the attributes are put.
StartTag(columns, nodes, e, state) ==
    LET counted == [state EXCEPT !.counts =
            [a \in DOMAIN @ |-> IF a \in nodes THEN @[a] + 1 ELSE @[a]]]
    IN  FoldLeft(LAMBDA st, a :
            PutText(columns, {i \in DOMAIN columns : columns[i].path \in nodes /\ columns[i].attr = a.name},
                    LAMBDA c : a.value, st),
            counted, e.attrs)

\* subtree_map gives something: a text, or an attribute below the element.
RECURSIVE HasPairs(_)
HasPairs(e) == e.text # NoText \/ \E i \in DOMAIN e.kids : e.kids[i].attrs # <<>> \/ HasPairs(e.kids[i])

\* FeatureReader::text: a text column takes an element with children as raw XML.
TextOf(e, c) ==
    IF e.kids # <<>> /\ c.type = "Utf8View" THEN [kind |-> "raw", of |-> e] ELSE e.text

\* FeatureReader::content.
RECURSIVE ReadContent(_, _, _, _)
ReadContent(columns, nodes, e, state) ==
    LET targets == {i \in DOMAIN columns : columns[i].path \in nodes /\ columns[i].attr = "none"}
        maps == {i \in targets : columns[i].type = "Map"}
        below == \E r \in Routes(columns) : r # <<>> /\ Front(r) \in nodes
        Child(st, kid) ==
            LET matched == Matching(columns, nodes, kid.name)
            IN  IF matched = {} THEN st
                ELSE ReadContent(columns, matched, kid, StartTag(columns, matched, kid, st))
    IN  IF maps # {}
        THEN LET i == CHOOSE i \in maps : \A j \in maps : i <= j
             IN  IF HasPairs(e) THEN Put(columns[i], i, [kind |-> "map", of |-> e], state) ELSE state
        ELSE IF targets = {} /\ ~below THEN state
        ELSE PutText(columns, targets, LAMBDA c : TextOf(e, c), FoldLeft(Child, state, e.kids))

\* FeatureReader::read_feature and commit: each list is padded to its anchor's count.
ReadFeature(columns, f) ==
    LET start == [row |-> [i \in DOMAIN columns |-> <<>>], counts |-> [a \in Anchors(columns) |-> 0],
                  failed |-> FALSE]
        read == ReadContent(columns, {<<>>}, f, StartTag(columns, {<<>>}, f, start))
        Padded(i) == LET c == columns[i]
                         missing == IF c.anchor = 0 THEN 0 ELSE read.counts[Anchor(c)] - Len(read.row[i])
                     IN  read.row[i] \o [j \in 1..missing |-> NoText]
    IN  [failed |-> read.failed, row |-> [i \in DOMAIN columns |-> Padded(i)]]

-----------------------------------------------------------------------------
(***************************************************************************)
(* The scan and the read.                                                  *)
(***************************************************************************)
\* Features lie far enough apart that no two elements share an offset.
OffsetOf(c, j) == 1000 * c + 50 * j

ScanChunk(c) ==
    FoldLeftDomain(LAMBDA obs, j : ScanFeature(obs, doc[c][j], OffsetOf(c, j)), NoObservation, doc[c])

Init ==
    /\ doc \in Docs
    /\ next = 0
    /\ partial = [w \in 1..Workers |-> NoObservation]
    /\ layer = "none" /\ cols = NotInferred /\ rows = <<>>

\* A worker takes the next chunk and merges it into its partial (scan_item).
ScanItem(w) ==
    /\ next < Len(doc)
    /\ next' = next + 1
    /\ partial' = [partial EXCEPT ![w] = MergeObservation(@, ScanChunk(next + 1))]
    /\ UNCHANGED <<doc, layer, cols, rows>>

\* Scanner::run merges the partials in the order of the workers.
Total == FoldLeft(MergeObservation, NoObservation, partial)

Infer(l) ==
    /\ next = Len(doc) /\ layer = "none" /\ l \in DOMAIN Total.layers
    /\ layer' = l
    /\ cols' = InferSchema(Total.layers[l])
    /\ UNCHANGED <<doc, next, partial, rows>>

FeaturesOf(l) == SelectSeq(FlattenSeq(doc), LAMBDA f : f.name = l)

Read ==
    /\ layer # "none" /\ Len(rows) < Len(FeaturesOf(layer))
    /\ rows' = Append(rows, ReadFeature(cols, FeaturesOf(layer)[Len(rows) + 1]))
    /\ UNCHANGED <<doc, next, partial, layer, cols>>

Next ==
    \/ \E w \in 1..Workers : ScanItem(w)
    \/ \E l \in {f.name : f \in ToSet(FlattenSeq(doc))} : Infer(l)
    \/ Read

Spec == Init /\ [][Next]_vars

-----------------------------------------------------------------------------
(***************************************************************************)
(* Properties                                                              *)
(***************************************************************************)
Inferred == layer # "none"

\* The observation of a scan with one thread: every chunk in the order of the input.
OneThread == FoldLeftDomain(LAMBDA obs, c : MergeObservation(obs, ScanChunk(c)), NoObservation, doc)

\* The columns, their types, anchors and constants do not depend on which worker
\* scanned which chunk, nor on the order in which the partial observations are merged.
SchemaOfTheData ==
    Inferred => ToSet(cols) = ToSet(InferSchema(OneThread.layers[layer]))

\* Nor does the order of the columns (node.rs and observation.rs say: "in order of first
\* appearance, whatever the merge order").
ColumnsInOrder == Inferred => cols = InferSchema(OneThread.layers[layer])

\* The elements below e that a path leads to, in the order of the document.
RECURSIVE Occurrences(_, _)
Occurrences(e, path) ==
    IF path = <<>> THEN <<e>>
    ELSE FlattenSeq([i \in DOMAIN e.kids |->
             IF Head(path) \in {e.kids[i].name, "*"} THEN Occurrences(e.kids[i], Tail(path)) ELSE <<>>])

\* What a column takes from an element its path leads to.
Taken(c, e) ==
    IF c.attr # "none"
    THEN LET a == {i \in DOMAIN e.attrs : e.attrs[i].name = c.attr}
         IN  IF a = {} THEN NoText ELSE e.attrs[CHOOSE i \in a : TRUE].value
    ELSE IF c.type = "Map" THEN IF HasPairs(e) THEN [kind |-> "map", of |-> e] ELSE NoText
    ELSE TextOf(e, c)

\* What a feature's row should hold: the value at the path, or for a list one entry per
\* occurrence of the anchor, null where the occurrence lacks the value.
Expected(c, f) ==
    LET value(e) == LET values == SelectSeq([i \in DOMAIN Occurrences(e, SubSeq(c.path, c.anchor + 1, Len(c.path))) |->
                                                Taken(c, Occurrences(e, SubSeq(c.path, c.anchor + 1, Len(c.path)))[i])],
                                            LAMBDA v : v # NoText)
                    IN  IF values = <<>> THEN NoText ELSE Head(values)
        anchors == Occurrences(f, Anchor(c))
    IN  IF c.anchor = 0 /\ value(f) = NoText THEN <<>> ELSE [i \in DOMAIN anchors |-> value(anchors[i])]

\* A schema inferred from a scan fits what was scanned: no feature fails, and entry i of
\* every list column comes from the i-th occurrence of its anchor, so that the lists of
\* one anchor can be zipped into records.
RowsFitTheSchema ==
    \A k \in DOMAIN rows :
        /\ ~rows[k].failed
        /\ \A i \in DOMAIN cols : rows[k].row[i] = Expected(cols[i], FeaturesOf(layer)[k])

\* The texts and attributes of a feature, each with the names that lead to it.
RECURSIVE Leaves(_, _)
Leaves(e, path) ==
    {[path |-> path, attr |-> e.attrs[i].name, value |-> e.attrs[i].value] : i \in DOMAIN e.attrs}
    \cup (IF e.text = NoText THEN {} ELSE {[path |-> path, attr |-> "none", value |-> e.text]})
    \cup UNION {Leaves(e.kids[i], Append(path, e.kids[i].name)) : i \in DOMAIN e.kids}

LeadsTo(path, names) ==
    Len(path) = Len(names) /\ \A i \in DOMAIN path : path[i] \in {names[i], "*"}

\* A text or attribute has a column, is a constant of one, or lies in the subtree of a
\* map column.
HasColumn(leaf) ==
    \E i \in DOMAIN cols : LET c == cols[i] IN
        \/ LeadsTo(c.path, leaf.path) /\ (c.attr = leaf.attr \/ <<leaf.attr, leaf.value>> \in c.constants)
        \/ c.type = "Map" /\ Len(c.path) <= Len(leaf.path)
           /\ LeadsTo(c.path, SubSeq(leaf.path, 1, Len(c.path)))

\* The two texts the rules leave out: a feature's own (infer_schema has columns for its
\* attributes and children), and that of an element that elsewhere has children, if no
\* instance has both (its shape is ElementsOnly; with both it would be Mixed).
TextLeftOut(leaf) ==
    /\ leaf.attr = "none"
    /\ \/ leaf.path = <<>>
       \/ \E i \in DOMAIN cols :
             /\ Len(cols[i].path) > Len(leaf.path)
             /\ LET at == SubSeq(cols[i].path, 1, Len(leaf.path))
                IN  /\ LeadsTo(at, leaf.path)
                    /\ \A f \in ToSet(FeaturesOf(layer)) : \A e \in ToSet(Occurrences(f, at)) :
                          e.text = NoText \/ e.kids = <<>>

\* "A schema from a scan describes everything the scan saw" (docs/architecture.md), as far as
\* the rules do it (Engine::own_content, wrapper and children): besides the two texts they
\* leave out, against that line, no text and no attribute is without a column, whichever
\* instances repeat, are wrapped in types, are links or mix text and children.
LeavesDescribed ==
    Inferred => \A f \in ToSet(FeaturesOf(layer)) : \A leaf \in Leaves(f, <<>>) :
        HasColumn(leaf) \/ TextLeftOut(leaf)

=============================================================================
