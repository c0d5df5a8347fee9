------------------------------ MODULE PathTree ------------------------------
(***************************************************************************)
(* What a scan records of features, and how its records are merged:        *)
(* TreeBuilder and WalkState (xeibe-schema/src/scan.rs), ElementNode       *)
(* (node.rs), DatasetObservation (observation.rs) and ValueStats           *)
(* (value.rs).                                                             *)
(*                                                                         *)
(* An element is a record of its name, its attributes (in the order they   *)
(* are written), its text and its child elements.  A value is abstracted   *)
(* to what the type rules tell apart: its lexical kind, its time zone and  *)
(* whether it has more decimals of a second than the columns' unit holds.  *)
(* Names have no namespaces, and features have no geometries, no nil       *)
(* values and no link attributes other than xlink:href.  Byte offsets are  *)
(* counted in elements.                                                    *)
(***************************************************************************)
EXTENDS Integers, Sequences, FiniteSets, SequencesExt

CONSTANTS
    Lossless,        \* TypeOptions::lossless: "text", "value" or "lossy"
    MaxDepth,        \* Limits::max_depth
    MaxChildren,     \* Limits::max_children
    DistinctValues   \* Limits::distinct_values

ASSUME LimitsAssumption ==
    /\ Lossless \in {"text", "value", "lossy"}
    /\ MaxDepth \in Nat /\ MaxChildren \in Nat /\ DistinctValues \in Nat

NoText == [kind |-> "none"]

\* UpperCamel names are those of objects and types (NameShape::of).
UpperCamel(name) == name \in {"T", "U"}

Nowhere == 1000000        \* Option<Location>::None, after every location

-----------------------------------------------------------------------------
(***************************************************************************)
(* Values.  Literals of each kind: word "x", bool "true", shout "TRUE",    *)
(* bit "1", int "12", code "0012", decimal "1.5", date, datetime, time.    *)
(***************************************************************************)
\* analyze: the types a value can be parsed as, at one level of loss.
ClassifyAt(level, v) ==
    LET lossy(types) == IF level = "lossy" THEN types ELSE {}
        fits == level = "lossy" \/ ~v.fine
        bare == level # "text" \/ v.tz = "absent"
    IN  {"STRING"} \cup
        CASE v.kind = "bool"     -> {"BOOL"}
          [] v.kind = "shout"    -> lossy({"BOOL"})
          [] v.kind = "bit"      -> {"INT", "FLOAT"} \cup lossy({"BOOL"})
          [] v.kind = "int"      -> {"INT", "FLOAT"}
          [] v.kind = "code"     -> lossy({"INT", "FLOAT"})
          [] v.kind = "decimal"  -> {"FLOAT"}
          [] v.kind = "date"     -> (IF bare THEN {"DATE"} ELSE {}) \cup lossy({"DATETIME"})
          [] v.kind = "datetime" -> IF fits THEN {"DATETIME"} ELSE {}
          [] v.kind = "time"     -> IF fits /\ bare THEN {"TIME"} ELSE {}
          [] OTHER               -> {}

AllTypes == {"BOOL", "INT", "FLOAT", "DATE", "DATETIME", "TIME", "STRING"}

NoStats == [count |-> 0, types |-> AllTypes, lossy |-> AllTypes, tz |-> "unseen",
            fine |-> FALSE, distinct |-> {}, overflowed |-> FALSE]

MutMergeTz(a, b) == IF a = "unseen" THEN b ELSE a

\* TzShape::merge; "unseen" is no temporal shape at all.
MergeTz(a, b) ==
    CASE a = "unseen" -> b
      [] b = "unseen" -> a
      [] a = b -> a
      [] {"absent", "inconsistent"} \cap {a, b} # {} -> "inconsistent"
      [] OTHER -> "mixed"

\* BoundedSet::insert and merge: up to DistinctValues values, none once there were more.
Bounded(a, b, values) ==
    IF a.overflowed \/ b.overflowed \/ Cardinality(values) > DistinctValues
    THEN [distinct |-> {}, overflowed |-> TRUE]
    ELSE [distinct |-> values, overflowed |-> FALSE]

MergeStats(a, b) ==
    [count |-> a.count + b.count, types |-> a.types \cap b.types, lossy |-> a.lossy \cap b.lossy,
     tz |-> MergeTz(a.tz, b.tz), fine |-> a.fine \/ b.fine]
    @@ Bounded(a, b, a.distinct \cup b.distinct)

\* ValueStats::observe: a value is not analysed once only STRING remains.
Observe(stats, v) ==
    LET counted == [count |-> stats.count + 1] @@ Bounded(stats, stats, stats.distinct \cup {v})
        temporal == v.kind \in {"date", "datetime", "time"}
    IN  IF stats.types \cup stats.lossy = {"STRING"} THEN counted @@ stats
        ELSE counted @@
             [types |-> stats.types \cap ClassifyAt(Lossless, v),
              lossy |-> stats.lossy \cap ClassifyAt("lossy", v),
              tz |-> IF temporal THEN MergeTz(stats.tz, v.tz) ELSE stats.tz,
              fine |-> stats.fine \/ (temporal /\ v.fine)]

-----------------------------------------------------------------------------
(***************************************************************************)
(* The path tree.  An IndexMap is a function and the order of its keys.    *)
(***************************************************************************)
NewNode(at) ==
    [instances |-> 0, parentsWith |-> 0, maxOccurs |-> 0, firstMulti |-> Nowhere,
     text |-> NoStats, mixed |-> FALSE, singleChild |-> 0, empty |-> 0, byReference |-> 0,
     attrs |-> <<>>, attrOrder |-> <<>>, kids |-> <<>>, kidOrder |-> <<>>,
     firstSeen |-> at, truncated |-> FALSE]

Has(map, key) == key \in DOMAIN map
With(map, key, value) == [k \in DOMAIN map \cup {key} |-> IF k = key THEN value ELSE map[k]]

\* WalkState::attribute.
Attribute(node, a) ==
    IF Has(node.attrs, a.name)
    THEN [node EXCEPT !.attrs[a.name] = Observe(@, a.value)]
    ELSE IF Cardinality(DOMAIN node.attrs) < MaxChildren
    THEN [node EXCEPT !.attrs = With(@, a.name, Observe(NoStats, a.value)),
                      !.attrOrder = Append(@, a.name)]
    ELSE [node EXCEPT !.truncated = TRUE]

RECURSIVE Size(_)
Size(e) == 1 + FoldLeft(LAMBDA sum, kid : sum + Size(kid), 0, e.kids)

\* The offset of the i-th child of an element at offset `at'.
KidAt(e, at, i) == at + 1 + FoldLeft(LAMBDA sum, kid : sum + Size(kid), 0, SubSeq(e.kids, 1, i - 1))

\* The end of WalkState::content: the child counters of this instance are folded
\* into the children, and its content into the node.
Close(node, e, at) ==
    LET count(n) == Cardinality({i \in DOMAIN e.kids : e.kids[i].name = n})
        counted == {n \in DOMAIN node.kids : count(n) > 0}
        second(n) == CHOOSE i \in DOMAIN e.kids :
            e.kids[i].name = n /\ Cardinality({j \in 1..i : e.kids[j].name = n}) = 2
        hasText == e.text # NoText
        hasKids == e.kids # <<>>
        href == \E i \in DOMAIN e.attrs : e.attrs[i].name = "href"
    IN  [node EXCEPT
            !.kids = [n \in DOMAIN @ |->
                IF n \notin counted THEN @[n] ELSE
                [@[n] EXCEPT !.parentsWith = @ + 1,
                             !.maxOccurs = IF count(n) > @ THEN count(n) ELSE @,
                             !.firstMulti = IF count(n) > 1 /\ @ = Nowhere
                                            THEN KidAt(e, at, second(n)) ELSE @]],
            !.singleChild = IF ~hasText /\ Cardinality(counted) = 1
                               /\ \A n \in counted : count(n) = 1 THEN @ + 1 ELSE @,
            !.mixed = @ \/ (hasText /\ hasKids),
            !.text = IF hasText /\ ~hasKids THEN Observe(@, e.text) ELSE @,
            !.byReference = IF href /\ ~hasText /\ ~hasKids THEN @ + 1 ELSE @,
            !.empty = IF ~href /\ ~hasText /\ ~hasKids THEN @ + 1 ELSE @]

\* WalkState::start and content for one instance e, at offset `at', of node.
RECURSIVE Walk(_, _, _, _)
Walk(node, e, depth, at) ==
    LET Enter(n, i) ==
            LET kid == e.kids[i]
                known == Has(n.kids, kid.name)
                child == IF known THEN n.kids[kid.name] ELSE NewNode(KidAt(e, at, i))
            IN  IF depth >= MaxDepth \/ (~known /\ Len(n.kidOrder) >= MaxChildren)
                THEN [n EXCEPT !.truncated = TRUE]
                ELSE [n EXCEPT !.kids = With(@, kid.name, Walk(child, kid, depth + 1, KidAt(e, at, i))),
                               !.kidOrder = IF known THEN @ ELSE Append(@, kid.name)]
        started == FoldLeft(Attribute, [node EXCEPT !.instances = @ + 1], e.attrs)
    IN  Close(FoldLeftDomain(Enter, started, e.kids), e, at)

-----------------------------------------------------------------------------
(***************************************************************************)
(* Observations: the layers of a dataset, and merging.                     *)
(***************************************************************************)
NoObservation == [layers |-> <<>>, order |-> <<>>]

\* TreeBuilder::scan: one feature, at offset `at', into the observation of its chunk.
ScanFeature(obs, f, at) ==
    LET root == IF Has(obs.layers, f.name) THEN obs.layers[f.name] ELSE NewNode(at)
        walked == Walk([root EXCEPT !.parentsWith = @ + 1], f, 0, at)
    IN  [layers |-> With(obs.layers, f.name, walked),
         order |-> IF Has(obs.layers, f.name) THEN obs.order ELSE Append(obs.order, f.name)]

\* The order of first appearance.
InOrder(nodes) == SetToSortSeq(DOMAIN nodes, LAMBDA x, y : nodes[x].firstSeen < nodes[y].firstSeen)

\* The keys of a, then those that only b has.
Joined(a, b) == a \o SelectSeq(b, LAMBDA name : ~Contains(a, name))

Least(x, y) == IF x < y THEN x ELSE y
Most(x, y) == IF x > y THEN x ELSE y

MergedMap(Merge(_, _), a, b) ==
    [k \in DOMAIN a \cup DOMAIN b |->
        IF ~Has(b, k) THEN a[k] ELSE IF ~Has(a, k) THEN b[k] ELSE Merge(a[k], b[k])]

\* ElementNode::merge.  The children are put in order only if one is new, or if b
\* was seen first.
RECURSIVE MergeNode(_, _)
MergeNode(a, b) ==
    LET kids == MergedMap(MergeNode, a.kids, b.kids)
        reorder == ~(DOMAIN b.kids \subseteq DOMAIN a.kids)
    IN  [instances |-> a.instances + b.instances, parentsWith |-> a.parentsWith + b.parentsWith,
         maxOccurs |-> Most(a.maxOccurs, b.maxOccurs), firstMulti |-> Least(a.firstMulti, b.firstMulti),
         text |-> MergeStats(a.text, b.text), mixed |-> a.mixed \/ b.mixed,
         singleChild |-> a.singleChild + b.singleChild, empty |-> a.empty + b.empty,
         byReference |-> a.byReference + b.byReference,
         attrs |-> MergedMap(MergeStats, a.attrs, b.attrs),
         attrOrder |-> Joined(a.attrOrder, b.attrOrder),
         kids |-> kids,
         kidOrder |-> IF reorder \/ b.firstSeen < a.firstSeen THEN InOrder(kids) ELSE a.kidOrder,
         firstSeen |-> Least(a.firstSeen, b.firstSeen), truncated |-> a.truncated \/ b.truncated]

\* DatasetObservation::merge.  The layers are put in order only if one is new.
MergeObservation(a, b) ==
    LET layers == MergedMap(MergeNode, a.layers, b.layers)
    IN  [layers |-> layers,
         order |-> IF DOMAIN b.layers \subseteq DOMAIN a.layers THEN a.order ELSE InOrder(layers)]
=============================================================================
