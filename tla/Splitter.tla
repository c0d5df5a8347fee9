------------------------------ MODULE Splitter ------------------------------
(***************************************************************************)
(* The feature splitter (xeibe-core/src/splitter.rs): it finds the         *)
(* features of a document without parsing them and cuts the stream into    *)
(* chunks of whole features, each with the namespaces and the boundedBy of *)
(* the elements around them.                                               *)
(*                                                                         *)
(* A document is a sequence of tags.  A tag counts as one byte, so a       *)
(* stream offset is an index of the document.  The names "coll" (a known   *)
(* collection), "memb" (an element of a member rule), "bnd" (boundedBy)    *)
(* and "wrap" (none of these) are always resolved; the others have the     *)
(* one prefix that documents bind, and decl is the namespace a tag binds   *)
(* it to (0: no declaration).                                              *)
(***************************************************************************)
EXTENDS Naturals, Sequences, SequencesExt, FiniteSetsExt

CONSTANTS
    Docs,      \* the documents
    Options,   \* SplitterOptions: [target, layers, single], and the reader: [block, faulty]
    AllLayers  \* options.layers = None

VARIABLES
    doc,       \* the input
    options,   \* the options, with the size of a read (READ_BLOCK) and whether one may fail
    s,         \* the splitter
    taken,     \* the chunks the iterator returned
    error      \* the error it returned, or "none"

vars == <<doc, options, s, taken, error>>

Unprefixed == {"coll", "memb", "bnd", "wrap"}
Unbound == [local |-> "unbound", ns |-> 0]

\* FeatureSplitter::new.  base counts the bytes dropped from the buffer, read
\* those read from the input, pos the bytes consumed.
New == [pos |-> 0, base |-> 0, read |-> 0,
        mode |-> [is |-> "Prolog"], stack |-> <<>>,
        bindings |-> <<>>, generation |-> 0, names |-> <<>>, namesGen |-> 0,
        context |-> [ns |-> 0, arc |-> 0], contextGen |-> 0,
        header |-> Unbound, container |-> FALSE, candidate |-> 0, rootFeature |-> FALSE,
        referenced |-> 0, bytes |-> <<>>, offsets |-> <<>>,
        chunk |-> [context |-> [ns |-> 0, arc |-> 0], bounds |-> 0, offset |-> 0, first |-> 0],
        emitted |-> 0, nextSeq |-> 0, ready |-> <<>>, finished |-> FALSE]

Init == /\ doc \in Docs /\ options \in Options
        /\ s = New /\ taken = <<>> /\ error = "none"

-----------------------------------------------------------------------------
(***************************************************************************)
(* Names and namespaces.  A context is compared by its Arc, a boundedBy by *)
(* its Arc too: here, by the generation it was built at and its offset.    *)
(***************************************************************************)
\* FeatureSplitter::resolve, for an element name.
Resolve(bindings, raw) ==
    IF raw \in Unprefixed THEN [local |-> raw, ns |-> 0]
    ELSE IF bindings = <<>> THEN Unbound ELSE [local |-> raw, ns |-> Last(bindings)]

\* FeatureSplitter::resolve_element: r with raw among its names.
ResolveElement(r, raw) ==
    LET known == IF r.namesGen = r.generation THEN r.names ELSE <<>>
        name == IF raw \in DOMAIN known THEN known[raw] ELSE Resolve(r.bindings, raw)
    IN  [r EXCEPT !.namesGen = r.generation,
                  !.names = [x \in DOMAIN known \cup {raw} |-> IF x = raw THEN name ELSE known[x]]]

\* The declarations of a start tag (start_tag).
Declare(r, tag) ==
    IF tag.decl = 0 THEN r
    ELSE [r EXCEPT !.bindings = Append(@, tag.decl), !.generation = @ + 1]

\* bindings.truncate, which changes the generation when there is something to drop.
Truncate(r, before) ==
    IF Len(r.bindings) = before THEN r
    ELSE [r EXCEPT !.bindings = SubSeq(@, 1, before), !.generation = @ + 1]

\* FeatureSplitter::current_context: r with its context brought up to date.
CurrentContext(r) ==
    LET ns == IF r.bindings = <<>> THEN 0 ELSE Last(r.bindings)
    IN  IF r.contextGen = r.generation THEN r
        ELSE [r EXCEPT !.contextGen = r.generation,
                       !.context = IF @.ns = ns THEN @ ELSE [ns |-> ns, arc |-> r.generation]]

\* FeatureSplitter::collection_bounded_by (0: none).
CollectionBoundedBy(r) ==
    LET has == {i \in DOMAIN r.stack : r.stack[i].bounds # 0}
    IN  IF has = {} THEN 0 ELSE r.stack[Max(has)].bounds

\* layer_wanted: an entry without a namespace is met by its local name in any.
LayerWanted(name) ==
    \/ options.layers = AllLayers
    \/ \E layer \in options.layers :
          layer = name \/ (layer.ns = 0 /\ layer.local = name.local)

-----------------------------------------------------------------------------
(***************************************************************************)
(* Chunks.                                                                 *)
(***************************************************************************)
\* FeatureSplitter::flush_chunk.
FlushChunk(r) ==
    IF r.bytes = <<>> THEN r
    ELSE [r EXCEPT !.bytes = <<>>, !.offsets = <<>>, !.nextSeq = @ + 1,
                   !.ready = Append(@, [seq |-> r.nextSeq, offset |-> r.chunk.offset,
                        bytes |-> r.bytes, ns |-> r.chunk.context.ns, first |-> r.chunk.first,
                        features |-> r.emitted - r.chunk.first, offsets |-> r.offsets,
                        bounds |-> r.chunk.bounds])]

\* Keeps filling the chunk when the bounds change.
MutBeginFeature(r0, start) ==
    LET r == CurrentContext(r0)
        flushed == IF r.context # r.chunk.context THEN FlushChunk(r) ELSE r
    IN  IF flushed.bytes # <<>> THEN flushed
        ELSE [flushed EXCEPT !.chunk = [context |-> r.context, bounds |-> CollectionBoundedBy(r),
                                        offset |-> start, first |-> r.emitted]]

\* FeatureSplitter::begin_feature.
BeginFeature(r0, start) ==
    LET r == CurrentContext(r0)
        bounds == CollectionBoundedBy(r)
        moved == r.context # r.chunk.context \/ bounds # r.chunk.bounds
        flushed == IF moved THEN FlushChunk(r) ELSE r
    IN  IF flushed.bytes # <<>> THEN flushed
        ELSE [flushed EXCEPT !.chunk = [context |-> r.context, bounds |-> bounds,
                                        offset |-> start, first |-> r.emitted]]

\* Bytes start..end of the stream, of which only those after base are still there.
Slice(r, start, end) == [i \in 1 .. end - start + 1 |-> IF start + i - 1 > r.base THEN start + i - 1 ELSE 0]

\* Cuts a chunk only after the target is passed.
MutEndFeature(r, emit, start, end) ==
    LET more == [r EXCEPT !.offsets = Append(@, [chunk |-> Len(r.bytes), stream |-> start]),
                          !.bytes = @ \o Slice(r, start, end), !.emitted = @ + 1]
    IN  IF ~emit THEN r
        ELSE IF Len(more.bytes) > options.target THEN FlushChunk(more) ELSE more

\* FeatureSplitter::end_feature.
EndFeature(r, emit, start, end) ==
    LET more == [r EXCEPT !.offsets = Append(@, [chunk |-> Len(r.bytes), stream |-> start]),
                          !.bytes = @ \o Slice(r, start, end), !.emitted = @ + 1]
    IN  IF ~emit THEN r
        ELSE IF Len(more.bytes) >= options.target THEN FlushChunk(more) ELSE more

\* FeatureSplitter::end_root.
EndRoot(r, end) ==
    LET done == [r EXCEPT !.mode = [is |-> "Epilog"], !.candidate = 0, !.rootFeature = r.candidate # 0]
        emit == LayerWanted(r.header)
        begun == IF emit THEN BeginFeature(done, r.candidate) ELSE done
    IN  IF r.candidate = 0 THEN done ELSE EndFeature(begun, emit, r.candidate, end)

\* Forgets the root that may be the feature.
MutCompacted(r) ==
    IF r.mode.is = "Feature" /\ r.mode.emit THEN Min({r.pos, r.mode.start - 1}) ELSE r.pos

\* FeatureSplitter::compact: the bytes dropped before more are read.
Compacted(r) ==
    LET kept == {r.pos} \cup (IF r.mode.is = "Feature" /\ r.mode.emit THEN {r.mode.start - 1} ELSE {})
                        \cup (IF r.candidate # 0 THEN {r.candidate - 1} ELSE {})
    IN  Min(kept)

-----------------------------------------------------------------------------
(***************************************************************************)
(* The steps of FeatureSplitter::step, which next calls while no chunk is  *)
(* ready.                                                                  *)
(***************************************************************************)
Step(modes) == ~s.finished /\ s.ready = <<>> /\ s.mode.is \in modes
At == s.pos + 1
Here == doc[At]
Markup(modes, kinds) == Step(modes) /\ s.pos < s.read /\ Here.kind \in kinds
Outside == {"Prolog", "Outside"}

\* The tag is consumed and the splitter goes on as r.
Becomes(r) == s' = [r EXCEPT !.pos = @ + 1] /\ UNCHANGED <<doc, options, taken, error>>

\* Iterator::next on an error of step.
Fails(r, what) ==
    /\ s' = [r EXCEPT !.finished = TRUE, !.ready = <<>>]
    /\ error' = what
    /\ UNCHANGED <<doc, options, taken>>

\* FeatureSplitter::fill: what is no longer needed is dropped, and a block is read.
Fill ==
    /\ Step({"Prolog", "Outside", "Feature", "Epilog"})
    /\ s.pos = s.read /\ s.read < Len(doc)
    /\ s' = [s EXCEPT !.base = Compacted(s), !.read = Min({@ + options.block, Len(doc)})]
    /\ UNCHANGED <<doc, options, taken, error>>

\* fill, when the reader gives an error.
ReadFails ==
    /\ Step({"Prolog", "Outside", "Feature", "Epilog"}) /\ s.pos = s.read /\ options.faulty
    /\ Fails([s EXCEPT !.base = Compacted(s)], "read")

\* Takes the end of the input for the end of the document.
MutFinish ==
    LET flushed == FlushChunk([s EXCEPT !.finished = TRUE])
    IN  /\ Step({"Prolog", "Outside", "Feature", "Epilog"}) /\ s.pos = Len(doc)
        /\ IF ~s.container /\ ~s.rootFeature THEN Fails(flushed, "no features")
           ELSE s' = flushed /\ UNCHANGED <<doc, options, taken, error>>

\* FeatureSplitter::finish, at the end of the input.
Finish ==
    LET flushed == FlushChunk([s EXCEPT !.finished = TRUE])
    IN  /\ Step({"Prolog", "Outside", "Feature", "Epilog"}) /\ s.pos = Len(doc)
        /\ IF s.mode.is \notin {"Epilog", "Prolog"} THEN Fails(s, "end of input")
           ELSE IF ~s.container /\ ~s.rootFeature THEN Fails(flushed, "no features")
           ELSE s' = flushed /\ UNCHANGED <<doc, options, taken, error>>

\* A start tag outside features, once its declarations are read and its name is
\* resolved; the root's is the header (read_header).
Opened ==
    LET resolved == ResolveElement(Declare(s, Here), Here.raw)
        name == resolved.names[Here.raw]
    IN  IF s.mode.is = "Outside" \/ name = Unbound THEN resolved
        ELSE [resolved EXCEPT !.header = name, !.mode = [is |-> "Outside"]]

Name == Opened.names[Here.raw]
InMember == s.stack # <<>> /\ Last(s.stack).members

\* parent.has_child = true (start_tag).
WithChild(r) == IF r.stack = <<>> THEN r ELSE [r EXCEPT !.stack[Len(r.stack)].hasChild = TRUE]
IsFeature == InMember /\ Name.local # "coll"
IsBounds == ~IsFeature /\ s.mode.is # "Prolog" /\ Name.local = "bnd"

\* enter_feature and the mode of an element that is copied.
Enter(r, emit, bounds) ==
    [r EXCEPT !.mode = [is |-> "Feature", depth |-> 1, emit |-> emit, start |-> At,
                        bounds |-> bounds, raw |-> Here.raw]]

\* start_tag: a prefix that no open element declares.
StartUndeclared ==
    /\ Markup(Outside, {"start", "empty"}) /\ Name = Unbound
    /\ Fails(Opened, "undeclared prefix")

\* start_tag: a feature, whose declarations travel in its bytes.
StartFeature ==
    LET emit == LayerWanted(Name)
        closed == WithChild(Truncate(Opened, Len(s.bindings)))
        begun == IF emit THEN BeginFeature(closed, At) ELSE closed
    IN  /\ Markup(Outside, {"start", "empty"}) /\ Name # Unbound /\ IsFeature
        /\ Becomes(IF Here.kind = "empty" THEN EndFeature(begun, emit, At, At)
                   ELSE Enter(begun, emit, FALSE))

\* start_tag: the boundedBy of the element this one is in.
StartBoundedBy ==
    LET closed == Truncate(Opened, Len(s.bindings))
    IN  /\ Markup(Outside, {"start", "empty"}) /\ Name # Unbound /\ IsBounds
        /\ Becomes(IF Here.kind = "empty" THEN closed ELSE Enter(closed, TRUE, TRUE))

\* start_tag: the root, a collection, a member element or any other element.
StartContainer ==
    LET root == s.mode.is = "Prolog"
        members == Name.local = "memb"
        known == members \/ Name.local = "coll"
        r == WithChild([Opened EXCEPT !.container = @ \/ known,
                           !.candidate = IF known THEN 0
                                         ELSE IF root /\ options.single THEN At ELSE @])
        empty == [Truncate(r, Len(s.bindings)) EXCEPT !.referenced = IF members THEN @ + 1 ELSE @]
    IN  /\ Markup(Outside, {"start", "empty"}) /\ Name # Unbound /\ ~IsFeature /\ ~IsBounds
        /\ Becomes(IF Here.kind = "start"
                   THEN [r EXCEPT !.stack = Append(@, [raw |-> Here.raw, members |-> members,
                            hasChild |-> FALSE, before |-> Len(s.bindings), bounds |-> 0])]
                   ELSE IF root THEN EndRoot(empty, At) ELSE empty)

\* end_outside.
EndOutside ==
    LET frame == Last(s.stack)
        popped == Truncate([s EXCEPT !.stack = Front(@),
                     !.referenced = IF frame.members /\ ~frame.hasChild THEN @ + 1 ELSE @], frame.before)
    IN  /\ Markup(Outside, {"end"})
        /\ IF s.stack = <<>> THEN Fails(s, "end tag")
           ELSE IF frame.raw # Here.raw THEN Fails([s EXCEPT !.stack = Front(@)], "end tag")
           ELSE Becomes(IF popped.stack = <<>> THEN EndRoot(popped, At) ELSE popped)

\* Inside a feature only the tags named like it are looked at (next_feature_markup).
Passes == \/ Markup({"Feature"}, {"other", "empty"})
          \/ Markup({"Feature"}, {"start", "end"}) /\ Here.raw # s.mode.raw
          \/ Markup({"Prolog", "Outside", "Epilog"}, {"other"})
Pass == Passes /\ Becomes(s)

Deeper == /\ Markup({"Feature"}, {"start"}) /\ Here.raw = s.mode.raw
          /\ Becomes([s EXCEPT !.mode.depth = @ + 1])

\* The end of a feature, of a boundedBy (end_bounded_by), or of an element named alike.
EndInside ==
    LET out == [s EXCEPT !.mode = [is |-> "Outside"]]
        bounded == CurrentContext(out)
    IN  /\ Markup({"Feature"}, {"end"}) /\ Here.raw = s.mode.raw
        /\ Becomes(IF s.mode.depth > 1 THEN [s EXCEPT !.mode.depth = @ - 1]
                   ELSE IF ~s.mode.bounds THEN EndFeature(out, s.mode.emit, s.mode.start, At)
                   ELSE IF s.stack = <<>> THEN bounded
                   ELSE [bounded EXCEPT !.stack[Len(s.stack)].bounds = s.mode.start])

\* step, after the root.
AfterRoot == Markup({"Epilog"}, {"start", "empty", "end"}) /\ Fails(s, "content after the root")

\* Iterator::next hands on a chunk.
Give ==
    /\ s.ready # <<>>
    /\ taken' = Append(taken, Head(s.ready)) /\ s' = [s EXCEPT !.ready = Tail(@)]
    /\ UNCHANGED <<doc, options, error>>

Next == \/ Fill \/ ReadFails \/ Finish \/ StartUndeclared \/ StartFeature \/ StartBoundedBy
        \/ StartContainer \/ EndOutside \/ Pass \/ Deeper \/ EndInside \/ AfterRoot \/ Give

Spec == Init /\ [][Next]_vars

-----------------------------------------------------------------------------
(***************************************************************************)
(* What a document says, by its nesting alone.                             *)
(***************************************************************************)
\* The indices of S in the order of the document.
Sorted(S) == SelectSeq([i \in 1 .. Len(doc) |-> i], LAMBDA i : i \in S)

Tag(i) == doc[i].kind \in {"start", "empty"}

\* The open elements before tag i, outermost first.
Around(i) ==
    LET open == {j \in 1 .. i - 1 : /\ doc[j].kind = "start"
                    /\ \A k \in j + 1 .. i - 1 :
                         Cardinality({m \in j .. k : doc[m].kind = "end"})
                           < Cardinality({m \in j .. k : doc[m].kind = "start"})}
    IN  Sorted(open)

End(i) == IF doc[i].kind = "empty" THEN i
          ELSE Min({k \in i + 1 .. Len(doc) + 1 : k > Len(doc) \/ (doc[k].kind = "end" /\ Last(Around(k)) = i)})

\* The outermost of the elements around tag i (and itself) that is a feature or a boundedBy.
Copied(i) ==
    LET up == Append(Around(i), i)
        is(n) == n > 1 /\ \/ doc[up[n - 1]].raw = "memb" /\ doc[up[n]].raw # "coll"
                          \/ doc[up[n]].raw = "bnd"
        hits == {n \in DOMAIN up : is(n)}
    IN  IF hits = {} THEN 0 ELSE up[Min(hits)]

AFeature(i) == Tag(i) /\ Copied(i) = i /\ doc[Last(Around(i))].raw = "memb"
ABounds(i) == Tag(i) /\ Copied(i) = i /\ ~AFeature(i)
AContainer(i) == Tag(i) /\ Copied(i) = 0

NsOf(open) == LET d == SelectSeq(open, LAMBDA j : doc[j].decl # 0)
              IN  IF d = <<>> THEN 0 ELSE doc[Last(d)].decl
NameAt(i) == Resolve(LET n == NsOf(Append(Around(i), i)) IN IF n = 0 THEN <<>> ELSE <<n>>, doc[i].raw)

\* The boundedBy in force at tag i: the last one closed before it in the innermost
\* open element that has one.
BoundsOf(i) ==
    LET of(j) == {k \in 1 .. i - 1 : ABounds(k) /\ doc[k].kind = "start" /\ Last(Around(k)) = j /\ End(k) < i}
        has == {n \in DOMAIN Around(i) : of(Around(i)[n]) # {}}
    IN  IF has = {} THEN 0 ELSE Max(of(Around(i)[Max(has)]))

RootAt == Min({i \in 1 .. Len(doc) : Tag(i)} \cup {Len(doc) + 1})

\* The root is the one feature of the document.
SingleRoot ==
    /\ options.single /\ RootAt <= Len(doc)
    /\ \A i \in RootAt .. Min({End(RootAt), Len(doc)}) :
          AContainer(i) => doc[i].raw \notin {"coll", "memb"}

\* The offsets of the wanted features, in the order of the document.
Wanted == Sorted({i \in 1 .. Len(doc) :
            /\ AFeature(i) \/ (SingleRoot /\ i = RootAt)
            /\ LayerWanted(NameAt(i)) /\ End(i) <= Len(doc)})

\* The document is well formed outside its features, and has features or could have.
Complete ==
    /\ Around(Len(doc) + 1) = <<>>
    /\ Cardinality({i \in 1 .. Len(doc) : doc[i].kind = "start"})
         = Cardinality({i \in 1 .. Len(doc) : doc[i].kind = "end"})
    /\ Cardinality({i \in 1 .. Len(doc) : Tag(i) /\ Around(i) = <<>>}) = 1
    /\ \A i \in 1 .. Len(doc) :
          /\ (doc[i].kind = "end" /\ Around(i) # <<>> => doc[i].raw = doc[Last(Around(i))].raw)
          /\ (Tag(i) /\ Copied(i) \in {0, i} => NameAt(i) # Unbound)
    /\ SingleRoot \/ \E i \in 1 .. Len(doc) : AContainer(i) /\ doc[i].raw \in {"coll", "memb"}

-----------------------------------------------------------------------------
Done == s.finished /\ s.ready = <<>>
Given == taken \o s.ready
Starts(c) == [n \in DOMAIN c.offsets |-> c.offsets[n].stream]

\* Through start_tag, end_feature, flush_chunk and compact, however the input is
\* cut into blocks: the chunks hold the features of the wanted layers, whole, in
\* the document's order and each once, numbered without gaps, at the offsets they
\* say; a document without an error leaves no feature out.
ChunksOfTheDocument ==
    LET found == FlattenSeq([n \in DOMAIN Given |-> Starts(Given[n])])
        range(i) == [k \in 1 .. End(i) - i + 1 |-> i + k - 1]
    IN  Done =>
        /\ IsPrefix(found, Wanted) /\ (error = "none" => found = Wanted)
        /\ \A n \in DOMAIN Given : LET c == Given[n] IN
              /\ c.seq = n - 1 /\ c.features = Len(c.offsets) /\ c.features > 0
              /\ c.offset = c.offsets[1].stream
              /\ c.first = (IF n = 1 THEN 0 ELSE Given[n - 1].first + Given[n - 1].features)
              /\ c.bytes = FlattenSeq([k \in DOMAIN c.offsets |-> range(c.offsets[k].stream)])
              /\ \A k \in DOMAIN c.offsets : c.bytes[c.offsets[k].chunk + 1] = c.offsets[k].stream

\* current_context, begin_feature, end_bounded_by: the namespaces and the boundedBy
\* of a chunk are those in force around each of its features, through declarations
\* that come and go and boundedBy elements between the features.
ContextInForce ==
    Done => \A n \in DOMAIN Given : \A i \in ToSet(Starts(Given[n])) :
        /\ Given[n].ns = NsOf(Around(i))
        /\ Given[n].bounds = BoundsOf(i)

\* end_feature and flush_chunk: a chunk is cut at the first feature boundary at or
\* past the target; before it, only where the next feature cannot share the chunk
\* (a declaration or a boundedBy lies between them) or at the end.
CutAtTheTarget ==
    Done => \A n \in DOMAIN Given : LET c == Given[n] IN
        /\ Last(c.offsets).chunk < options.target
        /\ \/ Len(c.bytes) >= options.target
           \/ n = Len(Given)
           \/ LET a == Last(c.offsets).stream
                  b == Given[n + 1].offset
              IN  \/ NsOf(Around(a)) # NsOf(Around(b)) \/ BoundsOf(a) # BoundsOf(b)
                  \/ \E i \in a + 1 .. b : Tag(i) /\ doc[i].decl # 0

\* finish, end_outside and step: unless reading fails, a document ends without an
\* error exactly when the document is complete and has a container or is a single
\* feature; a document that was cut off never passes for a shorter one.
OutcomeOfTheDocument == Done /\ error # "read" => (error = "none" <=> Complete)

=============================================================================
