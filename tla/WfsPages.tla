------------------------------ MODULE WfsPages ------------------------------
(***************************************************************************)
(* The pages of a WFS feature type: `WfsClient::pages`, `Pager` and        *)
(* `read_ahead` of crates/xeibe-wfs/src/pages.rs, with the strategies of   *)
(* paging.rs.                                                              *)
(*                                                                         *)
(* One iteration of the loop of Pager::next_page (a request, its answer    *)
(* and what the pager makes of it) is one step: only the server's data,    *)
(* which the answer shows as it is then, changes beside it.  A feature is  *)
(* its gml:id.  A count of Unknown is one nobody gave.                     *)
(***************************************************************************)
EXTENDS Integers, Sequences, SequencesExt

CONSTANTS
    Servers,        \* the servers there may be, a set of ServerType
    Options,        \* the WfsOptions there may be, a set of OptionsType
    MatchedFirst,   \* features that match when the read begins
    DEFAULT_PAGE_SIZE

Unknown == -1
Count == Nat \cup {Unknown}

\* A server: whether it speaks WFS 2.0, implements result paging, gives `next` links, knows
\* numberMatched, pages transaction-safe; its CountDefault, and a limit it does not tell;
\* and, a bound, how many features its data gains in front during the read.
ServerType == [is_2: BOOLEAN, paging: BOOLEAN, links: BOOLEAN, matched: BOOLEAN, safe: BOOLEAN,
               count_default: Count, limit: Count, changes: Nat]
OptionsType == [strategy: {"None", "NextLink", "StartIndex", "VendorStartIndex", "SpatialTiling",
                           "Single"},
                page_size: Count, max_retries: Nat, concurrency: Nat, dedupe: BOOLEAN]

ASSUME WfsAssumption ==
    /\ Servers \subseteq ServerType
    /\ Options \subseteq OptionsType
    /\ MatchedFirst \in Nat
    /\ DEFAULT_PAGE_SIZE \in Nat \ {0}

VARIABLES
    server, options,
    result,     \* the features that match now, in the server's order
    snapshot,   \* the features that matched at the first answer
    pager,      \* the fields of Pager
    thread,     \* where the loop over the pager is
    held,       \* the item it has and nobody took
    channel,    \* the items of the sync_channel
    reader,     \* where the read is
    got,        \* the items the read took
    log         \* the calls of `progress`, each with the page it is about

pagerVars == <<pager, thread, held, log>>
readVars == <<reader, got>>
vars == <<server, options, result, snapshot, pager, thread, held, channel, reader, got, log>>

NextPage(kind, start, count) == [kind |-> kind, start |-> start, count |-> count]
PageItem(ids) == [ok |-> TRUE, ids |-> ids]
ErrorItem == [ok |-> FALSE, ids |-> <<>>]
NoItem == ErrorItem

-----------------------------------------------------------------------------
\* The server (external).

Links == pager.next.kind = "Url" /\ pager.next.start > 0

\* The features an answer is about: a transaction-safe server, and one whose `next` link is
\* followed, answers from the result it had at first.
Matching == IF log # <<>> /\ (server.safe \/ Links) THEN snapshot ELSE result

\* A page from `start`, of `count` features if asked for, no longer than the server's limits
\* (a limit of 0 is none: page_size reads a CountDefault of 0 so).
Page(start, count) ==
    LET limits == {count, server.count_default, server.limit} \ {Unknown, 0}
        last == IF limits = {} THEN Len(Matching) ELSE start + Min(limits)
    IN  SubSeq(Matching, start + 1, Min({last, Len(Matching)}))

Matched == IF server.matched THEN Len(Matching) ELSE Unknown

HasNext(start, count) == server.links /\ start + Len(Page(start, count)) < Len(Matching)

\* The data changes: a feature appears in front of the others.
Insert ==
    /\ Len(result) < MatchedFirst + server.changes
    /\ result' = <<Len(result) + 1>> \o result
    /\ UNCHANGED <<server, options, snapshot, pagerVars, channel, readVars>>

-----------------------------------------------------------------------------
\* paging.rs

\* page_size: min(requested, CountDefault), whichever is given, or the default.
PageSize ==
    LET given == {options.page_size, server.count_default} \ {Unknown, 0}
    IN  IF options.page_size = 0 THEN 1
        ELSE IF given = {} THEN DEFAULT_PAGE_SIZE
        ELSE Min(given)

\* choose: the strategy, and the page size of the two that have one.
Choose ==
    IF options.strategy \in {"StartIndex", "VendorStartIndex"}
    THEN [kind |-> options.strategy, page_size |-> PageSize]
    ELSE IF options.strategy # "None"
    THEN [kind |-> options.strategy, page_size |-> Unknown]
    ELSE IF server.is_2 /\ server.paging
    THEN [kind |-> "StartIndex", page_size |-> PageSize]
    ELSE [kind |-> "Single", page_size |-> Unknown]

ByOffset(strategy) == strategy.kind \in {"StartIndex", "VendorStartIndex"}

MutNextAfter(strategy, fetched, returned, matched, next) ==    \* Mutant: a short page is the end.
    IF strategy.kind = "NextLink"
    THEN next
    ELSE IF /\ ByOffset(strategy)
            /\ returned >= strategy.page_size
            /\ matched # Unknown => fetched < matched
    THEN NextPage("StartIndex", fetched, Unknown)
    ELSE NextPage("Done", 0, Unknown)

\* next_page: where to go on after a page of `returned` features, `fetched` in all.
NextAfter(strategy, fetched, returned, matched, next) ==
    IF strategy.kind = "NextLink"
    THEN next
    ELSE IF /\ ByOffset(strategy)
            /\ returned # 0
            /\ IF matched # Unknown THEN fetched < matched ELSE returned >= strategy.page_size
    THEN NextPage("StartIndex", fetched, Unknown)
    ELSE NextPage("Done", 0, Unknown)

-----------------------------------------------------------------------------
\* WfsClient::pages

Refused == options.dedupe \/ Choose.kind = "SpatialTiling"

FirstRequest ==
    IF ByOffset(Choose) THEN NextPage("StartIndex", 0, Unknown)
    ELSE NextPage("Url", 0, IF Choose.kind = "NextLink" /\ options.page_size # Unknown
                            THEN PageSize ELSE Unknown)

Init ==
    /\ server \in Servers /\ options \in Options
    /\ result = [n \in 1 .. MatchedFirst |-> n]
    /\ snapshot = <<>>
    /\ pager = [strategy |-> Choose,
                next |-> FirstRequest,
                resume_page_size |-> IF server.is_2 /\ server.paging THEN PageSize ELSE Unknown,
                attempts |-> 0, fetched |-> 0, pages |-> 0,
                first_matched |-> Unknown, matched_warned |-> FALSE, unsafe_warned |-> FALSE,
                previous_ids |-> {}, warnings |-> {}]
    /\ thread = "loop"
    /\ held = NoItem
    /\ channel = <<>>
    /\ reader = IF Refused THEN "refused" ELSE "reading"
    /\ got = <<>>
    /\ log = <<>>

\* With a concurrency of 1 there is no thread: the read runs the pager.
Lazy == options.concurrency <= 1

\* The pager is about to make a request.
Requesting ==
    /\ reader # "refused"
    /\ thread = "loop"
    /\ Lazy => reader = "asking"
    /\ pager.next.kind # "Done"

\* Pager::next_page says `item`, which is to be handed on.
Yield(item) == held' = item /\ thread' = "send"

\* An error of next_page: Pager::next ends after it.
Fails(p) ==
    /\ pager' = [p EXCEPT !.next = NextPage("Done", 0, Unknown)]
    /\ Yield(ErrorItem)
    /\ UNCHANGED log

\* The pager goes round its loop.
Retry(p) == pager' = p /\ UNCHANGED <<thread, held, log>>

\* A request that failed after its retries, an exception report, a malformed answer.
RequestFails ==
    /\ Requesting
    /\ Fails(pager)
    /\ UNCHANGED <<server, options, result, snapshot, channel, readVars>>

MutCacheExpired ==               \* Mutant: the offset is the page's number.
    /\ Requesting
    /\ Links
    /\ \/ /\ pager.resume_page_size # Unknown
          /\ Retry([pager EXCEPT
                !.strategy = [kind |-> "StartIndex", page_size |-> pager.resume_page_size],
                !.next = NextPage("StartIndex", pager.pages, Unknown),
                !.warnings = @ \cup {"expired"}])
       \/ pager.resume_page_size = Unknown /\ Fails(pager)
    /\ UNCHANGED <<server, options, result, snapshot, channel, readVars>>

\* resume_after: `ResponseCacheExpired` for a `next` link.
CacheExpired ==
    /\ Requesting
    /\ Links
    /\ \/ /\ pager.resume_page_size # Unknown
          /\ Retry([pager EXCEPT
                !.strategy = [kind |-> "StartIndex", page_size |-> pager.resume_page_size],
                !.next = NextPage("StartIndex", pager.fetched, Unknown),
                !.warnings = @ \cup {"expired"}])
       \/ pager.resume_page_size = Unknown /\ Fails(pager)
    /\ UNCHANGED <<server, options, result, snapshot, channel, readVars>>

\* halve_page_size
Halved(strategy) ==
    IF ByOffset(strategy) THEN [strategy EXCEPT !.page_size = Max({1, @ \div 2})] ELSE strategy

\* An answer that breaks off, or says that it is truncated, is thrown away.
Truncated ==
    LET counted == [pager EXCEPT !.attempts = @ + 1]
    IN  /\ Requesting
        /\ \/ counted.attempts > options.max_retries /\ Fails(counted)
           \/ /\ counted.attempts <= options.max_retries
              /\ Retry([counted EXCEPT !.strategy = Halved(@), !.warnings = @ \cup {"truncated"}])
        /\ UNCHANGED <<server, options, result, snapshot, channel, readVars>>

-----------------------------------------------------------------------------
\* A complete page: Pager::after_page.

\* An automatic choice follows the `next` link of the first page.
TakenUp(next) ==
    IF /\ options.strategy = "None" /\ pager.pages = 0 /\ server.is_2
       /\ next.kind = "Url"
    THEN [kind |-> "NextLink", page_size |-> Unknown]
    ELSE pager.strategy

\* The ids that are kept for the next page: those that repeat one of the page before are not.
NewIds(ids) == ToSet(ids) \ pager.previous_ids
Repeated(ids) == Len(ids) - Cardinality(NewIds(ids))

\* numberMatched is not what the first page said, for the first time.
Changed(matched) ==
    /\ pager.pages > 0 /\ ~pager.matched_warned
    /\ pager.first_matched # Unknown /\ matched # Unknown
    /\ pager.first_matched # matched

MutUnsafe(next) ==               \* Mutant: not before the second page.
    server.is_2 /\ next.kind # "Done" /\ ~server.safe /\ ~pager.unsafe_warned /\ pager.pages > 0

\* More pages are to come from a server that does not declare PagingIsTransactionSafe.
Unsafe(next) == server.is_2 /\ next.kind # "Done" /\ ~server.safe /\ ~pager.unsafe_warned

\* A single request that was cut short.
Short(strategy, ids, matched) ==
    strategy.kind = "Single" /\ matched # Unknown /\ Len(ids) < matched

Warnings(strategy, next, ids, matched) ==
    pager.warnings
        \cup (IF Changed(matched) THEN {"changed"} ELSE {})
        \cup (IF Short(strategy, ids, matched) THEN {"short"} ELSE {})
        \cup (IF Unsafe(next) THEN {"unsafe"} ELSE {})
        \cup (IF Repeated(ids) > 0 THEN {"repeated"} ELSE {})

\* The books after the page `ids`, and the report on it.
AfterPage(ids, matched, link) ==
    LET strategy == TakenUp(link)
        fetched == pager.fetched + Len(ids)
        next == NextAfter(strategy, fetched, Len(ids), matched, link)
        warnings == Warnings(strategy, next, ids, matched)
    IN  /\ pager' = [pager EXCEPT
                !.strategy = strategy,
                !.next = next,
                !.attempts = 0,
                !.fetched = fetched,
                !.pages = @ + 1,
                !.first_matched = IF pager.pages = 0 THEN matched ELSE @,
                !.matched_warned = @ \/ "changed" \in warnings,
                !.unsafe_warned = @ \/ "unsafe" \in warnings,
                !.previous_ids = NewIds(ids),
                !.warnings = {}]
        /\ log' = Append(log, [ids |-> ids, matched |-> matched, features |-> fetched,
                               warnings |-> warnings])

CompletePage ==
    LET start == pager.next.start
        count == IF pager.next.kind = "Url" THEN pager.next.count ELSE pager.strategy.page_size
        ids == Page(start, count)
        link == IF HasNext(start, count) THEN NextPage("Url", start + Len(ids), count)
                ELSE NextPage("Done", 0, Unknown)
    IN  /\ Requesting
        /\ AfterPage(ids, Matched, link)
        /\ Yield(PageItem(ids))
        /\ snapshot' = IF log = <<>> THEN result ELSE snapshot
        /\ UNCHANGED <<server, options, result, channel, readVars>>

\* Pager::next says None (also after an error): the loop over it ends.
PagerEnds ==
    /\ reader # "refused"
    /\ thread = "loop" /\ pager.next.kind = "Done"
    /\ Lazy => reader = "asking"
    /\ thread' = "ended"
    /\ UNCHANGED <<server, options, result, snapshot, pager, held, log, channel, readVars>>

-----------------------------------------------------------------------------
\* read_ahead: a channel for all the pages ahead but the one the thread has.

Capacity == IF Lazy THEN 0 ELSE options.concurrency - 2

\* The loop goes on with the next page.
Handed == thread' = "loop" /\ held' = NoItem

MutSend ==                       \* Mutant: one place of the channel is never used.
    /\ thread = "send"
    /\ reader # "dropped"
    /\ Len(channel) + 1 < Capacity
    /\ channel' = Append(channel, held)
    /\ Handed
    /\ UNCHANGED <<server, options, result, snapshot, pager, log, readVars>>

Send ==
    /\ thread = "send"
    /\ reader # "dropped"
    /\ Len(channel) < Capacity
    /\ channel' = Append(channel, held)
    /\ Handed
    /\ UNCHANGED <<server, options, result, snapshot, pager, log, readVars>>

MutSendFails == FALSE            \* Mutant: the dropped receiver is not noticed.

\* The read was dropped: send says so, waiting or not, and the thread stops.
SendFails ==
    /\ thread = "send"
    /\ reader = "dropped"
    /\ thread' = "ended"
    /\ held' = NoItem
    /\ UNCHANGED <<server, options, result, snapshot, pager, log, channel, readVars>>

-----------------------------------------------------------------------------
\* The read, which takes one page after another and may be dropped between two.

Ask ==
    /\ reader = "reading"
    /\ reader' = "asking"
    /\ UNCHANGED <<server, options, result, snapshot, pagerVars, channel, got>>

Took(item) ==
    /\ got' = Append(got, item)
    /\ reader' = IF item.ok THEN "reading" ELSE "failed"

\* The oldest item of the channel, or the one the thread waits with where the channel has no room.
Receive ==
    /\ reader = "asking"
    /\ \/ /\ channel # <<>>
          /\ Took(Head(channel))
          /\ channel' = Tail(channel)
          /\ UNCHANGED <<thread, held>>
       \/ /\ channel = <<>> /\ Capacity = 0
          /\ thread = "send"
          /\ Took(held)
          /\ Handed
          /\ UNCHANGED channel
    /\ UNCHANGED <<server, options, result, snapshot, pager, log>>

ReadEnds ==
    /\ reader = "asking"
    /\ channel = <<>> /\ thread = "ended"
    /\ reader' = "ended"
    /\ UNCHANGED <<server, options, result, snapshot, pagerVars, channel, got>>

Drop ==
    /\ reader \in {"reading", "failed", "ended"}
    /\ reader' = "dropped"
    /\ channel' = <<>>
    /\ UNCHANGED <<server, options, result, snapshot, pagerVars, got>>

Pager == RequestFails \/ CacheExpired \/ Truncated \/ CompletePage \/ PagerEnds \/ Send \/ SendFails
Read == Ask \/ Receive \/ ReadEnds

Next == Insert \/ Pager \/ Read \/ Drop

Spec == Init /\ [][Next]_vars

\* The pager's thread and the read run on; nothing makes anyone drop the read.
FairSpec == Spec /\ WF_vars(Pager) /\ WF_vars(Read)

-----------------------------------------------------------------------------

\* The type invariant: a page size is never 0, however often it was halved.
TypeOK ==
    /\ server \in Servers /\ options \in Options
    /\ ToSet(result) \subseteq 1 .. MatchedFirst + server.changes
    /\ ToSet(snapshot) \subseteq ToSet(result)
    /\ pager.strategy.kind \in {"NextLink", "StartIndex", "VendorStartIndex", "SpatialTiling", "Single"}
    /\ ByOffset(pager.strategy) <=> pager.strategy.page_size \in Nat \ {0}
    /\ pager.next \in [kind: {"Url", "StartIndex", "Done"}, start: Nat, count: Count]
    /\ pager.attempts \in Nat /\ pager.fetched \in Nat /\ pager.pages = Len(log)
    /\ thread \in {"loop", "send", "ended"}
    /\ reader \in {"reading", "asking", "failed", "ended", "dropped", "refused"}

Delivered == FlattenSeq([n \in DOMAIN log |-> log[n].ids])

\* A page may be asked for again, in halves or at an offset after the server's cache expired,
\* "without emitting any feature twice" (docs/wfs.md 32-34) and without a gap: while the data
\* stays as it is, the pages are the beginning of it.
NothingTwice == server.changes = 0 => IsPrefix(Delivered, result)

\* A read that ends without an error has every feature of data that stays as it is, or it said
\* that it has not; this takes a server that counts (numberMatched), or one that does not cut
\* pages short without telling.  Only a forced NextLink trusts the server's links alone.
NothingLostSilently ==
    /\ server.changes = 0 /\ reader = "ended" /\ options.strategy # "NextLink"
    /\ server.matched \/ {server.count_default, server.limit} = {Unknown}
    => \/ Delivered = result
       \/ \E n \in DOMAIN log : "short" \in log[n].warnings

\* No feature is repeated under WFS 2.0 unless an earlier page was reported with the warning
\* that the server's paging is not transaction-safe (after_page, pages.rs 422-432).
RepeatsForetold ==
    \A m, n \in DOMAIN log :
        /\ m < n /\ server.is_2
        /\ ToSet(log[m].ids) \cap ToSet(log[n].ids) # {}
        => \E k \in 1 .. m : "unsafe" \in log[k].warnings

\* "Each page is compared with the previous one" (docs/wfs.md 133-134): a page with a feature of
\* the page before it is reported with the warning.
RepeatsReported ==
    \A n \in 2 .. Len(log) :
        ToSet(log[n - 1].ids) \cap ToSet(log[n].ids) # {} => "repeated" \in log[n].warnings

\* The read ends, with the last page or with an error, whatever the server truncates or forgets.
ReadFinishes == <>(reader \in {"ended", "failed", "dropped", "refused"})

\* A dropped read stops the thread, also one that waits with a page for room.
DropStopsThread == reader = "dropped" /\ ~Lazy ~> thread = "ended"

=============================================================================
