------------------------------ MODULE WfsProofs ------------------------------
(***************************************************************************)
(* Proofs about WfsPages: while the data stays as it is the pages are one  *)
(* piece of it after another and a read that ends has them all; a server   *)
(* that is not transaction-safe is reported before a feature can repeat.   *)
(***************************************************************************)
EXTENDS WfsPages, SequenceLemmas

-----------------------------------------------------------------------------
\* The types.

Kinds == {"NextLink", "StartIndex", "VendorStartIndex", "SpatialTiling", "Single"}
Places == [kind: {"Url", "StartIndex", "Done"}, start: Nat, count: Count]
WarningKinds == {"expired", "truncated", "changed", "short", "unsafe", "repeated"}
PagerType ==
    [strategy: [kind: Kinds, page_size: Count], next: Places, resume_page_size: Count,
     attempts: Nat, fetched: Nat, pages: Nat, first_matched: Count, matched_warned: BOOLEAN,
     unsafe_warned: BOOLEAN, previous_ids: SUBSET Nat, warnings: SUBSET WarningKinds]
Reports == [ids: Seq(Nat), matched: Count, features: Nat, warnings: SUBSET WarningKinds]
Items == [ok: BOOLEAN, ids: Seq(Nat)]

WfsTyped ==
    /\ server \in Servers /\ server \in ServerType
    /\ options \in Options /\ options \in OptionsType
    /\ result \in Seq(Nat) /\ snapshot \in Seq(Nat)
    /\ pager \in PagerType
    /\ ByOffset(pager.strategy) => pager.strategy.page_size # 0
    /\ ByOffset(pager.strategy) <=> pager.strategy.page_size # Unknown
    /\ pager.resume_page_size # 0
    /\ thread \in {"loop", "send", "ended"}
    /\ held \in Items /\ channel \in Seq(Items)
    /\ reader \in {"reading", "asking", "failed", "ended", "dropped", "refused"}
    /\ log \in Seq(Reports)

-----------------------------------------------------------------------------
\* The inductive invariant.

NoRepeats(s) == \A i, j \in 1 .. Len(s) : s[i] = s[j] => i = j

\* The features are numbered as they come, in front of the others; the snapshot was the result
\* once, and still is if nothing came.
DataInv ==
    /\ Len(result) \in MatchedFirst .. MatchedFirst + server.changes
    /\ \A i \in 1 .. Len(result) : result[i] \in 1 .. Len(result)
    /\ \A i \in 1 .. Len(snapshot) : snapshot[i] \in ToSet(result)
    /\ NoRepeats(result) /\ NoRepeats(snapshot)
    /\ log # <<>> /\ server.changes = 0 => snapshot = result

\* The answers are all about the same data.
Fixed == server.changes = 0 \/ server.safe

Data == IF log = <<>> THEN result ELSE snapshot

\* How many features the pages before the nth had.
Before(reports, n) == IF n = 1 THEN 0 ELSE reports[n - 1].features

\* The next request goes on where the last page ended, and of data that stays as it is the
\* pages are one piece after the other.
PagesInv ==
    /\ pager.pages = Len(log)
    /\ pager.fetched = Before(log, Len(log) + 1)
    /\ pager.next.kind # "Done" => pager.next.start = pager.fetched
    /\ Fixed => \A n \in 1 .. Len(log) :
        /\ Before(log, n) <= log[n].features /\ log[n].features <= Len(snapshot)
        /\ log[n].ids = SubSeq(snapshot, Before(log, n) + 1, log[n].features)

Warned(reports, n) == \E k \in 1 .. n : "unsafe" \in reports[k].warnings

\* Every page that another may follow comes with the warning, or after one with it.
UnsafeInv ==
    /\ pager.unsafe_warned => Warned(log, Len(log))
    /\ server.is_2 /\ ~server.safe =>
        /\ log # <<>> /\ pager.next.kind # "Done" => pager.unsafe_warned
        /\ \A m \in 1 .. Len(log) : m < Len(log) => Warned(log, m)

\* How the strategy and the next request go together.
StrategyInv ==
    /\ pager.strategy.kind = "SpatialTiling" => reader = "refused"
    /\ pager.strategy.kind = "NextLink" => options.strategy = "NextLink" \/ server.links
    /\ pager.next.kind # "Done" =>
        /\ ByOffset(pager.strategy) => pager.next.kind = "StartIndex"
        /\ pager.strategy.kind = "Single" =>
            /\ log = <<>> /\ pager.next.kind = "Url" /\ pager.next.count = Unknown

\* What NothingLostSilently takes of the server and the options.
Counting ==
    /\ server.changes = 0 /\ options.strategy # "NextLink"
    /\ server.matched \/ {server.count_default, server.limit} = {Unknown}

Complete == pager.fetched = Len(result) \/ \E n \in 1 .. Len(log) : "short" \in log[n].warnings

\* An error is on its way to the read, or reached it.
ErrorComes ==
    \/ thread = "send" /\ ~held.ok
    \/ \E i \in 1 .. Len(channel) : ~channel[i].ok
    \/ reader \in {"failed", "dropped"}

\* A pager that is done has everything, unless the read hears of an error.
EndInv ==
    /\ thread = "ended" => pager.next.kind = "Done" \/ reader = "dropped"
    /\ reader = "ended" => channel = <<>> /\ thread = "ended"
    /\ pager.next.kind = "Done" /\ Counting => Complete \/ ErrorComes

WfsInv == WfsTyped /\ DataInv /\ PagesInv /\ UnsafeInv /\ StrategyInv /\ EndInv

-----------------------------------------------------------------------------
\* The strategy and the page sizes.

LEMMA PageSizeTyped ==
  ASSUME server \in ServerType, options \in OptionsType
  PROVE  PageSize \in Nat \ {0}
<1> DEFINE given == {options.page_size, server.count_default} \ {Unknown, 0}
<1>1. options.page_size \in Nat \cup {Unknown} /\ server.count_default \in Nat \cup {Unknown}
  BY DEF OptionsType, ServerType, Count
<1>2. given \in SUBSET (Nat \ {0})
  BY <1>1 DEF Unknown
<1>3. given # {} => Min(given) \in Nat \ {0}
  BY <1>2, MinOfNats
<1>4. DEFAULT_PAGE_SIZE \in Nat \ {0}
  BY WfsAssumption
<1>5. PageSize = IF options.page_size = 0 THEN 1
                 ELSE IF given = {} THEN DEFAULT_PAGE_SIZE ELSE Min(given)
  BY DEF PageSize
<1> HIDE DEF given
<1> QED
  BY <1>3, <1>4, <1>5

LEMMA ChooseTyped ==
  ASSUME server \in ServerType, options \in OptionsType
  PROVE  /\ Choose \in [kind: Kinds, page_size: Count]
         /\ ByOffset(Choose) => Choose.page_size \in Nat \ {0}
         /\ ~ByOffset(Choose) => Choose.page_size = Unknown
         /\ Choose.kind = "NextLink" => options.strategy = "NextLink"
<1>1. PageSize \in Nat \ {0}
  BY PageSizeTyped
<1>2. options.strategy \in Kinds \cup {"None"}
  BY DEF OptionsType, Kinds
<1> HIDE DEF PageSize
<1> QED
  BY <1>1, <1>2 DEF Choose, ByOffset, Kinds, Count, Unknown

LEMMA HalvedTyped ==
  ASSUME NEW s \in [kind: Kinds, page_size: Count], ByOffset(s) => s.page_size # 0,
         ByOffset(s) <=> s.page_size # Unknown
  PROVE  /\ Halved(s) \in [kind: Kinds, page_size: Count]
         /\ Halved(s).kind = s.kind
         /\ ByOffset(Halved(s)) => Halved(s).page_size # 0
         /\ ByOffset(Halved(s)) <=> Halved(s).page_size # Unknown
<1>1. CASE ~ByOffset(s)
  BY <1>1 DEF Halved
<1>2. CASE ByOffset(s)
  <2> DEFINE half == s.page_size \div 2
             size == Max({1, half})
  <2>1. s.page_size \in Nat
    BY <1>2 DEF Count
  <2>2. half \in Nat
    BY <2>1
  <2> HIDE DEF half
  <2>3. size \in {1, half} /\ 1 <= size
    BY <2>2, MaxOfTwo
  <2>4. Halved(s) = [s EXCEPT !.page_size = size]
    BY <1>2 DEF Halved, half
  <2>5. size \in Nat \ {0}
    BY <2>2, <2>3
  <2> HIDE DEF size
  <2>6. Halved(s).kind = s.kind /\ Halved(s).page_size = size /\ Halved(s) \in [kind: Kinds, page_size: Count]
    BY <2>4, <2>5 DEF Count
  <2> QED
    BY <1>2, <2>5, <2>6 DEF ByOffset, Unknown
<1> QED
  BY <1>1, <1>2

\* A page is a piece of the data from `start` on; an empty one is at its end, and so is the end of
\* one that only the request's count could cut.
LEMMA PageIsAPiece ==
  ASSUME WfsTyped, NEW start \in Nat, NEW count \in Count
  PROVE  /\ Page(start, count) \in Seq(Nat)
         /\ Matching \in Seq(Nat)
         /\ start <= Len(Matching) =>
              \E to \in start .. Len(Matching) :
                /\ Page(start, count) = SubSeq(Matching, start + 1, to)
                /\ Len(Page(start, count)) = to - start
                /\ to = start => to = Len(Matching)
                /\ {server.count_default, server.limit} = {Unknown} =>
                     \/ to = Len(Matching)
                     \/ count # Unknown /\ to = start + count
<1> DEFINE limits == {count, server.count_default, server.limit} \ {Unknown, 0}
           last == IF limits = {} THEN Len(Matching) ELSE start + Min(limits)
           to == Min({last, Len(Matching)})
<1>1. Matching \in Seq(Nat)
  BY DEF WfsTyped, Matching
<1>2. Len(Matching) \in Nat
  BY <1>1, LenProperties
<1>3. limits \in SUBSET (Nat \ {0})
  BY DEF WfsTyped, ServerType, Count
<1>4. limits # {} => Min(limits) \in limits
  BY <1>3, MinOfNats
<1>5. Page(start, count) = SubSeq(Matching, start + 1, to)
  BY DEF Page
<1>6. {server.count_default, server.limit} = {Unknown} /\ limits # {} =>
        limits = {count} /\ count # Unknown
  OBVIOUS
<1> HIDE DEF limits, Matching
<1>7. last \in Nat
  <2>1. CASE limits = {}
    BY <1>2, <2>1
  <2>2. CASE limits # {}
    <3> DEFINE m == Min(limits)
    <3>1. m \in Nat
      BY <1>3, <1>4, <2>2
    <3> HIDE DEF m
    <3>2. start + m \in Nat
      BY <3>1
    <3> QED
      BY <2>2, <3>2 DEF m
  <2> QED
    BY <2>1, <2>2
<1>8. to \in {last, Len(Matching)} /\ to <= last /\ to <= Len(Matching)
  <2> DEFINE m == Len(Matching)
  <2>1. {last, m} \in SUBSET Nat /\ {last, m} # {}
    BY <1>2, <1>7
  <2> HIDE DEF last, m
  <2>2. Min({last, m}) \in {last, m} /\ \A n \in {last, m} : Min({last, m}) <= n
    BY <2>1, MinOfNats
  <2> QED
    BY <2>2 DEF m
<1>9. limits = {} => last = Len(Matching)
  OBVIOUS
<1>10. limits # {} => last = start + Min(limits) /\ Min(limits) \in Nat \ {0}
  BY <1>3, <1>4
<1>11. limits = {count} => Min(limits) = count
  BY <1>4
<1> HIDE DEF last, to
<1>12. to \in Nat
  BY <1>2, <1>7, <1>8
<1>13. Page(start, count) \in Seq(Nat)
  BY <1>1, <1>5, <1>8, <1>12, PieceOf
<1>14. ASSUME start <= Len(Matching)
       PROVE  /\ to \in start .. Len(Matching)
              /\ Len(Page(start, count)) = to - start
              /\ to = start => to = Len(Matching)
              /\ {server.count_default, server.limit} = {Unknown} =>
                   to = Len(Matching) \/ (count # Unknown /\ to = start + count)
  <2>1. start <= last
    BY <1>2, <1>9, <1>10, <1>14
  <2>2. start <= to
    BY <1>8, <1>14, <2>1
  <2>3. Len(Page(start, count)) = to - start
    BY <1>1, <1>5, <1>8, <1>12, <2>2, PieceOf
  <2>4. to = start => to = Len(Matching)
    BY <1>2, <1>8, <1>9, <1>10
  <2>5. {server.count_default, server.limit} = {Unknown} =>
          to = Len(Matching) \/ (count # Unknown /\ to = start + count)
    BY <1>6, <1>8, <1>9, <1>10, <1>11
  <2>6. to \in start .. Len(Matching)
    BY <1>2, <1>8, <1>12, <2>2
  <2> QED
    BY <2>3, <2>4, <2>5, <2>6
<1> QED
  BY <1>1, <1>5, <1>13, <1>14

-----------------------------------------------------------------------------
\* What a complete page makes of the pager and the log.

Asked == IF pager.next.kind = "Url" THEN pager.next.count ELSE pager.strategy.page_size
ThisPage == Page(pager.next.start, Asked)
ThisLink == IF HasNext(pager.next.start, Asked)
            THEN NextPage("Url", pager.next.start + Len(ThisPage), Asked)
            ELSE NextPage("Done", 0, Unknown)
ThisStrategy == TakenUp(ThisLink)
ThisFetched == pager.fetched + Len(ThisPage)
ThisNext == NextAfter(ThisStrategy, ThisFetched, Len(ThisPage), Matched, ThisLink)
ThisWarnings == Warnings(ThisStrategy, ThisNext, ThisPage, Matched)
ThisReport == [ids |-> ThisPage, matched |-> Matched, features |-> ThisFetched,
               warnings |-> ThisWarnings]

LEMMA PageTaken ==
  CompletePage =>
    /\ Requesting
    /\ pager' = [pager EXCEPT
            !.strategy = ThisStrategy, !.next = ThisNext, !.attempts = 0, !.fetched = ThisFetched,
            !.pages = @ + 1, !.first_matched = IF pager.pages = 0 THEN Matched ELSE @,
            !.matched_warned = @ \/ "changed" \in ThisWarnings,
            !.unsafe_warned = @ \/ "unsafe" \in ThisWarnings,
            !.previous_ids = NewIds(ThisPage), !.warnings = {}]
    /\ log' = Append(log, ThisReport)
    /\ held' = PageItem(ThisPage) /\ thread' = "send"
    /\ snapshot' = IF log = <<>> THEN result ELSE snapshot
    /\ UNCHANGED <<server, options, result, channel, reader, got>>
BY DEF CompletePage, AfterPage, Yield, readVars, Asked, ThisPage, ThisLink, ThisStrategy, ThisFetched,
       ThisNext, ThisWarnings, ThisReport

LEMMA ThisTyped ==
  ASSUME WfsTyped
  PROVE  /\ Asked \in Count /\ ThisPage \in Seq(Nat) /\ Len(ThisPage) \in Nat
         /\ Matched \in Count
         /\ ThisLink \in Places
         /\ ThisStrategy \in [kind: Kinds, page_size: Count]
         /\ ByOffset(ThisStrategy) => ThisStrategy.page_size # 0
         /\ ByOffset(ThisStrategy) <=> ThisStrategy.page_size # Unknown
         /\ ThisFetched \in Nat
         /\ ThisNext \in Places
         /\ ThisWarnings \in SUBSET WarningKinds
         /\ ThisReport \in Reports
<1>1. /\ pager.next.start \in Nat /\ pager.next.count \in Count /\ pager.fetched \in Nat
      /\ pager.strategy \in [kind: Kinds, page_size: Count] /\ pager.warnings \in SUBSET WarningKinds
      /\ ByOffset(pager.strategy) => pager.strategy.page_size # 0
      /\ ByOffset(pager.strategy) <=> pager.strategy.page_size # Unknown
  BY DEF WfsTyped, PagerType, Places
<1>2. Asked \in Count
  BY <1>1 DEF Asked
<1>3. ThisPage \in Seq(Nat) /\ Matching \in Seq(Nat)
  BY <1>1, <1>2, PageIsAPiece DEF ThisPage
<1>4. Len(ThisPage) \in Nat
  BY <1>3, LenProperties
<1>5. Matched \in Count
  BY <1>3, LenProperties DEF Matched, Count, Unknown
<1> HIDE DEF Asked, ThisPage
<1>6. ThisLink \in Places
  BY <1>1, <1>2, <1>4 DEF ThisLink, NextPage, Places, Count, Unknown
<1> HIDE DEF ThisLink
<1>7. /\ ThisStrategy \in [kind: Kinds, page_size: Count]
      /\ ByOffset(ThisStrategy) => ThisStrategy.page_size # 0
      /\ ByOffset(ThisStrategy) <=> ThisStrategy.page_size # Unknown
  BY <1>1 DEF ThisStrategy, TakenUp, Kinds, Count, Unknown, ByOffset
<1> HIDE DEF ThisStrategy
<1>8. ThisFetched \in Nat
  BY <1>1, <1>4 DEF ThisFetched
<1> HIDE DEF ThisFetched
<1>9. ThisNext \in Places
  BY <1>6, <1>8 DEF ThisNext, NextAfter, NextPage, Places, Count, Unknown
<1>10. ThisWarnings \in SUBSET WarningKinds
  BY <1>1 DEF ThisWarnings, Warnings, WarningKinds
<1> HIDE DEF ThisWarnings
<1>11. ThisReport \in Reports
  BY <1>3, <1>5, <1>8, <1>10 DEF ThisReport, Reports
<1> QED
  BY <1>2, <1>3, <1>4, <1>5, <1>6, <1>7, <1>8, <1>9, <1>10, <1>11

-----------------------------------------------------------------------------
\* The types hold.

LEMMA InitTyped == Init => WfsTyped
<1>1. SUFFICES ASSUME Init PROVE WfsTyped
  OBVIOUS
<1>2. /\ server \in Servers /\ server \in ServerType /\ options \in Options /\ options \in OptionsType
  BY <1>1, WfsAssumption DEF Init
<1>3. /\ Choose \in [kind: Kinds, page_size: Count]
      /\ ByOffset(Choose) => Choose.page_size \in Nat \ {0}
      /\ ~ByOffset(Choose) => Choose.page_size = Unknown
      /\ PageSize \in Nat \ {0}
  BY <1>2, ChooseTyped, PageSizeTyped
<1>4. /\ result \in Seq(Nat) /\ snapshot \in Seq(Nat) /\ channel \in Seq(Items) /\ log \in Seq(Reports)
      /\ held \in Items
  <2>1. MatchedFirst \in Nat
    BY WfsAssumption
  <2>2. result \in Seq(Nat)
    BY <1>1, <2>1 DEF Init
  <2> QED
    BY <1>1, <2>2, EmptySeq DEF Init, NoItem, ErrorItem, Items
<1> HIDE DEF Choose, PageSize
<1>5. pager \in PagerType /\ pager.strategy = Choose /\ pager.resume_page_size # 0
  <2>1. FirstRequest \in Places
    BY <1>3 DEF FirstRequest, NextPage, Places, Count, Unknown
  <2>2. (IF server.is_2 /\ server.paging THEN PageSize ELSE Unknown) \in Count \ {0}
    BY <1>3 DEF Count, Unknown
  <2> HIDE DEF FirstRequest
  <2> QED
    BY <1>1, <1>3, <2>1, <2>2 DEF Init, PagerType, Count, Unknown
<1>6. thread = "loop" /\ reader \in {"reading", "refused"}
  BY <1>1 DEF Init
<1> QED
  BY <1>2, <1>3, <1>4, <1>5, <1>6 DEF WfsTyped, Unknown

\* A request that brings no page: the pager fails with an error, asks again for what it asked for,
\* or goes on by offsets where it is.
Trouble == RequestFails \/ CacheExpired \/ Truncated

LEMMA TroubleTaken ==
  ASSUME WfsTyped, Trouble
  PROVE  /\ Requesting
         /\ UNCHANGED <<server, options, result, snapshot, channel, reader, got, log>>
         /\ pager' \in PagerType
         /\ pager'.fetched = pager.fetched /\ pager'.pages = pager.pages
         /\ pager'.unsafe_warned = pager.unsafe_warned
         /\ pager'.resume_page_size = pager.resume_page_size
         /\ ByOffset(pager'.strategy) => pager'.strategy.page_size # 0
         /\ ByOffset(pager'.strategy) <=> pager'.strategy.page_size # Unknown
         /\ \/ /\ pager'.next.kind = "Done" /\ held' = ErrorItem /\ thread' = "send"
               /\ pager'.strategy = pager.strategy
            \/ /\ pager'.next = pager.next /\ UNCHANGED <<thread, held>>
               /\ pager'.strategy.kind = pager.strategy.kind
            \/ /\ pager'.next = NextPage("StartIndex", pager.fetched, Unknown)
               /\ UNCHANGED <<thread, held>>
               /\ pager'.strategy.kind = "StartIndex"
<1>1. /\ pager \in PagerType /\ pager.fetched \in Nat /\ pager.resume_page_size \in Count \ {0}
      /\ pager.strategy \in [kind: Kinds, page_size: Count]
      /\ pager.next \in Places /\ pager.attempts \in Nat /\ pager.warnings \in SUBSET WarningKinds
      /\ ByOffset(pager.strategy) => pager.strategy.page_size # 0
      /\ ByOffset(pager.strategy) <=> pager.strategy.page_size # Unknown
  BY DEF WfsTyped, PagerType
<1>2. NextPage("Done", 0, Unknown) \in Places /\ NextPage("Done", 0, Unknown).kind = "Done"
  BY DEF NextPage, Places, Count, Unknown
<1>3. CASE RequestFails
  BY <1>1, <1>2, <1>3 DEF RequestFails, Fails, Yield, PagerType, readVars
<1>4. CASE CacheExpired
  <2>1. CASE pager.resume_page_size = Unknown
    BY <1>1, <1>2, <1>4, <2>1 DEF CacheExpired, Fails, Yield, PagerType, readVars
  <2>2. CASE pager.resume_page_size # Unknown
    <3> DEFINE s == [kind |-> "StartIndex", page_size |-> pager.resume_page_size]
               n == NextPage("StartIndex", pager.fetched, Unknown)
               w == pager.warnings \cup {"expired"}
    <3>1. /\ s \in [kind: Kinds, page_size: Count] /\ s.kind = "StartIndex" /\ ByOffset(s)
          /\ s.page_size # 0 /\ s.page_size # Unknown /\ n \in Places /\ w \in SUBSET WarningKinds
      BY <1>1, <2>2 DEF Kinds, ByOffset, NextPage, Places, Count, Unknown, WarningKinds
    <3>2. /\ pager' = [pager EXCEPT !.strategy = s, !.next = n, !.warnings = w]
          /\ UNCHANGED <<thread, held, log>> /\ Requesting
          /\ UNCHANGED <<server, options, result, snapshot, channel, reader, got>>
      BY <1>4, <2>2 DEF CacheExpired, Retry, readVars, Fails
    <3> HIDE DEF s, w, n
    <3>3. pager' \in PagerType /\ pager'.strategy = s /\ pager'.next = n
      BY <1>1, <3>1, <3>2 DEF PagerType
    <3> QED
      BY <1>1, <3>1, <3>2, <3>3 DEF PagerType, n
  <2> QED
    BY <2>1, <2>2
<1>5. CASE Truncated
  <2> DEFINE counted == [pager EXCEPT !.attempts = @ + 1]
             s == Halved(pager.strategy)
             w == pager.warnings \cup {"truncated"}
  <2>1. counted \in PagerType
    BY <1>1 DEF PagerType
  <2>2. /\ counted.strategy = pager.strategy /\ counted.warnings = pager.warnings
        /\ counted.fetched = pager.fetched /\ counted.pages = pager.pages
        /\ counted.next = pager.next /\ counted.unsafe_warned = pager.unsafe_warned
        /\ counted.resume_page_size = pager.resume_page_size
    BY <1>1 DEF PagerType
  <2>3. CASE Fails(counted)
    <3> DEFINE n == NextPage("Done", 0, Unknown)
    <3>1. /\ Requesting /\ held' = ErrorItem /\ thread' = "send"
          /\ UNCHANGED <<server, options, result, snapshot, channel, reader, got, log>>
      BY <1>5, <2>3 DEF Truncated, Fails, Yield, readVars
    <3> HIDE DEF counted
    <3>2. pager' = [counted EXCEPT !.next = n]
      BY <2>3 DEF Fails
    <3> HIDE DEF n
    <3>3. /\ pager' \in PagerType /\ pager'.strategy = counted.strategy /\ pager'.next = n
          /\ pager'.fetched = counted.fetched /\ pager'.pages = counted.pages
          /\ pager'.unsafe_warned = counted.unsafe_warned
          /\ pager'.resume_page_size = counted.resume_page_size
      BY <1>2, <2>1, <3>2 DEF PagerType, n
    <3> QED
      BY <1>1, <1>2, <2>2, <3>1, <3>3 DEF n
  <2>4. CASE Retry([counted EXCEPT !.strategy = Halved(@), !.warnings = @ \cup {"truncated"}])
    <3>1. /\ s \in [kind: Kinds, page_size: Count] /\ s.kind = pager.strategy.kind
          /\ ByOffset(s) => s.page_size # 0
          /\ ByOffset(s) <=> s.page_size # Unknown
          /\ w \in SUBSET WarningKinds
      BY <1>1, HalvedTyped DEF WarningKinds
    <3>3. /\ UNCHANGED <<thread, held, log>> /\ Requesting
          /\ UNCHANGED <<server, options, result, snapshot, channel, reader, got>>
      BY <1>5, <2>4 DEF Truncated, Retry, readVars
    <3> HIDE DEF counted
    <3>4. pager' = [counted EXCEPT !.strategy = s, !.warnings = w]
      BY <2>1, <2>4, <2>2 DEF Retry, PagerType
    <3> HIDE DEF s, w
    <3>5. /\ pager' \in PagerType /\ pager'.strategy = s
          /\ pager'.fetched = counted.fetched /\ pager'.pages = counted.pages
          /\ pager'.next = counted.next /\ pager'.unsafe_warned = counted.unsafe_warned
          /\ pager'.resume_page_size = counted.resume_page_size
      BY <2>1, <3>1, <3>4 DEF PagerType
    <3> QED
      BY <2>2, <3>1, <3>3, <3>5
  <2> QED
    BY <1>5, <2>3, <2>4 DEF Truncated
<1> QED
  BY <1>3, <1>4, <1>5 DEF Trouble

\* The other steps leave the pager, its log and the data alone.
Handing == PagerEnds \/ Send \/ SendFails \/ Read \/ Drop

LEMMA HandingTaken ==
  ASSUME Handing
  PROVE  UNCHANGED <<server, options, result, snapshot, pager, log>>
BY DEF Handing, PagerEnds, Send, SendFails, Read, Ask, Receive, ReadEnds, Drop, pagerVars, readVars

LEMMA NextCases == Next => Insert \/ Trouble \/ CompletePage \/ Handing
BY DEF Next, Pager, Trouble, Handing

LEMMA StepTyped ==
  ASSUME WfsTyped, [Next]_vars
  PROVE  WfsTyped'
<1>1. CASE Insert
  <2>1. result' = <<Len(result) + 1>> \o result
    BY <1>1 DEF Insert
  <2>2. result \in Seq(Nat) /\ Len(result) \in Nat
    BY LenProperties DEF WfsTyped
  <2>3. result' \in Seq(Nat)
    BY <2>1, <2>2
  <2> QED
    BY <1>1, <2>3 DEF Insert, WfsTyped, pagerVars, readVars, ByOffset
<1>2. CASE Trouble
  <2>1. ErrorItem \in Items
    BY EmptySeq DEF ErrorItem, Items
  <2> QED
    BY <1>2, <2>1, TroubleTaken DEF WfsTyped, ByOffset
<1>3. CASE CompletePage
  <2>1. /\ server' = server /\ options' = options /\ result' = result /\ channel' = channel
        /\ reader' = reader /\ held' = PageItem(ThisPage) /\ thread' = "send"
        /\ snapshot' \in Seq(Nat)
    BY <1>3, PageTaken DEF WfsTyped
  <2>2. log' \in Seq(Reports)
    <3>1. ThisReport \in Reports
      BY ThisTyped
    <3>2. log' = Append(log, ThisReport) /\ log \in Seq(Reports)
      BY <1>3, PageTaken DEF WfsTyped
    <3> QED
      BY <3>1, <3>2, AppendProperties
  <2>3. PageItem(ThisPage) \in Items
    <3>1. ThisPage \in Seq(Nat)
      BY ThisTyped
    <3> QED
      BY <3>1 DEF PageItem, Items
  <2>4. /\ pager' \in PagerType /\ pager'.strategy = ThisStrategy
        /\ pager'.resume_page_size = pager.resume_page_size
    <3> DEFINE first == IF pager.pages = 0 THEN Matched ELSE pager.first_matched
               matched == pager.matched_warned \/ "changed" \in ThisWarnings
               unsafe == pager.unsafe_warned \/ "unsafe" \in ThisWarnings
               ids == NewIds(ThisPage)
    <3>1. /\ ThisStrategy \in [kind: Kinds, page_size: Count] /\ ThisNext \in Places
          /\ ThisFetched \in Nat /\ Matched \in Count /\ ThisPage \in Seq(Nat)
      BY ThisTyped
    <3>2. pager \in PagerType
      BY DEF WfsTyped
    <3> HIDE DEF Matched, ThisStrategy, ThisNext, ThisFetched, ThisWarnings
    <3>3. /\ first \in Count /\ matched \in BOOLEAN /\ unsafe \in BOOLEAN
          /\ pager.pages + 1 \in Nat
      BY <3>1, <3>2 DEF PagerType
    <3>4. ids \in SUBSET Nat
      BY <3>1, ElementOfSeq DEF NewIds, ToSet
    <3>5. pager' = [pager EXCEPT
            !.strategy = ThisStrategy, !.next = ThisNext, !.attempts = 0, !.fetched = ThisFetched,
            !.pages = pager.pages + 1, !.first_matched = first, !.matched_warned = matched,
            !.unsafe_warned = unsafe, !.previous_ids = ids, !.warnings = {}]
      BY <1>3, <3>2, PageTaken DEF PagerType
    <3> HIDE DEF first, matched, unsafe, ids
    <3> QED
      BY <3>1, <3>2, <3>3, <3>4, <3>5 DEF PagerType
  <2>5. /\ ByOffset(ThisStrategy) => ThisStrategy.page_size # 0
        /\ ByOffset(ThisStrategy) <=> ThisStrategy.page_size # Unknown
    BY ThisTyped
  <2> HIDE DEF ThisStrategy
  <2> QED
    BY <2>1, <2>2, <2>3, <2>4, <2>5 DEF WfsTyped, ByOffset
<1>4. CASE Handing
  <2>1. UNCHANGED <<server, options, result, snapshot, pager, log>>
    BY <1>4, HandingTaken
  <2>2. NoItem \in Items
    BY EmptySeq DEF NoItem, ErrorItem, Items
  <2>3. /\ thread' \in {"loop", "send", "ended"} /\ held' \in Items
        /\ reader' \in {"reading", "asking", "failed", "ended", "dropped", "refused"}
    BY <1>4, <2>2 DEF Handing, PagerEnds, Send, SendFails, Read, Ask, Receive, ReadEnds, Drop,
                      pagerVars, readVars, Handed, Took, WfsTyped
  <2>4. channel' \in Seq(Items)
    <3>1. channel \in Seq(Items) /\ held \in Items
      BY DEF WfsTyped
    <3>2. CASE Send
      BY <3>1, <3>2, AppendProperties DEF Send
    <3>3. CASE Receive
      BY <3>1, <3>3, HeadTailProperties DEF Receive
    <3>4. CASE Drop
      BY <3>4, EmptySeq DEF Drop
    <3>5. CASE PagerEnds \/ SendFails \/ Ask \/ ReadEnds
      BY <3>1, <3>5 DEF PagerEnds, SendFails, Ask, ReadEnds
    <3> QED
      BY <1>4, <3>2, <3>3, <3>4, <3>5 DEF Handing, Read
  <2> QED
    BY <2>1, <2>3, <2>4 DEF WfsTyped, ByOffset
<1>5. CASE UNCHANGED vars
  BY <1>5 DEF vars, pagerVars, readVars, WfsTyped, ByOffset
<1> QED
  BY <1>1, <1>2, <1>3, <1>4, <1>5, NextCases

LEMMA PageFields ==
  ASSUME WfsTyped, CompletePage
  PROVE  /\ pager'.next = ThisNext /\ pager'.strategy = ThisStrategy
         /\ pager'.fetched = ThisFetched /\ pager'.pages = pager.pages + 1
         /\ pager'.unsafe_warned <=> (pager.unsafe_warned \/ "unsafe" \in ThisWarnings)
         /\ pager.next.kind # "Done"
         /\ log' = Append(log, ThisReport) /\ Len(log) \in Nat /\ Len(log') = Len(log) + 1
         /\ \A n \in 1 .. Len(log) : log'[n] = log[n]
         /\ log'[Len(log) + 1] = ThisReport /\ log' # <<>>
         /\ ThisReport.ids = ThisPage /\ ThisReport.features = ThisFetched
         /\ ThisReport.warnings = ThisWarnings
<1>1. pager \in PagerType /\ log \in Seq(Reports)
  BY DEF WfsTyped
<1>2. /\ pager'.next = ThisNext /\ pager'.strategy = ThisStrategy
      /\ pager'.fetched = ThisFetched /\ pager'.pages = pager.pages + 1
      /\ pager'.unsafe_warned <=> (pager.unsafe_warned \/ "unsafe" \in ThisWarnings)
  BY <1>1, PageTaken DEF PagerType
<1>3. log' = Append(log, ThisReport) /\ Requesting
  BY PageTaken
<1>4. ThisReport \in Reports
  BY ThisTyped
<1>5. /\ Len(log) \in Nat /\ Len(log') = Len(log) + 1 /\ log' # <<>>
      /\ \A n \in 1 .. Len(log) : log'[n] = log[n]
      /\ log'[Len(log) + 1] = ThisReport
  BY <1>1, <1>3, <1>4, AppendProperties, LenProperties
<1>6. /\ ThisReport.ids = ThisPage /\ ThisReport.features = ThisFetched
      /\ ThisReport.warnings = ThisWarnings
  BY DEF ThisReport
<1>7. pager.next.kind # "Done"
  BY <1>3 DEF Requesting
<1> QED
  BY <1>2, <1>3, <1>5, <1>6, <1>7

-----------------------------------------------------------------------------
\* The data.

LEMMA InitData == Init => DataInv
<1>1. MatchedFirst \in Nat
  BY WfsAssumption
<1>2. Init => server.changes \in Nat
  BY WfsAssumption DEF Init, ServerType
<1> QED
  BY <1>1, <1>2 DEF Init, DataInv, NoRepeats

LEMMA StepData ==
  ASSUME WfsTyped, DataInv, [Next]_vars
  PROVE  DataInv'
<1>1. /\ result \in Seq(Nat) /\ snapshot \in Seq(Nat)
      /\ Len(result) \in Nat /\ Len(snapshot) \in Nat /\ MatchedFirst \in Nat
      /\ server.changes \in Nat
  BY LenProperties, WfsAssumption DEF WfsTyped, ServerType
<1>2. CASE Insert
  <2> DEFINE n == Len(result)
  <2>1. /\ n < MatchedFirst + server.changes /\ result' = <<n + 1>> \o result
        /\ UNCHANGED <<server, snapshot, log>>
    BY <1>2 DEF Insert, pagerVars
  <2>2. /\ Len(result') = n + 1 /\ result'[1] = n + 1
        /\ \A i \in 2 .. n + 1 : result'[i] = result[i - 1]
    BY <1>1, <2>1
  <2> HIDE DEF n
  <2>3. Len(result') \in MatchedFirst .. MatchedFirst + server.changes
    BY <1>1, <2>1, <2>2 DEF DataInv, n
  <2>4. \A i \in 1 .. n : result[i] \in 1 .. n /\ NoRepeats(result)
    BY DEF DataInv, n
  <2>5. \A i \in 1 .. n + 1 : result'[i] \in 1 .. n + 1
    <3>1. TAKE i \in 1 .. n + 1
    <3>2. CASE i = 1
      BY <1>1, <2>2, <3>2 DEF n
    <3>3. CASE i # 1
      <4>1. i - 1 \in 1 .. n /\ i \in 2 .. n + 1
        BY <1>1, <3>3 DEF n
      <4> QED
        BY <1>1, <2>2, <2>4, <4>1 DEF n
    <3> QED
      BY <3>2, <3>3
  <2>6. \A i \in 2 .. n + 1 : result'[i] \in 1 .. n
    <3>1. TAKE i \in 2 .. n + 1
    <3>2. i - 1 \in 1 .. n
      BY <1>1 DEF n
    <3> QED
      BY <2>2, <2>4, <3>2
  <2>7. NoRepeats(result')
    <3>1. ASSUME NEW i \in 1 .. n + 1, NEW j \in 1 .. n + 1, result'[i] = result'[j]
          PROVE  i = j
      <4>1. CASE i = 1 \/ j = 1
        BY <1>1, <2>2, <2>6, <3>1, <4>1 DEF n
      <4>2. CASE i # 1 /\ j # 1
        <5>1. i - 1 \in 1 .. n /\ j - 1 \in 1 .. n /\ i \in 2 .. n + 1 /\ j \in 2 .. n + 1
          BY <1>1, <4>2 DEF n
        <5>2. result[i - 1] = result[j - 1]
          BY <2>2, <3>1, <5>1
        <5>3. i - 1 = j - 1
          BY <5>1, <5>2 DEF DataInv, NoRepeats, n
        <5> QED
          BY <1>1, <5>3 DEF n
      <4> QED
        BY <4>1, <4>2
    <3> QED
      BY <2>2, <3>1 DEF NoRepeats
  <2>8. \A i \in 1 .. Len(snapshot) : snapshot[i] \in ToSet(result')
    <3>1. TAKE i \in 1 .. Len(snapshot)
    <3>2. \E k \in 1 .. n : result[k] = snapshot[i]
      <4>1. snapshot[i] \in ToSet(result) /\ DOMAIN result = 1 .. n
        BY <1>1, <3>1 DEF DataInv, n
      <4> QED
        BY <4>1 DEF ToSet
    <3>3. PICK k \in 1 .. n : result[k] = snapshot[i]
      BY <3>2
    <3>4. k + 1 \in 2 .. n + 1 /\ k + 1 - 1 = k
      BY <1>1 DEF n
    <3>6. result'[k + 1] = result[k + 1 - 1]
      BY <2>2, <3>4
    <3>7. result'[k + 1] = snapshot[i]
      BY <3>3, <3>4, <3>6
    <3>8. k + 1 \in 1 .. Len(result')
      BY <1>1, <2>2, <3>4 DEF n
    <3>5. DOMAIN result' = 1 .. Len(result')
      BY <1>1, <2>1 DEF n
    <3> QED
      BY <3>5, <3>7, <3>8 DEF ToSet
  <2>9. server.changes # 0
    BY <1>1, <2>1 DEF DataInv, n
  <2> QED
    BY <2>1, <2>2, <2>3, <2>5, <2>7, <2>8, <2>9 DEF DataInv, NoRepeats
<1>3. CASE Trouble
  BY <1>3, TroubleTaken DEF DataInv, NoRepeats, ToSet
<1>4. CASE CompletePage
  <2>1. /\ result' = result /\ server' = server /\ log' # <<>>
        /\ snapshot' = IF log = <<>> THEN result ELSE snapshot
    BY <1>4, PageTaken, PageFields
  <2>2. \A i \in 1 .. Len(result) : result[i] \in ToSet(result)
    BY <1>1 DEF ToSet
  <2>3. CASE log = <<>>
    <3>1. snapshot' = result
      BY <2>1, <2>3
    <3> QED
      BY <2>1, <2>2, <3>1 DEF DataInv, NoRepeats, ToSet
  <2>4. CASE log # <<>>
    <3>1. snapshot' = snapshot
      BY <2>1, <2>4
    <3> QED
      BY <2>1, <2>4, <3>1 DEF DataInv, NoRepeats, ToSet
  <2> QED
    BY <2>3, <2>4
<1>5. CASE Handing
  BY <1>5, HandingTaken DEF DataInv, NoRepeats, ToSet
<1>6. CASE UNCHANGED vars
  BY <1>6 DEF vars, pagerVars, DataInv, NoRepeats, ToSet
<1> QED
  BY <1>2, <1>3, <1>4, <1>5, <1>6, NextCases

-----------------------------------------------------------------------------
\* The pages.

LEMMA DataTyped ==
  WfsTyped => Data \in Seq(Nat) /\ Len(Data) \in Nat /\ Len(log) \in Nat /\ Len(snapshot) \in Nat
BY LenProperties DEF WfsTyped, Data

LEMMA BeforeTyped ==
  ASSUME WfsTyped, NEW n \in 1 .. Len(log) + 1
  PROVE  Before(log, n) \in Nat /\ \A m \in 1 .. Len(log) : log[m].features \in Nat
<1>1. \A m \in 1 .. Len(log) : log[m] \in Reports
  BY ElementOfSeq DEF WfsTyped
<1>2. \A m \in 1 .. Len(log) : log[m].features \in Nat
  BY <1>1 DEF Reports
<1>3. CASE n = 1
  BY <1>2, <1>3 DEF Before
<1>4. CASE n # 1
  <2>1. n - 1 \in 1 .. Len(log)
    BY <1>4, DataTyped
  <2> QED
    BY <1>2, <1>4, <2>1 DEF Before
<1> QED
  BY <1>3, <1>4

\* The answers are about the same data, of which the pager has a beginning.
LEMMA FetchedOfData ==
  ASSUME WfsTyped, DataInv, PagesInv, Fixed
  PROVE  Matching = Data /\ pager.fetched \in 0 .. Len(Data)
<1>1. Matching = Data
  BY DEF Matching, Data, Fixed, DataInv
<1>2. CASE log = <<>>
  <2>1. Len(log) = 0
    BY <1>2, EmptySeq
  <2>2. pager.fetched = 0
    BY <2>1 DEF PagesInv, Before
  <2> QED
    BY <1>1, <2>2, DataTyped
<1>3. CASE log # <<>>
  <2> DEFINE n == Len(log)
  <2>1. n \in Nat \ {0}
    BY <1>3, EmptySeq DEF WfsTyped
  <2>2. pager.fetched = Before(log, n + 1) /\ log[n].features <= Len(snapshot)
    BY <2>1 DEF PagesInv
  <2> HIDE DEF n
  <2>3. Before(log, n + 1) = log[n].features
    BY <2>1 DEF Before
  <2>4. log[n].features \in Nat
    BY <2>1, BeforeTyped DEF n
  <2>5. Data = snapshot
    BY <1>3 DEF Data
  <2> QED
    BY <1>1, <2>2, <2>3, <2>4, <2>5, DataTyped
<1> QED
  BY <1>2, <1>3

LEMMA PageOfData ==
  ASSUME WfsTyped, DataInv, PagesInv, Fixed, pager.next.kind # "Done"
  PROVE  /\ ThisFetched \in pager.fetched .. Len(Data)
         /\ ThisPage = SubSeq(Data, pager.fetched + 1, ThisFetched)
         /\ Len(ThisPage) = ThisFetched - pager.fetched
         /\ Len(ThisPage) = 0 => ThisFetched = Len(Data)
         /\ {server.count_default, server.limit} = {Unknown} =>
              \/ ThisFetched = Len(Data)
              \/ Asked # Unknown /\ Len(ThisPage) = Asked
<1> DEFINE start == pager.fetched
<1>1. Matching = Data /\ start \in 0 .. Len(Data) /\ pager.next.start = start
  BY FetchedOfData DEF PagesInv
<1>2. Asked \in Count /\ start \in Nat /\ Len(Data) \in Nat
  BY ThisTyped, <1>1, DataTyped
<1>3. ThisPage = Page(start, Asked)
  BY <1>1 DEF ThisPage
<1>4. ThisFetched = start + Len(ThisPage)
  BY DEF ThisFetched
<1> HIDE DEF start, ThisFetched, ThisPage, Asked, Data
<1>11. \E to \in start .. Len(Matching) :
         /\ Page(start, Asked) = SubSeq(Matching, start + 1, to)
         /\ Len(Page(start, Asked)) = to - start
         /\ to = start => to = Len(Matching)
         /\ {server.count_default, server.limit} = {Unknown} =>
              to = Len(Matching) \/ (Asked # Unknown /\ to = start + Asked)
  <2>1. start <= Len(Matching)
    BY <1>1, <1>2
  <2>2. Asked \in Count /\ start \in Nat
    BY <1>2
  <2> QED
    BY <2>1, <2>2, PageIsAPiece
<1>5. PICK to \in start .. Len(Data) :
        /\ ThisPage = SubSeq(Data, start + 1, to)
        /\ Len(ThisPage) = to - start
        /\ to = start => to = Len(Data)
        /\ {server.count_default, server.limit} = {Unknown} =>
             to = Len(Data) \/ (Asked # Unknown /\ to = start + Asked)
  BY <1>1, <1>3, <1>11
<1>6. ThisFetched = to
  BY <1>2, <1>4, <1>5
<1>7. ThisFetched \in start .. Len(Data) /\ ThisPage = SubSeq(Data, start + 1, ThisFetched)
  BY <1>5, <1>6
<1>8. Len(ThisPage) = ThisFetched - start
  BY <1>5, <1>6
<1>9. Len(ThisPage) = 0 => ThisFetched = Len(Data)
  BY <1>2, <1>5, <1>6
<1>10. {server.count_default, server.limit} = {Unknown} =>
         ThisFetched = Len(Data) \/ (Asked # Unknown /\ Len(ThisPage) = Asked)
  <2>1. SUFFICES ASSUME {server.count_default, server.limit} = {Unknown}, to # Len(Data)
                 PROVE  Asked # Unknown /\ Len(ThisPage) = Asked
    BY <1>6
  <2>2. Asked # Unknown /\ to = start + Asked
    BY <1>5, <2>1
  <2>3. Asked \in Nat
    BY <1>2, <2>2 DEF Count
  <2> QED
    BY <1>2, <1>5, <2>2, <2>3
<1> QED
  BY <1>7, <1>8, <1>9, <1>10 DEF start

LEMMA InitPages == Init => PagesInv
<1>1. SUFFICES ASSUME Init PROVE PagesInv
  OBVIOUS
<1>2. log = <<>> /\ Len(log) = 0 /\ pager.pages = 0 /\ pager.fetched = 0 /\ pager.next = FirstRequest
  BY <1>1, EmptySeq DEF Init
<1>3. FirstRequest.start = 0
  BY DEF FirstRequest, NextPage
<1> QED
  BY <1>2, <1>3 DEF PagesInv, Before

LEMMA StepPages ==
  ASSUME WfsTyped, DataInv, PagesInv, [Next]_vars
  PROVE  PagesInv'
<1>1. CASE Insert \/ Handing \/ UNCHANGED vars
  <2>1. UNCHANGED <<server, snapshot, pager, log>>
    BY <1>1, HandingTaken DEF Insert, vars, pagerVars
  <2> QED
    BY <2>1 DEF PagesInv, Before, Fixed
<1>2. CASE Trouble
  <2>1. /\ UNCHANGED <<server, snapshot, log>>
        /\ pager'.fetched = pager.fetched /\ pager'.pages = pager.pages
    BY <1>2, TroubleTaken
  <2>2. pager'.next.kind # "Done" => pager'.next.start = pager'.fetched
    <3>1. \/ pager'.next.kind = "Done"
          \/ pager'.next = pager.next
          \/ pager'.next = NextPage("StartIndex", pager.fetched, Unknown)
      BY <1>2, TroubleTaken
    <3> QED
      BY <2>1, <3>1 DEF PagesInv, NextPage
  <2> QED
    BY <2>1, <2>2 DEF PagesInv, Before, Fixed
<1>3. CASE CompletePage
  <2> DEFINE n == Len(log)
  <2>1. /\ pager'.next = ThisNext /\ pager'.fetched = ThisFetched /\ pager'.pages = pager.pages + 1
        /\ n \in Nat /\ Len(log') = n + 1 /\ \A k \in 1 .. n : log'[k] = log[k]
        /\ log'[n + 1].ids = ThisPage /\ log'[n + 1].features = ThisFetched
        /\ pager.next.kind # "Done"
    BY <1>3, PageFields
  <2>2. snapshot' = (IF log = <<>> THEN result ELSE snapshot) /\ server' = server
    BY <1>3, PageTaken
  <2>3. \A k \in 1 .. n + 1 : Before(log', k) = Before(log, k)
    <3>1. TAKE k \in 1 .. n + 1
    <3>2. k # 1 => k - 1 \in 1 .. n
      BY <2>1
    <3> QED
      BY <2>1, <3>2 DEF Before
  <2> HIDE DEF n
  <2>4. Before(log', n + 2) = ThisFetched
    <3>1. n + 2 # 1 /\ n + 2 - 1 = n + 1
      BY <2>1
    <3> QED
      BY <2>1, <3>1 DEF Before
  <2>5. pager'.next.kind # "Done" => pager'.next.start = pager'.fetched
    <3>1. ThisLink.kind # "Done" => ThisLink.start = ThisFetched
      BY <2>1 DEF ThisLink, NextPage, ThisFetched, PagesInv
    <3>2. ThisNext.kind # "Done" => ThisNext.start = ThisFetched
      BY <3>1 DEF ThisNext, NextAfter, NextPage
    <3> QED
      BY <2>1, <3>2
  <2>6. pager.pages = n /\ pager.fetched = Before(log, n + 1)
    BY DEF PagesInv, n
  <2>7. pager'.pages = Len(log') /\ pager'.fetched = Before(log', Len(log') + 1)
    <3>1. n + 1 + 1 = n + 2
      BY <2>1
    <3> QED
      BY <2>1, <2>4, <2>6, <3>1
  <2>8. ASSUME Fixed
        PROVE  \A k \in 1 .. n + 1 :
                 /\ Before(log', k) <= log'[k].features /\ log'[k].features <= Len(snapshot')
                 /\ log'[k].ids = SubSeq(snapshot', Before(log', k) + 1, log'[k].features)
    <3>1. snapshot' = Data
      BY <2>2 DEF Data
    <3>2. TAKE k \in 1 .. n + 1
    <3>3. CASE k = n + 1
      <4>1. /\ ThisFetched \in pager.fetched .. Len(Data)
            /\ ThisPage = SubSeq(Data, pager.fetched + 1, ThisFetched)
        BY <2>1, <2>8, PageOfData
      <4>2. Before(log', k) = pager.fetched /\ log'[k].features = ThisFetched /\ log'[k].ids = ThisPage
        BY <2>1, <2>3, <2>6, <3>3
      <4>3. pager.fetched <= ThisFetched /\ ThisFetched <= Len(Data)
        BY <4>1
      <4> QED
        BY <3>1, <4>1, <4>2, <4>3
    <3>4. CASE k # n + 1
      <4>1. k \in 1 .. n
        BY <2>1, <3>4
      <4>2. log # <<>>
        BY <2>1, <4>1, EmptySeq DEF n
      <4>3. snapshot' = snapshot
        BY <2>2, <4>2
      <4>4. log'[k] = log[k] /\ Before(log', k) = Before(log, k)
        BY <2>1, <2>3, <4>1
      <4> QED
        BY <2>8, <4>1, <4>3, <4>4 DEF PagesInv, n
    <3> QED
      BY <3>3, <3>4
  <2>9. Fixed' <=> Fixed
    BY <2>2 DEF Fixed
  <2> QED
    BY <2>1, <2>5, <2>7, <2>8, <2>9 DEF PagesInv
<1> QED
  BY <1>1, <1>2, <1>3, NextCases

-----------------------------------------------------------------------------
\* The warnings.

LEMMA InitUnsafe == Init => UnsafeInv
<1>1. SUFFICES ASSUME Init PROVE UnsafeInv
  OBVIOUS
<1>2. log = <<>> /\ Len(log) = 0 /\ pager.unsafe_warned = FALSE
  BY <1>1, EmptySeq DEF Init
<1> QED
  BY <1>2 DEF UnsafeInv

LEMMA StepUnsafe ==
  ASSUME WfsTyped, UnsafeInv, [Next]_vars
  PROVE  UnsafeInv'
<1>1. CASE Insert \/ Handing \/ UNCHANGED vars
  <2>1. UNCHANGED <<server, pager, log>>
    BY <1>1, HandingTaken DEF Insert, vars, pagerVars
  <2> QED
    BY <2>1 DEF UnsafeInv, Warned
<1>2. CASE Trouble
  <2>1. UNCHANGED <<server, log>> /\ pager'.unsafe_warned = pager.unsafe_warned
    BY <1>2, TroubleTaken
  <2>2. pager.next.kind # "Done"
    BY <1>2, TroubleTaken DEF Requesting
  <2> QED
    BY <2>1, <2>2 DEF UnsafeInv, Warned
<1>3. CASE CompletePage
  <2> DEFINE n == Len(log)
             m == n + 1
  <2>1. /\ pager'.next = ThisNext /\ n \in Nat /\ Len(log') = m
        /\ pager'.unsafe_warned <=> (pager.unsafe_warned \/ "unsafe" \in ThisWarnings)
        /\ \A k \in 1 .. n : log'[k] = log[k]
        /\ log'[m].warnings = ThisWarnings
        /\ pager.next.kind # "Done"
    BY <1>3, PageFields
  <2>2. server' = server
    BY <1>3, PageTaken
  <2>3. ASSUME NEW k \in 1 .. n, Warned(log, k) PROVE Warned(log', k)
    <3>1. PICK i \in 1 .. k : "unsafe" \in log[i].warnings
      BY <2>3 DEF Warned
    <3>2. i \in 1 .. n
      BY <2>1, <2>3
    <3>3. "unsafe" \in log'[i].warnings
      BY <2>1, <3>1, <3>2
    <3> QED
      BY <3>3 DEF Warned
  <2>4. "unsafe" \in ThisWarnings => Warned(log', m)
    <3>1. m \in 1 .. m
      BY <2>1
    <3> QED
      BY <2>1, <3>1 DEF Warned
  <2>5. pager.unsafe_warned => n \in 1 .. n /\ Warned(log, n)
    <3>1. SUFFICES ASSUME pager.unsafe_warned PROVE n \in 1 .. n /\ Warned(log, n)
      OBVIOUS
    <3>2. Warned(log, n)
      BY <3>1 DEF UnsafeInv
    <3>3. PICK k \in 1 .. n : TRUE
      BY <3>2 DEF Warned
    <3> QED
      BY <2>1, <3>2, <3>3
  <2>6. pager.unsafe_warned => Warned(log', n)
    BY <2>3, <2>5
  <2>7. Warned(log', n) => Warned(log', m)
    BY <2>1 DEF Warned
  <2>8. pager'.unsafe_warned => Warned(log', m)
    BY <2>1, <2>4, <2>6, <2>7
  <2>9. ASSUME server.is_2, ~server.safe
        PROVE  /\ pager'.next.kind # "Done" => pager'.unsafe_warned
               /\ \A k \in 1 .. m : k < m => Warned(log', k)
    <3>1. ThisNext.kind # "Done" => pager.unsafe_warned \/ "unsafe" \in ThisWarnings
      BY <2>9 DEF ThisWarnings, Warnings, Unsafe
    <3>2. \A k \in 1 .. n : k < n => Warned(log, k)
      BY <2>9 DEF UnsafeInv
    <3>3. log # <<>> => pager.unsafe_warned
      BY <2>1, <2>9 DEF UnsafeInv
    <3>4. ASSUME NEW k \in 1 .. m, k < m PROVE Warned(log', k)
      <4>1. k \in 1 .. n
        BY <2>1, <3>4
      <4>2. CASE k < n
        BY <2>3, <3>2, <4>1, <4>2
      <4>3. CASE k = n
        <5>1. log # <<>>
          BY <4>1, <4>3, EmptySeq
        <5> QED
          BY <2>6, <3>3, <4>3, <5>1
      <4> QED
        BY <2>1, <4>1, <4>2, <4>3
    <3> QED
      BY <2>1, <3>1, <3>4
  <2> HIDE DEF m
  <2> QED
    BY <2>1, <2>2, <2>8, <2>9 DEF UnsafeInv
<1> QED
  BY <1>1, <1>2, <1>3, NextCases

-----------------------------------------------------------------------------
\* How strategy and request go together.

LEMMA InitStrategy == Init => StrategyInv
<1>1. SUFFICES ASSUME Init PROVE StrategyInv
  OBVIOUS
<1>2. server \in ServerType /\ options \in OptionsType
  BY <1>1, WfsAssumption DEF Init
<1>3. /\ log = <<>> /\ pager.strategy = Choose /\ pager.next = FirstRequest
      /\ reader = IF Refused THEN "refused" ELSE "reading"
  BY <1>1 DEF Init
<1>4. Choose.kind = "NextLink" => options.strategy = "NextLink"
  BY <1>2, ChooseTyped
<1>5. Choose.kind = "SpatialTiling" => Refused
  BY DEF Refused
<1> HIDE DEF Choose
<1>6. /\ ByOffset(Choose) => FirstRequest.kind = "StartIndex"
      /\ Choose.kind = "Single" => FirstRequest.kind = "Url" /\ FirstRequest.count = Unknown
  BY DEF FirstRequest, NextPage, ByOffset
<1> QED
  BY <1>3, <1>4, <1>5, <1>6 DEF StrategyInv

LEMMA StepStrategy ==
  ASSUME WfsTyped, StrategyInv, [Next]_vars
  PROVE  StrategyInv'
<1>1. CASE Insert \/ UNCHANGED vars
  <2>1. UNCHANGED <<server, options, pager, log, reader>>
    BY <1>1 DEF Insert, vars, pagerVars, readVars
  <2> QED
    BY <2>1 DEF StrategyInv, ByOffset
<1>2. CASE Handing
  <2>1. UNCHANGED <<server, options, pager, log>>
    BY <1>2, HandingTaken
  <2>2. reader = "refused" => reader' = "refused"
    BY <1>2 DEF Handing, PagerEnds, Send, SendFails, Read, Ask, Receive, ReadEnds, Drop, readVars
  <2> QED
    BY <2>1, <2>2 DEF StrategyInv, ByOffset
<1>3. CASE Trouble
  <2>1. UNCHANGED <<server, options, reader, log>>
    BY <1>3, TroubleTaken
  <2>2. pager.next.kind # "Done"
    BY <1>3, TroubleTaken DEF Requesting
  <2>3. CASE pager'.next.kind = "Done" /\ pager'.strategy = pager.strategy
    BY <2>1, <2>3 DEF StrategyInv
  <2>4. CASE pager'.next = pager.next /\ pager'.strategy.kind = pager.strategy.kind
    BY <2>1, <2>2, <2>4 DEF StrategyInv, ByOffset
  <2>5. CASE /\ pager'.next = NextPage("StartIndex", pager.fetched, Unknown)
             /\ pager'.strategy.kind = "StartIndex"
    BY <2>1, <2>5 DEF StrategyInv, ByOffset, NextPage
  <2> QED
    BY <1>3, <2>3, <2>4, <2>5, TroubleTaken
<1>4. CASE CompletePage
  <2>1. /\ pager'.next = ThisNext /\ pager'.strategy = ThisStrategy
        /\ UNCHANGED <<server, options, reader>>
    BY <1>4, PageFields, PageTaken
  <2>2. \/ ThisStrategy = pager.strategy
        \/ ThisStrategy.kind = "NextLink" /\ ThisLink.kind = "Url"
    BY DEF ThisStrategy, TakenUp
  <2>3. ThisLink.kind = "Url" => server.links
    BY DEF ThisLink, HasNext, NextPage
  <2>4. ByOffset(ThisStrategy) => ThisNext.kind \in {"StartIndex", "Done"}
    BY DEF ThisNext, NextAfter, NextPage, ByOffset
  <2>5. ThisStrategy.kind = "Single" => ThisNext.kind = "Done"
    BY DEF ThisNext, NextAfter, NextPage, ByOffset
  <2> HIDE DEF ThisStrategy, ThisNext, ThisLink
  <2> QED
    BY <2>1, <2>2, <2>3, <2>4, <2>5 DEF StrategyInv
<1> QED
  BY <1>1, <1>2, <1>3, <1>4, NextCases

-----------------------------------------------------------------------------
\* The end of the pages.

\* The page after which the pager is done has the last of the features, or is reported as short.
LEMMA LastPage ==
  ASSUME WfsTyped, DataInv, PagesInv, StrategyInv, Counting, Requesting, ThisNext.kind = "Done"
  PROVE  ThisFetched = Len(result) \/ "short" \in ThisWarnings
<1>1. Fixed /\ server.changes = 0 /\ options.strategy # "NextLink" /\ pager.next.kind # "Done"
  BY DEF Counting, Fixed, Requesting
<1>2. Matching = Data /\ Data = result
  BY <1>1, FetchedOfData DEF Data, DataInv
<1>3. /\ ThisFetched \in pager.fetched .. Len(result)
      /\ Len(ThisPage) = ThisFetched - pager.fetched
      /\ Len(ThisPage) = 0 => ThisFetched = Len(result)
      /\ {server.count_default, server.limit} = {Unknown} =>
              ThisFetched = Len(result) \/ (Asked # Unknown /\ Len(ThisPage) = Asked)
  BY <1>1, <1>2, PageOfData
<1>4. Len(result) \in Nat /\ pager.fetched \in Nat /\ ThisFetched \in Nat /\ Len(ThisPage) \in Nat
  BY ThisTyped, LenProperties DEF WfsTyped, PagerType
<1>5. Matched = IF server.matched THEN Len(result) ELSE Unknown
  BY <1>2 DEF Matched
<1>6. ~server.matched => {server.count_default, server.limit} = {Unknown}
  BY DEF Counting
<1>7. /\ ThisStrategy \in [kind: Kinds, page_size: Count]
      /\ ByOffset(ThisStrategy) => ThisStrategy.page_size \in Nat \ {0}
  BY ThisTyped DEF Count
<1>8. ThisStrategy = pager.strategy \/ (ThisStrategy.kind = "NextLink" /\ ThisLink.kind = "Url")
  BY DEF ThisStrategy, TakenUp
<1>9. pager.next.start = pager.fetched
  BY <1>1 DEF PagesInv
<1>10. CASE ThisStrategy.kind = "NextLink"
  <2>1. ThisLink.kind = "Done"
    BY <1>10 DEF ThisNext, NextAfter
  <2>2. server.links
    BY <1>1, <1>8, <1>10, <2>1 DEF StrategyInv
  <2>3. ~HasNext(pager.next.start, Asked)
    BY <2>1 DEF ThisLink, NextPage
  <2>4. ~(pager.fetched + Len(ThisPage) < Len(result))
    BY <1>2, <1>9, <2>2, <2>3 DEF HasNext, ThisPage
  <2> QED
    BY <1>3, <1>4, <2>4
<1>11. CASE ByOffset(ThisStrategy)
  <2>1. ThisStrategy = pager.strategy
    BY <1>8, <1>11 DEF ByOffset
  <2>2. Asked = ThisStrategy.page_size
    BY <1>1, <1>11, <2>1 DEF StrategyInv, Asked
  <2>3. ~(/\ Len(ThisPage) # 0
          /\ IF Matched # Unknown THEN ThisFetched < Matched
             ELSE Len(ThisPage) >= ThisStrategy.page_size)
    BY <1>11 DEF ThisNext, NextAfter, NextPage, ByOffset
  <2>4. CASE Len(ThisPage) = 0
    BY <1>3, <2>4
  <2>5. CASE server.matched /\ Len(ThisPage) # 0
    <3>1. Matched = Len(result) /\ Matched # Unknown
      BY <1>4, <1>5, <2>5 DEF Unknown
    <3> QED
      BY <1>3, <1>4, <2>3, <2>5, <3>1
  <2>6. CASE ~server.matched /\ Len(ThisPage) # 0
    <3>1. ~(Len(ThisPage) >= ThisStrategy.page_size)
      BY <1>5, <2>3, <2>6
    <3>2. Len(ThisPage) # Asked
      BY <1>4, <1>7, <1>11, <2>2, <3>1
    <3> QED
      BY <1>3, <1>6, <2>6, <3>2
  <2> QED
    BY <2>4, <2>5, <2>6
<1>12. CASE ThisStrategy.kind = "Single"
  <2>1. ThisStrategy = pager.strategy /\ log = <<>> /\ Asked = Unknown
    BY <1>1, <1>8, <1>12 DEF StrategyInv, Asked
  <2>2. pager.fetched = 0
    <3>1. Len(log) = 0
      BY <2>1, EmptySeq
    <3> QED
      BY <3>1 DEF PagesInv, Before
  <2>3. ThisFetched = Len(ThisPage)
    BY <1>3, <1>4, <2>2
  <2>4. CASE server.matched
    <3>1. Matched = Len(result) /\ Matched # Unknown
      BY <1>4, <1>5, <2>4 DEF Unknown
    <3>2. Len(ThisPage) < Len(result) => "short" \in ThisWarnings
      BY <1>12, <3>1 DEF ThisWarnings, Warnings, Short
    <3> QED
      BY <1>3, <1>4, <2>3, <3>2
  <2>5. CASE ~server.matched
    BY <1>3, <1>6, <2>1, <2>5
  <2> QED
    BY <2>4, <2>5
<1>13. CASE ThisStrategy.kind = "SpatialTiling"
  <2>1. reader = "refused"
    BY <1>8, <1>13 DEF StrategyInv
  <2> QED
    BY <2>1 DEF Requesting
<1> QED
  BY <1>7, <1>10, <1>11, <1>12, <1>13 DEF Kinds, ByOffset

LEMMA InitEnd == Init => EndInv
<1>1. SUFFICES ASSUME Init PROVE EndInv
  OBVIOUS
<1>2. thread = "loop" /\ reader \in {"reading", "refused"} /\ pager.next = FirstRequest
  BY <1>1 DEF Init
<1>3. FirstRequest.kind # "Done"
  BY DEF FirstRequest, NextPage
<1> QED
  BY <1>2, <1>3 DEF EndInv

\* An error stays on its way until the read has it.
LEMMA ErrorStays ==
  ASSUME WfsTyped, Handing, ErrorComes
  PROVE  ErrorComes'
<1>1. channel \in Seq(Items) /\ held \in Items /\ Len(channel) \in Nat
  BY LenProperties DEF WfsTyped
<1>2. CASE Send
  <2>1. /\ thread = "send" /\ channel' = Append(channel, held) /\ reader' = reader
    BY <1>2 DEF Send, readVars
  <2>2. /\ Len(channel') = Len(channel) + 1
        /\ \A i \in 1 .. Len(channel) : channel'[i] = channel[i]
        /\ channel'[Len(channel) + 1] = held
    BY <1>1, <2>1, AppendProperties
  <2>3. CASE ~held.ok
    <3>1. Len(channel) + 1 \in 1 .. Len(channel')
      BY <1>1, <2>2
    <3> QED
      BY <2>2, <2>3, <3>1 DEF ErrorComes
  <2>4. CASE \E i \in 1 .. Len(channel) : ~channel[i].ok
    <3>1. PICK i \in 1 .. Len(channel) : ~channel[i].ok
      BY <2>4
    <3>2. i \in 1 .. Len(channel') /\ ~channel'[i].ok
      BY <1>1, <2>2, <3>1
    <3> QED
      BY <3>2 DEF ErrorComes
  <2>5. CASE reader \in {"failed", "dropped"}
    BY <2>1, <2>5 DEF ErrorComes
  <2> QED
    BY <2>3, <2>4, <2>5 DEF ErrorComes
<1>3. CASE Receive
  <2>1. reader = "asking"
    BY <1>3 DEF Receive
  <2>2. CASE /\ channel # <<>> /\ Took(Head(channel)) /\ channel' = Tail(channel)
             /\ UNCHANGED <<thread, held>>
    <3>1. /\ Len(channel') = Len(channel) - 1 /\ Head(channel) = channel[1]
          /\ \A i \in 1 .. Len(channel') : channel'[i] = channel[i + 1]
      BY <1>1, <2>2, HeadTailProperties
    <3>2. CASE ~Head(channel).ok
      BY <2>2, <3>2 DEF Took, ErrorComes
    <3>3. CASE thread = "send" /\ ~held.ok
      BY <2>2, <3>3 DEF ErrorComes
    <3>4. CASE Head(channel).ok /\ \E i \in 1 .. Len(channel) : ~channel[i].ok
      <4>1. PICK i \in 1 .. Len(channel) : ~channel[i].ok
        BY <3>4
      <4>2. i # 1
        BY <3>1, <3>4, <4>1
      <4>3. i - 1 \in 1 .. Len(channel') /\ i - 1 + 1 = i
        BY <1>1, <3>1, <4>1, <4>2
      <4>4. ~channel'[i - 1].ok
        BY <3>1, <4>1, <4>3
      <4> QED
        BY <4>3, <4>4 DEF ErrorComes
    <3> QED
      BY <2>1, <3>2, <3>3, <3>4 DEF ErrorComes
  <2>3. CASE /\ channel = <<>> /\ thread = "send" /\ Took(held) /\ Handed
    <3>1. Len(channel) = 0
      BY <2>3, EmptySeq
    <3>2. ~held.ok
      BY <2>1, <3>1 DEF ErrorComes
    <3> QED
      BY <2>3, <3>2 DEF Took, ErrorComes
  <2> QED
    BY <1>3, <2>2, <2>3 DEF Receive
<1>4. CASE Drop
  BY <1>4 DEF Drop, ErrorComes
<1>5. CASE SendFails
  BY <1>5 DEF SendFails, ErrorComes, readVars
<1>6. CASE PagerEnds \/ Ask \/ ReadEnds
  <2>1. UNCHANGED <<held, channel>> /\ (thread = "send" => thread' = "send")
    BY <1>6 DEF PagerEnds, Ask, ReadEnds, readVars, pagerVars
  <2>2. reader \in {"failed", "dropped"} => reader' = reader
    BY <1>6 DEF PagerEnds, Ask, ReadEnds, readVars, pagerVars
  <2> QED
    BY <2>1, <2>2 DEF ErrorComes
<1> QED
  BY <1>2, <1>3, <1>4, <1>5, <1>6 DEF Handing, Read

LEMMA StepEnd ==
  ASSUME WfsTyped, DataInv, PagesInv, StrategyInv, EndInv, [Next]_vars
  PROVE  EndInv'
<1>1. CASE UNCHANGED vars
  BY <1>1 DEF vars, pagerVars, readVars, EndInv, Counting, Complete, ErrorComes
<1>2. CASE Insert
  <2>1. /\ UNCHANGED <<server, options, pager, thread, held, channel, reader, log>>
        /\ Len(result) < MatchedFirst + server.changes
    BY <1>2 DEF Insert, pagerVars, readVars
  <2>2. ~Counting
    <3>1. server.changes = 0 => MatchedFirst <= Len(result) /\ Len(result) \in Nat
      BY LenProperties DEF DataInv, WfsTyped
    <3>2. MatchedFirst \in Nat
      BY WfsAssumption
    <3> QED
      BY <2>1, <3>1, <3>2 DEF Counting
  <2> QED
    BY <2>1, <2>2 DEF EndInv, Counting
<1>3. CASE Trouble
  <2>1. /\ UNCHANGED <<server, options, result, channel, reader, log>>
        /\ thread = "loop" /\ pager.next.kind # "Done"
    BY <1>3, TroubleTaken DEF Requesting
  <2>2. CASE pager'.next.kind = "Done" /\ held' = ErrorItem /\ thread' = "send"
    BY <2>1, <2>2 DEF EndInv, ErrorComes, ErrorItem
  <2>3. CASE thread' = thread /\ pager'.next.kind # "Done"
    BY <2>1, <2>3 DEF EndInv
  <2> QED
    BY <1>3, <2>1, <2>2, <2>3, TroubleTaken DEF NextPage
<1>4. CASE CompletePage
  <2>1. /\ UNCHANGED <<server, options, result, channel, reader>> /\ thread' = "send"
        /\ Requesting /\ thread = "loop"
    BY <1>4, PageTaken DEF Requesting
  <2>2. /\ pager'.next = ThisNext /\ pager'.fetched = ThisFetched
        /\ Len(log) \in Nat /\ Len(log') = Len(log) + 1
        /\ log'[Len(log) + 1].warnings = ThisWarnings
    BY <1>4, PageFields
  <2>3. Counting /\ pager'.next.kind = "Done" => Complete'
    <3>1. SUFFICES ASSUME Counting, pager'.next.kind = "Done" PROVE Complete'
      OBVIOUS
    <3>2. ThisFetched = Len(result) \/ "short" \in ThisWarnings
      BY <2>1, <2>2, <3>1, LastPage
    <3>3. Len(log) + 1 \in 1 .. Len(log')
      BY <2>2
    <3> QED
      BY <2>1, <2>2, <3>2, <3>3 DEF Complete
  <2>4. Counting' <=> Counting
    BY <2>1 DEF Counting
  <2> QED
    BY <2>1, <2>3, <2>4 DEF EndInv
<1>5. CASE Handing
  <2>1. UNCHANGED <<server, options, result, pager, log>>
    BY <1>5, HandingTaken
  <2>2. thread' = "ended" => pager'.next.kind = "Done" \/ reader' = "dropped"
    BY <1>5, <2>1 DEF Handing, PagerEnds, Send, SendFails, Read, Ask, Receive, ReadEnds, Drop,
                      readVars, pagerVars, Handed, Took, EndInv
  <2>3. reader' = "ended" => channel' = <<>> /\ thread' = "ended"
    BY <1>5, <2>1 DEF Handing, PagerEnds, Send, SendFails, Read, Ask, Receive, ReadEnds, Drop,
                      readVars, pagerVars, Handed, Took, EndInv
  <2>4. (Counting' <=> Counting) /\ (Complete' <=> Complete)
    BY <2>1 DEF Counting, Complete
  <2> QED
    BY <1>5, <2>1, <2>2, <2>3, <2>4, ErrorStays DEF EndInv
<1> QED
  BY <1>1, <1>2, <1>3, <1>4, <1>5, NextCases

-----------------------------------------------------------------------------
\* What the invariant says of the pages together.

LEMMA DeliveredIsABeginning ==
  ASSUME WfsTyped, DataInv, PagesInv, Fixed
  PROVE  Delivered = SubSeq(Data, 1, pager.fetched)
<1> DEFINE n == Len(log)
           seqs == [i \in DOMAIN log |-> log[i].ids]
           at == [i \in 0 .. n |-> Before(log, i + 1)]
<1>1. n \in Nat /\ DOMAIN log = 1 .. n /\ Data \in Seq(Nat) /\ Len(Data) \in Nat
  BY DataTyped, LenProperties DEF WfsTyped
<1>2. pager.fetched = Before(log, n + 1)
  BY DEF PagesInv
<1>3. Delivered = FlattenSeq(seqs)
  BY DEF Delivered
<1>4. \A i \in 1 .. n : log[i].ids \in Seq(Nat)
  <2>1. \A i \in 1 .. n : log[i] \in Reports
    BY ElementOfSeq DEF WfsTyped
  <2> QED
    BY <2>1 DEF Reports
<1>5. Len(seqs) = n
  BY <1>1
<1>6. CASE n = 0
  <2>1. pager.fetched = 0
    BY <1>2, <1>6 DEF Before
  <2>2. SubSeq(Data, 1, 0) = <<>>
    BY SubSeqEmpty
  <2>3. FlattenSeq(seqs) = seqs
    BY <1>5, <1>6 DEF FlattenSeq
  <2>4. seqs = <<>>
    BY <1>1, <1>6
  <2> QED
    BY <1>3, <2>1, <2>2, <2>3, <2>4
<1>7. CASE n # 0
  <2>1. log # <<>> /\ Data = snapshot
    BY <1>7, EmptySeq DEF Data
  <2>2. \A i \in 1 .. n :
          /\ Before(log, i) <= log[i].features /\ log[i].features <= Len(Data)
          /\ log[i].ids = SubSeq(Data, Before(log, i) + 1, log[i].features)
    BY <2>1 DEF PagesInv
  <2>3. \A i \in 1 .. n : Before(log, i + 1) = log[i].features
    <3>1. \A i \in 1 .. n : i + 1 # 1 /\ i + 1 - 1 = i
      BY <1>1
    <3> QED
      BY <3>1 DEF Before
  <2>4. Before(log, 0 + 1) = 0
    BY DEF Before
  <2>5. \A i \in 1 .. n + 1 : Before(log, i) \in Nat
    BY BeforeTyped
  <2>6. ASSUME NEW i \in 0 .. n PROVE at[i] \in 0 .. Len(Data)
    <3>1. at[i] = Before(log, i + 1) /\ i + 1 \in 1 .. n + 1
      BY <1>1
    <3>2. Before(log, i + 1) <= Len(Data)
      <4>1. CASE i = 0
        BY <1>1, <2>4, <4>1
      <4>2. CASE i # 0
        BY <1>1, <2>2, <2>3, <4>2
      <4> QED
        BY <4>1, <4>2
    <3> QED
      BY <1>1, <2>5, <3>1, <3>2
  <2>7. at \in [0 .. n -> 0 .. Len(Data)]
    <3> HIDE DEF n
    <3> QED
      BY <2>6
  <2>8. at[0] = 0
    BY <1>1, <2>4
  <2>9. ASSUME NEW i \in 1 .. n
        PROVE  at[i - 1] <= at[i] /\ seqs[i] = SubSeq(Data, at[i - 1] + 1, at[i])
    <3>1. i - 1 \in 0 .. n /\ i \in 0 .. n /\ i - 1 + 1 = i
      BY <1>1
    <3>2. at[i - 1] = Before(log, i) /\ at[i] = log[i].features
      BY <2>3, <3>1
    <3>3. seqs[i] = log[i].ids
      BY <1>1
    <3> QED
      BY <2>2, <3>2, <3>3
  <2>10. n \in Nat \ {0}
    BY <1>1, <1>7
  <2>11. at[n] = pager.fetched
    BY <1>1, <1>2
  <2> HIDE DEF n, seqs, at
  <2>12. FlattenSeq(seqs) = SubSeq(Data, 1, at[n])
    BY <1>1, <1>5, <2>7, <2>8, <2>9, <2>10, PiecesFlatten
  <2> QED
    BY <1>3, <2>11, <2>12
<1> QED
  BY <1>6, <1>7

\* The pages of one result have no feature in common.
LEMMA PagesDisjoint ==
  ASSUME WfsTyped, DataInv, PagesInv, Fixed,
         NEW m \in 1 .. Len(log), NEW n \in 1 .. Len(log), m < n
  PROVE  ToSet(log[m].ids) \cap ToSet(log[n].ids) = {}
<1>1. Len(log) \in Nat /\ snapshot \in Seq(Nat) /\ Len(snapshot) \in Nat
  BY DataTyped DEF WfsTyped
<1>2. \A k \in 1 .. Len(log) : log[k].features \in Nat
  BY <1>1, BeforeTyped
<1>3. \A k \in 1 .. Len(log) :
        /\ Before(log, k) \in Nat
        /\ Before(log, k) <= log[k].features /\ log[k].features <= Len(snapshot)
        /\ log[k].ids = SubSeq(snapshot, Before(log, k) + 1, log[k].features)
  BY <1>1, BeforeTyped DEF PagesInv
<1>4. log[m].features <= Before(log, n)
  <2> DEFINE S == {d \in Nat : m + d + 1 \in 1 .. Len(log) => log[m].features <= Before(log, m + d + 1)}
  <2>1. \A k \in 1 .. Len(log) : Before(log, k + 1) = log[k].features
    <3>1. \A k \in 1 .. Len(log) : k + 1 # 1 /\ k + 1 - 1 = k
      BY <1>1
    <3> QED
      BY <3>1 DEF Before
  <2>2. 0 \in S
    <3>1. m + 0 + 1 = m + 1
      OBVIOUS
    <3> QED
      BY <1>2, <2>1, <3>1
  <2>3. ASSUME NEW d \in S PROVE d + 1 \in S
    <3>1. SUFFICES ASSUME m + (d + 1) + 1 \in 1 .. Len(log)
                   PROVE  log[m].features <= Before(log, m + (d + 1) + 1)
      OBVIOUS
    <3> DEFINE k == m + d + 1
    <3>2. k \in 1 .. Len(log) /\ m + (d + 1) + 1 = k + 1
      BY <1>1, <3>1
    <3>3. log[m].features <= Before(log, k)
      BY <3>2
    <3> HIDE DEF k
    <3>4. Before(log, k) <= log[k].features /\ Before(log, k + 1) = log[k].features
      BY <1>3, <2>1, <3>2
    <3>5. log[m].features \in Nat /\ Before(log, k) \in Nat /\ log[k].features \in Nat
      BY <1>2, <1>3, <3>2
    <3>6. log[m].features <= Before(log, k + 1)
      <4> DEFINE x == log[m].features
                 y == Before(log, k)
                 z == log[k].features
      <4>1. x \in Nat /\ y \in Nat /\ z \in Nat /\ x <= y /\ y <= z /\ Before(log, k + 1) = z
        BY <3>3, <3>4, <3>5
      <4> HIDE DEF x, y, z
      <4>2. x <= z
        BY <4>1
      <4> QED
        BY <4>1, <4>2 DEF x
    <3> QED
      BY <3>2, <3>6
  <2>4. S \in SUBSET Nat
    OBVIOUS
  <2>5. S = Nat
    <3> HIDE DEF S
    <3> QED
      BY <2>2, <2>3, <2>4, Induction
  <2>6. n - m - 1 \in Nat /\ m + (n - m - 1) + 1 = n
    OBVIOUS
  <2>7. n - m - 1 \in S
    <3> HIDE DEF S
    <3> QED
      BY <2>5, <2>6
  <2> QED
    BY <2>6, <2>7
<1>5. ASSUME NEW k \in 1 .. Len(log), NEW id \in ToSet(log[k].ids)
      PROVE  \E p \in Before(log, k) + 1 .. log[k].features : snapshot[p] = id
  <2> DEFINE from == Before(log, k)
             to == log[k].features
             ids == log[k].ids
  <2>1. /\ from \in Nat /\ to \in Nat /\ from <= to /\ to <= Len(snapshot)
        /\ ids = SubSeq(snapshot, from + 1, to)
    BY <1>2, <1>3
  <2> HIDE DEF from, to
  <2>2. /\ ids \in Seq(Nat) /\ Len(ids) = to - from
        /\ \A i \in 1 .. to - from : ids[i] = snapshot[from + i]
    <3>1. /\ SubSeq(snapshot, from + 1, to) \in Seq(Nat)
          /\ Len(SubSeq(snapshot, from + 1, to)) = IF from <= to THEN to - from ELSE 0
          /\ \A i \in 1 .. to - from : SubSeq(snapshot, from + 1, to)[i] = snapshot[from + i]
      BY <1>1, <2>1, PieceOf
    <3> HIDE DEF ids
    <3> QED
      BY <2>1, <3>1
  <2>3. PICK i \in 1 .. to - from : ids[i] = id
    <3>1. DOMAIN ids = 1 .. to - from
      BY <2>2, LenProperties
    <3> QED
      BY <1>5, <3>1 DEF ToSet
  <2>4. from + i \in from + 1 .. to
    BY <2>1
  <2>5. snapshot[from + i] = id
    BY <2>2, <2>3
  <2> QED
    BY <2>4, <2>5 DEF from, to
<1>6. ASSUME NEW id \in ToSet(log[m].ids), id \in ToSet(log[n].ids) PROVE FALSE
  <2>1. PICK p \in Before(log, m) + 1 .. log[m].features : snapshot[p] = id
    BY <1>5, <1>6
  <2>2. PICK q \in Before(log, n) + 1 .. log[n].features : snapshot[q] = id
    BY <1>5, <1>6
  <2>3. /\ Before(log, m) \in Nat /\ Before(log, n) \in Nat
        /\ log[m].features \in Nat /\ log[n].features \in Nat
        /\ log[m].features <= Len(snapshot) /\ log[n].features <= Len(snapshot)
    BY <1>2, <1>3
  <2>4. p \in 1 .. Len(snapshot) /\ q \in 1 .. Len(snapshot) /\ p # q
    <3> DEFINE a == Before(log, m)
               b == log[m].features
               c == Before(log, n)
               d == log[n].features
    <3>1. /\ a \in Nat /\ b \in Nat /\ c \in Nat /\ d \in Nat
          /\ b <= Len(snapshot) /\ d <= Len(snapshot) /\ b <= c
          /\ p \in a + 1 .. b /\ q \in c + 1 .. d
      BY <1>4, <2>1, <2>2, <2>3
    <3> HIDE DEF a, b, c, d
    <3>2. p \in 1 .. Len(snapshot)
      BY <1>1, <3>1
    <3>3. q \in 1 .. Len(snapshot)
      BY <1>1, <3>1
    <3>4. p # q
      BY <3>1
    <3> QED
      BY <3>2, <3>3, <3>4
  <2> QED
    BY <2>1, <2>2, <2>4 DEF DataInv, NoRepeats
<1> QED
  BY <1>6

-----------------------------------------------------------------------------
\* The invariant, and what follows from it.

LEMMA InvInit == Init => WfsInv
BY InitTyped, InitData, InitPages, InitUnsafe, InitStrategy, InitEnd DEF WfsInv

LEMMA InvStep == WfsInv /\ [Next]_vars => WfsInv'
BY StepTyped, StepData, StepPages, StepUnsafe, StepStrategy, StepEnd DEF WfsInv

LEMMA InvHolds == Spec => []WfsInv
BY InvInit, InvStep, PTL DEF Spec

LEMMA TypeFollows == WfsInv => TypeOK
<1>1. SUFFICES ASSUME WfsInv PROVE TypeOK
  OBVIOUS
<1>2. /\ WfsTyped /\ DataInv /\ result \in Seq(Nat) /\ snapshot \in Seq(Nat) /\ pager \in PagerType
      /\ MatchedFirst \in Nat /\ server.changes \in Nat
  BY <1>1, WfsAssumption DEF WfsInv, WfsTyped, ServerType
<1>3. ToSet(result) \subseteq 1 .. MatchedFirst + server.changes
  <2>1. /\ \A i \in 1 .. Len(result) : result[i] \in 1 .. Len(result)
        /\ Len(result) <= MatchedFirst + server.changes /\ Len(result) \in Nat
    BY <1>2, LenProperties DEF DataInv
  <2>2. DOMAIN result = 1 .. Len(result)
    BY <1>2, LenProperties
  <2>3. \A i \in 1 .. Len(result) : result[i] \in 1 .. MatchedFirst + server.changes
    BY <1>2, <2>1
  <2> QED
    BY <2>2, <2>3 DEF ToSet
<1>4. ToSet(snapshot) \subseteq ToSet(result)
  <2>1. DOMAIN snapshot = 1 .. Len(snapshot)
    BY <1>2, LenProperties
  <2>2. \A i \in 1 .. Len(snapshot) : snapshot[i] \in ToSet(result)
    BY <1>2 DEF DataInv
  <2> QED
    BY <2>1, <2>2 DEF ToSet
<1>5. /\ pager.strategy.kind \in Kinds
      /\ ByOffset(pager.strategy) <=> pager.strategy.page_size \in Nat \ {0}
      /\ pager.next \in Places /\ pager.attempts \in Nat /\ pager.fetched \in Nat
  BY <1>2 DEF WfsTyped, PagerType, Count, Unknown
<1>6. pager.pages = Len(log)
  BY <1>1 DEF WfsInv, PagesInv
<1> QED
  BY <1>2, <1>3, <1>4, <1>5, <1>6 DEF TypeOK, WfsTyped, Kinds, Places

LEMMA NothingTwiceFollows == WfsInv => NothingTwice
<1>1. SUFFICES ASSUME WfsInv, server.changes = 0 PROVE IsPrefix(Delivered, result)
  BY DEF NothingTwice
<1>2. WfsTyped /\ DataInv /\ PagesInv /\ Fixed
  BY <1>1 DEF WfsInv, Fixed
<1>3. Data = result
  BY <1>1, <1>2 DEF Data, DataInv
<1>4. Delivered = SubSeq(result, 1, pager.fetched) /\ pager.fetched \in 0 .. Len(result)
  BY <1>2, <1>3, DeliveredIsABeginning, FetchedOfData
<1>5. result \in Seq(Nat) /\ Len(result) \in Nat
  BY <1>2, LenProperties DEF WfsTyped
<1> DEFINE n == pager.fetched
<1>6. n \in 0 .. Len(result) /\ Delivered = SubSeq(result, 1, n)
  BY <1>4
<1> HIDE DEF n
<1>7. Delivered \in Seq(Nat) /\ Len(Delivered) = n
  <2>1. SubSeq(result, 0 + 1, n) \in Seq(Nat) /\ Len(SubSeq(result, 0 + 1, n)) = n - 0
    BY <1>5, <1>6, PieceOf
  <2>2. 0 + 1 = 1 /\ n - 0 = n
    BY <1>5, <1>6
  <2> QED
    BY <1>6, <2>1, <2>2
<1>8. SubSeq(Delivered, 1, n) = Delivered
  BY <1>7
<1> QED
  BY <1>5, <1>6, <1>7, <1>8 DEF IsPrefix

LEMMA NothingLostFollows == WfsInv => NothingLostSilently
<1>1. SUFFICES ASSUME WfsInv, reader = "ended", Counting
               PROVE  Delivered = result \/ \E n \in DOMAIN log : "short" \in log[n].warnings
  BY DEF NothingLostSilently, Counting
<1>2. WfsTyped /\ DataInv /\ PagesInv /\ EndInv /\ Fixed
  BY <1>1 DEF WfsInv, Fixed, Counting
<1>3. channel = <<>> /\ thread = "ended" /\ pager.next.kind = "Done"
  BY <1>1, <1>2 DEF EndInv
<1>4. ~ErrorComes
  <2>1. Len(channel) = 0
    BY <1>3, EmptySeq
  <2> QED
    BY <1>1, <1>3, <2>1 DEF ErrorComes
<1>5. Complete
  BY <1>1, <1>2, <1>3, <1>4 DEF EndInv
<1>6. CASE pager.fetched = Len(result)
  <2>1. Data = result
    BY <1>1, <1>2 DEF Data, DataInv, Counting
  <2>2. Delivered = SubSeq(result, 1, Len(result))
    BY <1>2, <1>6, <2>1, DeliveredIsABeginning
  <2>3. result \in Seq(Nat)
    BY <1>2 DEF WfsTyped
  <2> QED
    BY <2>2, <2>3
<1>7. CASE \E n \in 1 .. Len(log) : "short" \in log[n].warnings
  <2>1. DOMAIN log = 1 .. Len(log)
    BY <1>2, LenProperties DEF WfsTyped
  <2> QED
    BY <1>7, <2>1
<1> QED
  BY <1>5, <1>6, <1>7 DEF Complete

LEMMA RepeatsFollow == WfsInv => RepeatsForetold
<1>1. SUFFICES ASSUME WfsInv, NEW m \in DOMAIN log, NEW n \in DOMAIN log, m < n, server.is_2,
                      ToSet(log[m].ids) \cap ToSet(log[n].ids) # {}
               PROVE  \E k \in 1 .. m : "unsafe" \in log[k].warnings
  BY DEF RepeatsForetold
<1>2. WfsTyped /\ DataInv /\ PagesInv /\ UnsafeInv
  BY <1>1 DEF WfsInv
<1>3. DOMAIN log = 1 .. Len(log) /\ Len(log) \in Nat
  BY <1>2, LenProperties DEF WfsTyped
<1>4. ~Fixed
  BY <1>1, <1>2, <1>3, PagesDisjoint
<1>5. ~server.safe
  BY <1>4 DEF Fixed
<1>6. m \in 1 .. Len(log) /\ m < Len(log)
  BY <1>1, <1>3
<1>7. Warned(log, m)
  BY <1>1, <1>2, <1>5, <1>6 DEF UnsafeInv
<1> QED
  BY <1>7 DEF Warned

\* The values stay of their types; a page size is never 0, however often halve_page_size was at it.
THEOREM WfsTypeCorrect == Spec => []TypeOK
BY InvHolds, TypeFollows, PTL

\* Whatever is truncated and asked for again, in halves or at an offset after the server forgot its
\* `next` links (next_page, resume_after), the pages are the beginning of data that stays as it is.
THEOREM NothingTwiceHolds == Spec => []NothingTwice
BY InvHolds, NothingTwiceFollows, PTL

\* A read whose pages end without an error has every feature of such data, or said that it has not
\* (next_page of paging.rs and the warning of a single request that was cut short).
THEOREM NothingLostSilentlyHolds == Spec => []NothingLostSilently
BY InvHolds, NothingLostFollows, PTL

\* after_page warns of a server that is not transaction-safe no later than with the first of two
\* pages that have a feature in common.
THEOREM RepeatsForetoldHolds == Spec => []RepeatsForetold
BY InvHolds, RepeatsFollow, PTL

=============================================================================
