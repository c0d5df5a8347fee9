---------------------------- MODULE RemoteSource ----------------------------
(***************************************************************************)
(* Reads from a server: HttpClient's three requests with their retries     *)
(* (xeibe-io/src/http.rs) and the object store's download task with its    *)
(* channel and reader (xeibe-io/src/object_store.rs).                      *)
(*                                                                         *)
(* The byte at position i of the file is i.  What the HTTP client and the  *)
(* store do is external: a response is the file, the range that was asked  *)
(* for, an error status or no response, and a body that stops early is an  *)
(* error of the body.  Time is counted in units of FIRST_BACKOFF.          *)
(***************************************************************************)
EXTENDS Integers, Sequences, SequencesExt, FiniteSetsExt

CONSTANTS
    Files,        \* the lengths of the file
    Ranges,       \* the ranges asked for: <<offset, length>>, length -1 for "to the end"
    MaxRetries,   \* HttpOptions::max_retries
    MaxWait,      \* MAX_WAIT
    MagicLen,     \* the bytes that show a zip archive
    BlockSize, ReadAhead,   \* ObjectStoreSource::with_blocks
    MaxChunk      \* the longest piece of a body that arrives at once

ASSUME RemoteAssumption ==
    /\ Files \subseteq Nat /\ Ranges \subseteq Nat \X (Nat \cup {-1})
    /\ MaxRetries \in Nat /\ MaxWait \in Nat \ {0} /\ MagicLen \in Nat \ {0}
    /\ BlockSize \in Nat \ {0} /\ ReadAhead \in Nat \ {0} /\ MaxChunk \in Nat \ {0}

VARIABLES
    op,        \* the call: "get", "get_range", "stream" (HttpSource::open) or "store"
    file,      \* its bytes
    zip,       \* whether they are a zip archive
    range,     \* the range asked for (get_range)
    got,       \* the bytes the caller has
    outcome,   \* "none" while the call or the reader goes on
    opened,    \* the caller has a reader
    attempt,   \* fetch: the attempt, from 0
    answers,   \* fetch: what the requests came to
    wait,      \* fetch: the sleep it is in, or Awake
    sent,      \* bytes of the body taken from the network
    current,   \* bytes the reader holds (the first read, BlockReader::current)
    done,      \* BlockReader::done
    task,      \* where the download task is
    block,     \* the block it fills
    channel    \* the blocks in the channel

call == <<op, file, zip, range>>
fetching == <<attempt, answers, wait>>
store == <<done, task, block, channel>>
vars == <<call, got, outcome, opened, fetching, sent, current, store>>

Awake == -1
Http == op \in {"get", "get_range", "stream"}

\* length bytes from offset of the file, as far as it goes.
Part(offset, length) ==
    SubSeq(file, offset + 1, IF length = -1 THEN Len(file) ELSE Min({offset + length, Len(file)}))

\* What the caller asked for.
Asked == IF op = "get_range" THEN Part(range[1], range[2]) ELSE file

Init ==
    /\ op \in {"get", "get_range", "stream", "store"}
    /\ \E n \in Files : file = [i \in 1 .. n |-> i]
    /\ zip \in BOOLEAN /\ (zip => op \in {"stream", "store"} /\ Len(file) >= MagicLen)
    /\ range \in Ranges /\ (op # "get_range" => range = <<0, -1>>)
    /\ got = <<>> /\ outcome = "none" /\ opened = FALSE
    /\ attempt = 0 /\ answers = <<>> /\ wait = Awake
    /\ sent = 0 /\ current = <<>>
    /\ done = FALSE /\ task = (IF op = "store" THEN "get" ELSE "over") /\ block = <<>> /\ channel = <<>>

-----------------------------------------------------------------------------
(***************************************************************************)
(* HttpClient::fetch.  answers holds what each request came to: "ok",      *)
(* "body" (the body broke off), "status" (5xx or 429), "refused" (another  *)
(* status), "network" and "unsendable" (a builder or redirect error).      *)
(***************************************************************************)
\* Allows one attempt too many.
MutRetriesLeft == attempt <= MaxRetries

\* retries_left of fetch.
RetriesLeft == attempt < MaxRetries

\* backoff.
Backoff(n) == Min({2 ^ Min({n, 16}), MaxWait})

Requesting == Http /\ ~opened /\ outcome = "none" /\ wait = Awake
              /\ ~(op = "get_range" /\ range[2] = 0)
Came(what) == answers' = Append(answers, what)

\* The request is sent again after a sleep of w, or the call returns the error.
AgainOrFail(retry, w, what) ==
    /\ IF retry THEN wait' = w /\ UNCHANGED outcome
       ELSE outcome' = what /\ UNCHANGED wait
    /\ UNCHANGED <<call, got, opened, attempt, sent, current, store>>

\* A successful response whose body was taken whole: get and get_range, where a server
\* that ignores Range (200) sends the whole file, which is cut to the range.
Whole ==
    LET offset == Min({range[1], Len(file)})
        cut == SubSeq(file, offset + 1,
                      IF range[2] = -1 THEN Len(file) ELSE Min({offset + range[2], Len(file)}))
    IN  /\ Requesting /\ op \in {"get", "get_range"}
        /\ Came("ok")
        /\ \/ got' = cut
           \/ op = "get_range" /\ range[1] < Len(file) /\ got' = Part(range[1], range[2])
        /\ outcome' = "end"
        /\ UNCHANGED <<call, opened, attempt, wait, sent, current, store>>

\* start_stream: the first read, as long as the network made it; HttpSource::open
\* looks for an archive in it.
FirstRead ==
    /\ Requesting /\ op = "stream"
    /\ Came("ok")
    /\ \E n \in 0 .. Min({MaxChunk, Len(file)}) :
          /\ n = 0 <=> file = <<>>
          /\ sent' = n
          /\ IF zip /\ n >= MagicLen
             THEN outcome' = "archive" /\ UNCHANGED <<opened, current>>
             ELSE opened' = TRUE /\ current' = SubSeq(file, 1, n) /\ UNCHANGED outcome
    /\ UNCHANGED <<call, got, attempt, wait, store>>

\* The body broke off before anything was handed on.
BodyBreaks == Requesting /\ Came("body") /\ AgainOrFail(RetriesLeft, Backoff(attempt), "network")

\* An error status: only 5xx and 429 are tried again, after Retry-After if it is given.
BadStatus ==
    /\ Requesting
    /\ \/ /\ Came("status")
          /\ \E w \in {Backoff(attempt)} \cup 0 .. MaxWait : AgainOrFail(RetriesLeft, w, "status")
       \/ Came("refused") /\ AgainOrFail(FALSE, 0, "status")

\* No response.
SendFails ==
    /\ Requesting
    /\ \/ Came("network") /\ AgainOrFail(RetriesLeft, Backoff(attempt), "network")
       \/ Came("unsendable") /\ AgainOrFail(FALSE, 0, "network")

Sleep ==
    /\ wait # Awake
    /\ wait' = Awake /\ attempt' = attempt + 1
    /\ UNCHANGED <<call, got, outcome, opened, answers, sent, current, store>>

\* get_range of no bytes asks nobody.
EmptyRange ==
    /\ op = "get_range" /\ range[2] = 0 /\ outcome = "none"
    /\ outcome' = "end"
    /\ UNCHANGED <<call, got, opened, fetching, sent, current, store>>

Fetch == Whole \/ FirstRead \/ BodyBreaks \/ BadStatus \/ SendFails \/ Sleep \/ EmptyRange

-----------------------------------------------------------------------------
(***************************************************************************)
(* ObjectStoreSource::open's download task.  It stops with the runtime or  *)
(* by a panic at any point, and lets go of its end of the channel.         *)
(***************************************************************************)
taskOthers == <<call, got, outcome, opened, fetching, current, done>>

TaskGet ==
    /\ task = "get" /\ task' \in {"pull", "error"}
    /\ UNCHANGED <<taskOthers, sent, block, channel>>

\* body.next(): a piece, an error or the end.
TaskPull ==
    /\ task = "pull"
    /\ \/ \E n \in 1 .. Min({MaxChunk, Len(file) - sent}) :
             /\ block' = block \o SubSeq(file, sent + 1, sent + n)
             /\ sent' = sent + n
             /\ task' = IF Len(block') >= BlockSize THEN "full" ELSE "pull"
       \/ task' = "error" /\ UNCHANGED <<block, sent>>
       \/ sent = Len(file) /\ task' = (IF block = <<>> THEN "end" ELSE "rest") /\ UNCHANGED <<block, sent>>
    /\ UNCHANGED <<taskOthers, channel>>

\* The reader is gone when open failed or the caller dropped it.
ReaderGone == outcome # "none"

Message == IF task = "end" THEN [is |-> "end", bytes |-> <<>>]
           ELSE IF task = "error" THEN [is |-> "error", bytes |-> <<>>]
           ELSE [is |-> "block", bytes |-> block]

\* Waits for room whether or not anybody reads.
MutTaskSend ==
    /\ task \in {"full", "rest", "end", "error"}
    /\ Len(channel) < ReadAhead
    /\ channel' = Append(channel, Message)
    /\ task' = (CASE task = "full" -> "pull" [] task = "rest" -> "end" [] OTHER -> "over")
    /\ block' = <<>>
    /\ UNCHANGED <<taskOthers, sent>>

\* sender.send: waits for room, and fails when the receiver was dropped.
TaskSend ==
    /\ task \in {"full", "rest", "end", "error"}
    /\ \/ /\ ~ReaderGone /\ Len(channel) < ReadAhead
          /\ channel' = Append(channel, Message)
          /\ task' = CASE task = "full" -> "pull" [] task = "rest" -> "end" [] OTHER -> "over"
       \/ ReaderGone /\ task' = "over" /\ UNCHANGED channel
    /\ block' = <<>>
    /\ UNCHANGED <<taskOthers, sent>>

TaskDies == task # "over" /\ task' = "over" /\ block' = <<>> /\ UNCHANGED <<taskOthers, sent, channel>>

Task == TaskGet \/ TaskPull \/ TaskSend

-----------------------------------------------------------------------------
(***************************************************************************)
(* The caller's side: ObjectStoreSource::open waits for the first message, *)
(* then BlockReader::read; for HTTP, the first bytes and then the body.    *)
(***************************************************************************)
readerOthers == <<call, got, fetching, sent, task, block>>

\* Nobody hears that the sender is gone.
MutChannelClosed == FALSE

\* blocking_recv returns None.
ChannelClosed == channel = <<>> /\ task = "over"

\* Takes a closed channel for the end of the body.
MutReceive ==
    LET m == Head(channel)
    IN  /\ op = "store" /\ outcome = "none" /\ current = <<>> /\ ~done
        /\ IF ChannelClosed
           THEN done' = TRUE /\ opened' = TRUE /\ UNCHANGED <<outcome, current, channel>>
           ELSE /\ channel # <<>> /\ channel' = Tail(channel)
                /\ IF m.is = "error" THEN outcome' = "store" /\ UNCHANGED <<opened, current, done>>
                   ELSE opened' = TRUE /\ current' = m.bytes /\ done' = (m.bytes = <<>>) /\ UNCHANGED outcome
        /\ UNCHANGED readerOthers

\* blocking_recv in open and in read.
Receive ==
    LET m == Head(channel)
    IN  /\ op = "store" /\ outcome = "none" /\ current = <<>> /\ ~done
        /\ IF ChannelClosed
           THEN outcome' = "ended early" /\ UNCHANGED <<opened, current, done, channel>>
           ELSE /\ channel # <<>> /\ channel' = Tail(channel)
                /\ IF m.is = "error" THEN outcome' = "store" /\ UNCHANGED <<opened, current, done>>
                   ELSE IF ~opened /\ zip /\ Len(m.bytes) >= MagicLen
                   THEN outcome' = "archive" /\ UNCHANGED <<opened, current, done>>
                   ELSE /\ opened' = TRUE /\ current' = m.bytes
                        /\ done' = (m.bytes = <<>>) /\ UNCHANGED outcome
        /\ UNCHANGED readerOthers

Reading == opened /\ outcome = "none"

\* read: some of the bytes held, or the end.
Read ==
    /\ Reading /\ current # <<>>
    /\ \E n \in 1 .. Len(current) :
          /\ got' = got \o SubSeq(current, 1, n)
          /\ current' = SubSeq(current, n + 1, Len(current))
    /\ UNCHANGED <<call, outcome, opened, fetching, sent, store>>

ReadEnd ==
    /\ Reading /\ current = <<>> /\ (IF op = "store" THEN done ELSE sent = Len(file))
    /\ outcome' = "end"
    /\ UNCHANGED <<call, got, opened, fetching, sent, current, store>>

\* NamedReader over the rest of the response: a connection that breaks is an error
\* and not tried again.
ReadBody ==
    /\ Reading /\ op = "stream" /\ current = <<>>
    /\ \/ \E n \in 1 .. Min({MaxChunk, Len(file) - sent}) :
             /\ got' = got \o SubSeq(file, sent + 1, sent + n) /\ sent' = sent + n
             /\ UNCHANGED outcome
       \/ outcome' = "network" /\ UNCHANGED <<got, sent>>
    /\ UNCHANGED <<call, opened, fetching, current, store>>

\* The caller lets go of the reader.
Drop == Reading /\ outcome' = "dropped"
        /\ UNCHANGED <<call, got, opened, fetching, sent, current, store>>

Reader == Receive \/ Read \/ ReadEnd \/ ReadBody

Next == Fetch \/ Task \/ TaskDies \/ Reader \/ Drop

\* Requests and reads have timeouts, the runtime runs its tasks, and whoever opened a
\* source reads it to its end or drops it.
Spec == Init /\ [][Next]_vars /\ WF_vars(Fetch) /\ WF_vars(Task) /\ WF_vars(Reader)

-----------------------------------------------------------------------------
\* Every read keeps the promise of ByteStream: what the caller has is a prefix of what
\* it asked for, through retries after part of a body, servers that ignore Range, and
\* a download task that dies without its last message (BlockReader::read).
Stream == INSTANCE ByteStream WITH asked <- Asked
KeepsPromise == Stream!Promise

\* fetch: only what may be retried is (a body that broke off, 5xx, 429, no response), at
\* most max_retries times, with waits of at most MAX_WAIT; a retriable failure is given
\* up only when the retries are used; and nothing is asked once a byte was handed on.
RetriesInBounds ==
    /\ Len(answers) <= MaxRetries + 1 /\ wait <= MaxWait
    /\ \A n \in 1 .. Len(answers) - 1 : answers[n] \in {"body", "status", "network"}
    /\ outcome \in {"network", "status"} /\ ~opened =>
          \/ Len(answers) = MaxRetries + 1
          \/ Last(answers) \in {"refused", "unsendable"}
    /\ got # <<>> /\ Http => Last(answers) = "ok"

\* A call that was made ends, and a reader that is read gets to an end or an error:
\* nobody waits for a message of a task that is gone.
ReadEnds == <>(outcome # "none")

\* The download stops once nobody reads it, also when it waits for room in the channel.
DownloadStops == outcome # "none" ~> task = "over"

=============================================================================
