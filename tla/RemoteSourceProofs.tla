------------------------- MODULE RemoteSourceProofs -------------------------
(***************************************************************************)
(* Theorems about module RemoteSource, for files of any length and any     *)
(* limits: what is retried and how often, and that every read keeps the    *)
(* promise of ByteStream.                                                  *)
(***************************************************************************)
EXTENDS RemoteSource, FiniteSetTheorems, SequenceTheorems, TLAPS

USE DEF call, fetching, store, taskOthers, readerOthers

Retriable == {"body", "status", "network"}
Results == Retriable \cup {"ok", "refused", "unsendable"}
Messages == [is : {"block", "end", "error"}, bytes : Seq(Nat)]

RemoteTyped ==
    /\ op \in {"get", "get_range", "stream", "store"}
    /\ file \in Seq(Nat) /\ zip \in BOOLEAN
    /\ range \in Nat \X (Nat \cup {-1}) /\ (op # "get_range" => range = <<0, -1>>)
    /\ got \in Seq(Nat) /\ current \in Seq(Nat) /\ block \in Seq(Nat)
    /\ opened \in BOOLEAN /\ done \in BOOLEAN
    /\ attempt \in Nat /\ answers \in Seq(Results) /\ wait \in Int
    /\ sent \in 0 .. Len(file)
    /\ task \in {"get", "pull", "full", "rest", "end", "error", "over"}
    /\ channel \in Seq(Messages)

(***************************************************************************)
(* The requests: as many as there were attempts, or one more once this     *)
(* attempt was answered, which is when fetch sleeps or the call has its    *)
(* reader, its bytes or its error.                                         *)
(***************************************************************************)
Answered(what) == Len(answers) = attempt + 1 /\ answers[attempt + 1] \in what

RetryInv ==
    /\ attempt <= MaxRetries /\ wait <= MaxWait
    /\ Len(answers) \in {attempt, attempt + 1}
    /\ \A n \in 1 .. attempt : answers[n] \in Retriable
    /\ wait # Awake => /\ Http /\ ~(op = "get_range" /\ range[2] = 0)
                       /\ outcome = "none" /\ ~opened
                       /\ attempt < MaxRetries /\ Answered(Retriable)
    /\ outcome = "none" /\ ~opened => got = <<>>
    /\ outcome = "none" /\ ~opened /\ wait = Awake => Len(answers) = attempt
    /\ Http /\ (opened \/ got # <<>>) => Answered({"ok"})
    /\ outcome \in {"network", "status"} /\ ~opened =>
           \/ attempt = MaxRetries /\ Len(answers) = attempt + 1
           \/ Answered({"refused", "unsendable"})

(***************************************************************************)
(* What a reader holds while it reads, and what is on its way to it: the   *)
(* blocks of the channel and the one being filled are the file's bytes     *)
(* from where the reader is, cut at the positions in cuts.                 *)
(***************************************************************************)
Position == Len(got) + Len(current)

HandInv ==
    IF opened
    THEN /\ op \in {"stream", "store"} /\ Position <= Len(file)
         /\ got = SubSeq(file, 1, Len(got))
         /\ current = SubSeq(file, Len(got) + 1, Position)
         /\ op = "stream" => Position = sent
         /\ op = "store" /\ done => Position = Len(file)
    ELSE got = <<>> /\ current = <<>> /\ ~done

Contents(m, from, to) ==
    /\ from <= to /\ m.bytes = SubSeq(file, from + 1, to)
    /\ m.is = "block" => from < to
    /\ m.is = "end" => from = Len(file)

CutAt(cuts) ==
    /\ cuts[1] = Position /\ cuts[Len(channel) + 1] <= sent
    /\ \A i \in 1 .. Len(channel) : Contents(channel[i], cuts[i], cuts[i + 1])
    /\ task # "over" => block = SubSeq(file, cuts[Len(channel) + 1] + 1, sent)

TaskInv ==
    /\ op = "store" => \E cuts \in [1 .. Len(channel) + 1 -> 0 .. Len(file)] : CutAt(cuts)
    /\ op # "store" => task = "over"
    /\ task \in {"full", "rest"} => block # <<>>
    /\ task \in {"rest", "end"} => sent = Len(file)
    /\ task = "end" => block = <<>>

StreamInv == outcome = "none" => HandInv /\ TaskInv

-----------------------------------------------------------------------------
(***************************************************************************)
(* Min of two numbers, and the waits.                                      *)
(***************************************************************************)
LEMMA MinOfTwo ==
  ASSUME NEW a \in Int, NEW b \in Int
  PROVE  Min({a, b}) \in {a, b} /\ Min({a, b}) <= a /\ Min({a, b}) <= b
<1>1. \E x \in {a, b} : \A y \in {a, b} : x =< y
  OBVIOUS
<1> QED
  BY <1>1 DEF Min

LEMMA PowersOfTwo == ASSUME NEW n \in Nat PROVE 2 ^ n \in Nat
<1>1. IsFiniteSet(1 .. n) /\ Cardinality(1 .. n) = n
  BY FS_Interval
<1>2. IsFiniteSet(SUBSET (1 .. n)) /\ Cardinality(SUBSET (1 .. n)) = 2 ^ Cardinality(1 .. n)
  BY <1>1, FS_SUBSET
<1>3. Cardinality(SUBSET (1 .. n)) \in Nat
  BY <1>2, FS_CardinalityType
<1> QED
  BY <1>1, <1>2, <1>3

LEMMA BackoffBounded == ASSUME NEW n \in Nat PROVE Backoff(n) \in 0 .. MaxWait
<1>1. Min({n, 16}) \in Nat
  BY MinOfTwo
<1>2. PICK power \in Nat : power = 2 ^ Min({n, 16})
  BY <1>1, PowersOfTwo
<1>3. MaxWait \in Nat
  BY RemoteAssumption
<1>4. Min({power, MaxWait}) \in {power, MaxWait} /\ Min({power, MaxWait}) <= MaxWait
  BY <1>3, MinOfTwo
<1>5. Backoff(n) = Min({power, MaxWait})
  BY <1>2 DEF Backoff
<1> HIDE DEF Backoff
<1> QED
  BY <1>3, <1>4, <1>5

(***************************************************************************)
(* Pieces of a sequence.                                                   *)
(***************************************************************************)
LEMMA PieceType ==
  ASSUME NEW f \in Seq(Nat), NEW a \in 0 .. Len(f), NEW b \in a .. Len(f)
  PROVE  SubSeq(f, a + 1, b) \in Seq(Nat) /\ Len(SubSeq(f, a + 1, b)) = b - a
<1>1. \A i \in a + 1 .. b : f[i] \in Nat
  BY ElementOfSeq, LenProperties
<1> QED
  BY <1>1, SubSeqProperties, LenProperties

LEMMA PiecesJoin ==
  ASSUME NEW f \in Seq(Nat), NEW a \in 0 .. Len(f), NEW b \in a .. Len(f), NEW c \in b .. Len(f)
  PROVE  SubSeq(f, a + 1, b) \o SubSeq(f, b + 1, c) = SubSeq(f, a + 1, c)
<1>1. Len(f) \in Nat
  BY LenProperties
<1> QED
  BY <1>1, ConcatAdjacentSubSeq

LEMMA PieceOfPiece ==
  ASSUME NEW f \in Seq(Nat), NEW a \in 0 .. Len(f), NEW b \in a .. Len(f), NEW m \in 0 .. b - a
  PROVE  /\ SubSeq(SubSeq(f, a + 1, b), 1, m) = SubSeq(f, a + 1, a + m)
         /\ SubSeq(SubSeq(f, a + 1, b), m + 1, b - a) = SubSeq(f, a + m + 1, b)
<1> DEFINE s == SubSeq(f, a + 1, b)
<1>1. /\ Len(f) \in Nat /\ \A i \in 1 .. Len(f) : f[i] \in Nat
      /\ a \in Nat /\ b \in Nat /\ m \in Nat /\ a <= b /\ b <= Len(f) /\ m <= b - a
  BY LenProperties, ElementOfSeq
<1>2. s \in Seq(Nat) /\ Len(s) = b - a /\ \A i \in 1 .. b - a : s[i] = f[a + i]
  BY <1>1, SubSeqProperties
<1> HIDE DEF s
<1>3. ASSUME NEW p \in Nat, NEW q \in Nat, 1 <= p, p <= q + 1, q <= b - a
      PROVE  SubSeq(s, p, q) = SubSeq(f, a + p, a + q)
  <2>1. \A i \in p .. q : s[i] \in Nat
    <3>1. TAKE i \in p .. q
    <3>2. i \in 1 .. b - a
      BY <1>1, <1>3, <3>1
    <3>3. s[i] = f[a + i] /\ a + i \in 1 .. Len(f)
      BY <1>1, <1>2, <3>2
    <3> QED
      BY <1>1, <3>3
  <2>2. /\ SubSeq(s, p, q) \in Seq(Nat) /\ Len(SubSeq(s, p, q)) = q - p + 1
        /\ \A i \in 1 .. q - p + 1 : SubSeq(s, p, q)[i] = s[p + i - 1]
    BY <2>1, <1>3, SubSeqProperties
  <2>3. \A i \in a + p .. a + q : f[i] \in Nat
    BY <1>1, <1>3
  <2>4. /\ SubSeq(f, a + p, a + q) \in Seq(Nat) /\ Len(SubSeq(f, a + p, a + q)) = q - p + 1
        /\ \A i \in 1 .. q - p + 1 : SubSeq(f, a + p, a + q)[i] = f[a + p + i - 1]
    <3> DEFINE l == a + p
               r == a + q
    <3>1. l \in Int /\ r \in Int /\ r - l = q - p /\ l <= r + 1
      BY <1>1, <1>3
    <3> HIDE DEF l, r
    <3>2. /\ SubSeq(f, l, r) \in Seq(Nat) /\ Len(SubSeq(f, l, r)) = IF l <= r THEN r - l + 1 ELSE 0
          /\ \A i \in 1 .. r - l + 1 : SubSeq(f, l, r)[i] = f[l + i - 1]
      BY <2>3, <3>1, SubSeqProperties DEF l, r
    <3>3. Len(SubSeq(f, l, r)) = q - p + 1
      BY <3>1, <3>2
    <3> QED
      BY <3>1, <3>2, <3>3 DEF l, r
  <2>5. \A i \in 1 .. q - p + 1 : SubSeq(s, p, q)[i] = SubSeq(f, a + p, a + q)[i]
    BY <1>1, <1>2, <1>3, <2>2, <2>4
  <2> QED
    BY <2>2, <2>4, <2>5, SeqEqual
<1>4. SubSeq(s, 1, m) = SubSeq(f, a + 1, a + m)
  <2>1. 1 \in Nat /\ m \in Nat /\ 1 <= 1 /\ 1 <= m + 1 /\ m <= b - a
    BY <1>1
  <2> QED
    BY <2>1, <1>3
<1>5. SubSeq(s, m + 1, b - a) = SubSeq(f, a + (m + 1), a + (b - a))
  <2>1. m + 1 \in Nat /\ b - a \in Nat /\ 1 <= m + 1 /\ m + 1 <= (b - a) + 1 /\ b - a <= b - a
    BY <1>1
  <2> QED
    BY <2>1, <1>3
<1>6. a + (m + 1) = a + m + 1 /\ a + (b - a) = b
  BY <1>1
<1> QED
  BY <1>4, <1>5, <1>6 DEF s

-----------------------------------------------------------------------------
(***************************************************************************)
(* What the steps leave alone.  Only Fetch sends requests, and only the    *)
(* download task and the reader touch the channel.                         *)
(***************************************************************************)
LEMMA RemoteSteps ==
  ASSUME [Next]_vars
  PROVE  \/ Whole \/ FirstRead \/ BodyBreaks \/ BadStatus \/ SendFails \/ Sleep \/ EmptyRange
         \/ TaskGet \/ TaskPull \/ TaskSend \/ TaskDies
         \/ Receive \/ Read \/ ReadEnd \/ ReadBody \/ Drop \/ UNCHANGED vars
  BY DEF Next, Fetch, Task, Reader

LEMMA RetryInit == Init => RetryInv
  BY RemoteAssumption DEF Init, RetryInv, Awake, Answered

LEMMA RemoteInit == Init => RemoteTyped
<1> SUFFICES ASSUME Init PROVE RemoteTyped
  OBVIOUS
<1>1. PICK n \in Files : file = [i \in 1 .. n |-> i]
  BY DEF Init
<1>2. n \in Nat /\ file \in Seq(Nat) /\ Len(file) \in Nat
  <2>1. n \in Nat
    BY <1>1, RemoteAssumption
  <2>2. file \in Seq(Nat)
    BY <1>1, <2>1
  <2> QED
    BY <2>1, <2>2, LenProperties
<1>3. /\ <<>> \in Seq(Nat) /\ <<>> \in Seq(Results) /\ <<>> \in Seq(Messages)
  BY EmptySeq
<1>4. range \in Nat \X (Nat \cup {-1})
  BY RemoteAssumption DEF Init
<1>5. /\ op \in {"get", "get_range", "stream", "store"} /\ zip \in BOOLEAN
      /\ op # "get_range" => range = <<0, -1>>
      /\ got = <<>> /\ current = <<>> /\ block = <<>> /\ answers = <<>> /\ channel = <<>>
      /\ opened = FALSE /\ done = FALSE /\ attempt = 0 /\ sent = 0 /\ wait = -1
      /\ task \in {"get", "over"}
  BY DEF Init, Awake
<1>6. /\ got \in Seq(Nat) /\ current \in Seq(Nat) /\ block \in Seq(Nat)
      /\ answers \in Seq(Results) /\ channel \in Seq(Messages)
  BY <1>3, <1>5
<1>7. attempt \in Nat /\ wait \in Int /\ sent \in 0 .. Len(file)
  BY <1>2, <1>5
<1>8. opened \in BOOLEAN /\ done \in BOOLEAN
  BY DEF Init
<1> QED
  BY <1>2, <1>4, <1>5, <1>6, <1>7, <1>8 DEF RemoteTyped

LEMMA CameTyped ==
  ASSUME RemoteTyped, NEW what \in Results, Came(what)
  PROVE  /\ answers' \in Seq(Results) /\ Len(answers') = Len(answers) + 1
         /\ answers'[Len(answers) + 1] = what
         /\ \A n \in 1 .. Len(answers) : answers'[n] = answers[n]
         /\ Len(answers) \in Nat
<1> QED
  BY AppendProperties, LenProperties DEF Came, RemoteTyped

\* What a request that did not succeed came to.
Failed(what, w, error) ==
    /\ Came(what)
    /\ \/ what \in Retriable /\ AgainOrFail(RetriesLeft, w, error)
       \/ what \in {"refused", "unsendable"} /\ AgainOrFail(FALSE, 0, error)

LEMMA RequestsTyped ==
  ASSUME RemoteTyped, BodyBreaks \/ BadStatus \/ SendFails
  PROVE  /\ Requesting
         /\ \E what \in Results, w \in 0 .. MaxWait, error \in {"network", "status"} :
                Failed(what, w, error)
<1> USE DEF Results, Retriable
<1>1. Backoff(attempt) \in 0 .. MaxWait
  <2>1. attempt \in Nat
    BY DEF RemoteTyped
  <2> QED
    BY <2>1, BackoffBounded
<1>2. 0 \in 0 .. MaxWait
  BY RemoteAssumption
<1>3. CASE BodyBreaks
  <2>1. Requesting /\ Failed("body", Backoff(attempt), "network")
    BY <1>3 DEF BodyBreaks, Failed
  <2> QED
    BY <1>1, <2>1
<1>4. CASE BadStatus
  <2>1. CASE \E w \in {Backoff(attempt)} \cup 0 .. MaxWait : Failed("status", w, "status")
    BY <1>1, <1>4, <2>1 DEF BadStatus
  <2>2. CASE Failed("refused", 0, "status")
    BY <1>2, <1>4, <2>2 DEF BadStatus
  <2> QED
    BY <1>4, <2>1, <2>2 DEF BadStatus, Failed
<1>5. CASE SendFails
  <2>1. CASE Failed("network", Backoff(attempt), "network")
    BY <1>1, <1>5, <2>1 DEF SendFails
  <2>2. CASE Failed("unsendable", 0, "network")
    BY <1>2, <1>5, <2>2 DEF SendFails
  <2> QED
    BY <1>5, <2>1, <2>2 DEF SendFails, Failed
<1> QED
  BY <1>3, <1>4, <1>5

LEMMA RetryStep ==
  ASSUME RemoteTyped, RetryInv, [Next]_vars
  PROVE  RetryInv'
<1> USE DEF Awake, Http, Answered
<1>1. ASSUME BodyBreaks \/ BadStatus \/ SendFails
      PROVE  RetryInv'
  <2>1. PICK what \in Results, w \in 0 .. MaxWait, error \in {"network", "status"} :
            Failed(what, w, error)
    BY <1>1, RequestsTyped
  <2>2. /\ Requesting /\ Came(what) /\ Len(answers) = attempt /\ got = <<>>
        /\ UNCHANGED <<op, range, got, opened, attempt>>
    BY <1>1, <2>1, RequestsTyped DEF RetryInv, Requesting, Failed, AgainOrFail
  <2>3. /\ Len(answers') = attempt + 1 /\ answers'[attempt + 1] = what
        /\ \A n \in 1 .. attempt : answers'[n] = answers[n]
    BY <2>1, <2>2, CameTyped
  <2>4. CASE wait' = w /\ UNCHANGED outcome /\ what \in Retriable /\ RetriesLeft
    BY <2>2, <2>3, <2>4, RemoteAssumption DEF RetryInv, Requesting, RetriesLeft, RemoteTyped
  <2>5. CASE /\ outcome' = error /\ UNCHANGED wait
             /\ ~RetriesLeft \/ what \in {"refused", "unsendable"}
    BY <2>2, <2>3, <2>5, RemoteAssumption DEF RetryInv, Requesting, RetriesLeft, RemoteTyped
  <2>6. QED
    BY <2>1, <2>4, <2>5 DEF Failed, AgainOrFail
<1>2. ASSUME Whole \/ FirstRead
      PROVE  RetryInv'
  <2>1. /\ Requesting /\ Came("ok") /\ Len(answers) = attempt /\ got = <<>>
        /\ UNCHANGED <<op, range, attempt, wait>>
        /\ outcome' \in {"end", "archive"} \/ opened'
    BY <1>2 DEF Whole, FirstRead, RetryInv, Requesting
  <2>2. /\ Len(answers') = attempt + 1 /\ answers'[attempt + 1] = "ok"
        /\ \A n \in 1 .. attempt : answers'[n] = answers[n]
    <3>1. "ok" \in Results
      BY DEF Results
    <3> QED
      BY <2>1, <3>1, CameTyped
  <2> QED
    <3>1. /\ attempt \in Nat /\ Len(answers) = attempt
          /\ wait = Awake /\ attempt <= MaxRetries /\ wait <= MaxWait
          /\ \A n \in 1 .. attempt : answers[n] \in Retriable
      BY <2>1 DEF RetryInv, Requesting, RemoteTyped
    <3>2. outcome' \in {"none", "end", "archive"} /\ (outcome' = "none" /\ ~opened' => FALSE)
      BY <1>2 DEF Whole, FirstRead, Requesting
    <3> QED
      BY <2>1, <2>2, <3>1, <3>2 DEF RetryInv
<1>3. ASSUME Sleep
      PROVE  RetryInv'
  <2>1. /\ wait # -1 /\ wait' = -1 /\ attempt' = attempt + 1
        /\ UNCHANGED <<op, range, got, outcome, opened, answers>>
    BY <1>3 DEF Sleep
  <2>2. /\ outcome = "none" /\ ~opened /\ attempt < MaxRetries /\ got = <<>>
        /\ Len(answers) = attempt + 1 /\ answers[attempt + 1] \in Retriable
        /\ \A n \in 1 .. attempt : answers[n] \in Retriable
        /\ attempt \in Nat
    BY <2>1 DEF RetryInv, RemoteTyped
  <2>3. \A n \in 1 .. attempt + 1 : answers[n] \in Retriable
    BY <2>2
  <2> QED
    BY <2>1, <2>2, <2>3, RemoteAssumption DEF RetryInv
<1>4. ASSUME EmptyRange
      PROVE  RetryInv'
  BY <1>4 DEF RetryInv, EmptyRange, RemoteTyped
<1>5. ASSUME TaskGet \/ TaskPull \/ TaskSend \/ TaskDies
      PROVE  RetryInv'
  <2>1. UNCHANGED <<op, range, got, outcome, opened, attempt, answers, wait>>
    BY <1>5 DEF TaskGet, TaskPull, TaskSend, TaskDies
  <2> QED
    BY <2>1 DEF RetryInv
<1>6. ASSUME Receive
      PROVE  RetryInv'
  <2>1. /\ op = "store" /\ outcome = "none" /\ UNCHANGED <<op, range, got, attempt, answers, wait>>
        /\ opened' = opened \/ (opened' /\ outcome' = "none")
        /\ outcome' \in {"none", "ended early", "store", "archive"}
    BY <1>6 DEF Receive
  <2>2. ~Http /\ wait = Awake
    BY <2>1 DEF RetryInv
  <2>3. outcome' = "none" /\ ~opened' => ~opened
    BY <2>1
  <2> QED
    BY <2>1, <2>2, <2>3 DEF RetryInv
<1>7. ASSUME Read \/ ReadEnd \/ ReadBody \/ Drop
      PROVE  RetryInv'
  <2>1. opened /\ UNCHANGED <<op, range, opened, attempt, answers, wait>>
    BY <1>7 DEF Read, ReadEnd, ReadBody, Drop, Reading
  <2> QED
    BY <2>1 DEF RetryInv, RemoteTyped
<1>8. CASE UNCHANGED vars
  <2>1. UNCHANGED <<op, range, got, outcome, opened, attempt, answers, wait>>
    BY <1>8 DEF vars
  <2> QED
    BY <2>1 DEF RetryInv
<1> QED
  BY <1>1, <1>2, <1>3, <1>4, <1>5, <1>6, <1>7, <1>8, RemoteSteps

-----------------------------------------------------------------------------
(***************************************************************************)
(* What a response's body is cut to, and the types.                        *)
(***************************************************************************)
LEMMA SubSeqTyped ==
  ASSUME NEW f \in Seq(Nat), NEW m \in Nat \ {0}, NEW n \in Int, n <= Len(f)
  PROVE  SubSeq(f, m, n) \in Seq(Nat)
<1>1. Len(f) \in Nat /\ \A i \in 1 .. Len(f) : f[i] \in Nat
  BY LenProperties, ElementOfSeq
<1>2. \A i \in m .. n : f[i] \in Nat
  BY <1>1
<1> QED
  BY <1>2, SubSeqProperties

\* Where a range ends that starts at offset.
RangeEnd(offset) == IF range[2] = -1 THEN Len(file) ELSE Min({offset + range[2], Len(file)})

LEMMA RangeEnds ==
  ASSUME RemoteTyped, NEW offset \in Nat
  PROVE  RangeEnd(offset) \in Nat /\ RangeEnd(offset) <= Len(file) /\ Len(file) \in Nat
<1>1. Len(file) \in Nat /\ range[2] \in Nat \cup {-1}
  BY LenProperties DEF RemoteTyped
<1>2. CASE range[2] = -1
  BY <1>1, <1>2 DEF RangeEnd
<1>3. CASE range[2] # -1
  <2>1. offset + range[2] \in Nat
    BY <1>1, <1>3
  <2> PICK l \in Nat : l = offset + range[2]
    BY <2>1
  <2> PICK n \in Nat : n = Len(file)
    BY <1>1
  <2>2. Min({l, n}) \in {l, n} /\ Min({l, n}) <= n
    BY MinOfTwo
  <2>3. RangeEnd(offset) = Min({l, n})
    BY <1>3 DEF RangeEnd
  <2> QED
    BY <1>1, <2>2, <2>3
<1> QED
  BY <1>2, <1>3

LEMMA AskedFor ==
  ASSUME RemoteTyped
  PROVE  /\ Asked \in Seq(Nat)
         /\ op # "stream" /\ op # "store" => Asked = SubSeq(file, range[1] + 1, RangeEnd(range[1]))
         /\ op # "get_range" => Asked = file
<1>1. /\ file \in Seq(Nat) /\ range[1] \in Nat
      /\ op \in {"get", "get_range", "stream", "store"}
      /\ op # "get_range" => range[1] = 0 /\ range[2] = -1
  BY DEF RemoteTyped
<1>2. SubSeq(file, 1, Len(file)) = file
  BY <1>1, SubSeqFull
<1>3. RangeEnd(range[1]) \in Int /\ RangeEnd(range[1]) <= Len(file)
  <2> PICK first \in Nat : first = range[1]
    BY <1>1
  <2>1. RangeEnd(first) \in Nat /\ RangeEnd(first) <= Len(file)
    BY RangeEnds
  <2> QED
    BY <2>1
<1>4. SubSeq(file, range[1] + 1, RangeEnd(range[1])) \in Seq(Nat)
  BY <1>1, <1>3, SubSeqTyped
<1>5. Part(range[1], range[2]) = SubSeq(file, range[1] + 1, RangeEnd(range[1]))
  BY DEF Part, RangeEnd
<1>6. CASE op = "get_range"
  BY <1>4, <1>5, <1>6 DEF Asked
<1>7. CASE op # "get_range"
  <2>1. RangeEnd(0) = Len(file)
    BY <1>1, <1>7 DEF RangeEnd
  <2> QED
    BY <1>1, <1>2, <1>7, <2>1 DEF Asked
<1> QED
  BY <1>6, <1>7

(***************************************************************************)
(* A server that ignores Range sends the whole file, and cutting it gives  *)
(* what was asked for, past the end too (HttpClient::get_range).           *)
(***************************************************************************)
LEMMA WholeIsExact ==
  ASSUME RemoteTyped, Whole
  PROVE  got' = Asked /\ outcome = "none" /\ outcome' = "end" /\ UNCHANGED <<call, opened>>
<1>1. /\ file \in Seq(Nat) /\ range[1] \in Nat /\ range[2] \in Nat \cup {-1}
      /\ op \in {"get", "get_range"} /\ outcome = "none" /\ outcome' = "end"
      /\ UNCHANGED <<call, opened>>
  BY DEF RemoteTyped, Whole, Requesting
<1>2. Len(file) \in Nat
  BY <1>1, LenProperties
<1> DEFINE offset == Min({range[1], Len(file)})
<1> HIDE DEF offset
<1>3. Asked = SubSeq(file, range[1] + 1, RangeEnd(range[1]))
  BY <1>1, AskedFor
<1>4. SubSeq(file, offset + 1, RangeEnd(offset)) = Asked
  <2>1. offset \in {range[1], Len(file)} /\ offset <= range[1] /\ offset <= Len(file)
    <3>1. /\ Min({range[1], Len(file)}) \in {range[1], Len(file)}
          /\ Min({range[1], Len(file)}) <= range[1] /\ Min({range[1], Len(file)}) <= Len(file)
      <4> DEFINE a == range[1]
                 b == Len(file)
      <4>1. a \in Int /\ b \in Int
        BY <1>1, <1>2
      <4> HIDE DEF a, b
      <4>2. Min({a, b}) \in {a, b} /\ Min({a, b}) <= a /\ Min({a, b}) <= b
        BY <4>1, MinOfTwo
      <4> QED
        BY <4>2 DEF a, b
    <3> QED
      BY <3>1 DEF offset
  <2>2. \A o \in Nat : RangeEnd(o) \in Nat /\ RangeEnd(o) <= Len(file)
    BY RangeEnds
  <2>3. CASE offset = range[1]
    BY <1>3, <2>3
  <2>4. CASE offset # range[1]
    <3>1. offset = Len(file) /\ Len(file) < range[1]
      BY <1>1, <1>2, <2>1, <2>4
    <3>2. RangeEnd(offset) \in Int /\ RangeEnd(offset) < offset + 1
      BY <1>2, <2>2, <3>1
    <3>3. RangeEnd(range[1]) \in Int /\ RangeEnd(range[1]) < range[1] + 1
      <4> PICK first \in Nat : first = range[1]
        BY <1>1
      <4>1. RangeEnd(first) \in Nat /\ RangeEnd(first) <= Len(file)
        BY RangeEnds
      <4> QED
        BY <1>2, <3>1, <4>1
    <3>4. SubSeq(file, offset + 1, RangeEnd(offset)) = <<>>
      BY <1>2, <3>1, <3>2, SubSeqEmpty
    <3>5. SubSeq(file, range[1] + 1, RangeEnd(range[1])) = <<>>
      BY <1>1, <3>3, SubSeqEmpty
    <3> QED
      BY <1>3, <3>4, <3>5
  <2> QED
    BY <2>3, <2>4
<1>5. got' = SubSeq(file, offset + 1, RangeEnd(offset)) \/ got' = Part(range[1], range[2])
  BY DEF Whole, RangeEnd, offset
<1>6. Part(range[1], range[2]) = SubSeq(file, range[1] + 1, RangeEnd(range[1]))
  BY DEF Part, RangeEnd
<1> QED
  BY <1>1, <1>3, <1>4, <1>5, <1>6

\* No piece of a body is longer than what is left of the file.
LEMMA ChunkFits ==
  ASSUME RemoteTyped, NEW n \in 1 .. Min({MaxChunk, Len(file) - sent})
  PROVE  sent + n \in sent .. Len(file) /\ sent < sent + n
<1> DEFINE left == Len(file) - sent
<1>1. /\ Len(file) \in Nat /\ sent \in 0 .. Len(file) /\ left \in Int /\ MaxChunk \in Int
      /\ Len(file) = sent + left
  BY LenProperties, RemoteAssumption DEF RemoteTyped
<1>2. n \in 1 .. Min({MaxChunk, left})
  OBVIOUS
<1> HIDE DEF left
<1>3. Min({MaxChunk, left}) \in {MaxChunk, left} /\ Min({MaxChunk, left}) <= left
  BY <1>1, MinOfTwo
<1>4. n \in Nat /\ 1 <= n /\ n <= left
  BY <1>1, <1>2, <1>3
<1> QED
  BY <1>1, <1>4

LEMMA FirstBytes ==
  ASSUME RemoteTyped, FirstRead
  PROVE  /\ sent' \in 0 .. Len(file)
         /\ UNCHANGED <<call, got, attempt, wait, store>>
         /\ op = "stream" /\ outcome = "none" /\ ~opened /\ Came("ok")
         /\ \/ outcome' = "archive" /\ UNCHANGED <<opened, current>>
            \/ opened' = TRUE /\ outcome' = outcome /\ current' = SubSeq(file, 1, sent')
<1>1. Len(file) \in Nat
  BY LenProperties DEF RemoteTyped
<1>2. PICK n \in 0 .. Min({MaxChunk, Len(file)}) :
          /\ sent' = n
          /\ IF zip /\ n >= MagicLen
             THEN outcome' = "archive" /\ UNCHANGED <<opened, current>>
             ELSE opened' = TRUE /\ current' = SubSeq(file, 1, n) /\ UNCHANGED outcome
  BY DEF FirstRead
<1>3. sent' \in 0 .. Len(file)
  <2> DEFINE length == Len(file)
  <2>1. length \in Int /\ MaxChunk \in Int /\ n \in 0 .. Min({MaxChunk, length})
    BY <1>1, RemoteAssumption
  <2> HIDE DEF length
  <2>2. Min({MaxChunk, length}) \in {MaxChunk, length} /\ Min({MaxChunk, length}) <= length
    BY <2>1, MinOfTwo
  <2>3. n \in 0 .. length
    BY <2>1, <2>2
  <2> QED
    BY <1>2, <2>3 DEF length
<1> QED
  BY <1>2, <1>3 DEF FirstRead, Requesting

LEMMA Pulled ==
  ASSUME RemoteTyped, TaskPull
  PROVE  \/ /\ sent' \in sent .. Len(file) /\ sent < sent'
            /\ block' = block \o SubSeq(file, sent + 1, sent')
            /\ task' = IF Len(block') >= BlockSize THEN "full" ELSE "pull"
         \/ task' = "error" /\ UNCHANGED <<block, sent>>
         \/ /\ sent = Len(file) /\ UNCHANGED <<block, sent>>
            /\ task' = IF block = <<>> THEN "end" ELSE "rest"
  BY ChunkFits DEF TaskPull

LEMMA BodyRead ==
  ASSUME RemoteTyped, ReadBody
  PROVE  /\ op = "stream" /\ opened /\ outcome = "none" /\ current = <<>>
         /\ UNCHANGED <<call, opened, fetching, current, store>>
         /\ \/ /\ sent' \in sent .. Len(file) /\ sent < sent'
               /\ got' = got \o SubSeq(file, sent + 1, sent')
               /\ UNCHANGED outcome
            \/ outcome' = "network" /\ UNCHANGED <<got, sent>>
  BY ChunkFits DEF ReadBody, Reading

LEMMA Received ==
  ASSUME RemoteTyped, Receive
  PROVE  /\ op = "store" /\ outcome = "none" /\ current = <<>> /\ ~done
         /\ UNCHANGED <<op, file, zip, range, got, attempt, answers, wait, sent, task, block>>
         /\ \/ outcome' = "ended early" /\ UNCHANGED <<opened, current, done, channel>>
            \/ /\ channel # <<>> /\ channel' = Tail(channel)
               /\ \/ outcome' \in {"store", "archive"} /\ UNCHANGED <<opened, current, done>>
                  \/ /\ Head(channel).is # "error" /\ current' = Head(channel).bytes
                     /\ opened' = TRUE /\ done' = (Head(channel).bytes = <<>>) /\ outcome' = outcome
  BY DEF Receive

LEMMA MessageTyped ==
  ASSUME RemoteTyped
  PROVE  Message \in Messages
<1>1. <<>> \in Seq(Nat) /\ block \in Seq(Nat)
  BY EmptySeq DEF RemoteTyped
<1> QED
  BY <1>1 DEF Message, Messages

LEMMA TypedStep ==
  ASSUME RemoteTyped, [Next]_vars
  PROVE  RemoteTyped'
<1>1. ASSUME BodyBreaks \/ BadStatus \/ SendFails
      PROVE  RemoteTyped'
  <2>1. PICK what \in Results, w \in 0 .. MaxWait, error \in {"network", "status"} :
            Failed(what, w, error)
    BY <1>1, RequestsTyped
  <2>2. answers' \in Seq(Results)
    BY <2>1, CameTyped DEF Failed
  <2>3. wait' = wait \/ wait' = w
    BY <2>1 DEF Failed, AgainOrFail
  <2>4. wait' \in Int
    BY <2>3, RemoteAssumption DEF RemoteTyped
  <2>5. UNCHANGED <<op, file, zip, range, got, opened, attempt, sent, current, done, task, block, channel>>
    BY <2>1 DEF Failed, AgainOrFail
  <2> QED
    BY <2>2, <2>4, <2>5 DEF RemoteTyped
<1>2. ASSUME Whole
      PROVE  RemoteTyped'
  <2>1. got' \in Seq(Nat)
    BY <1>2, WholeIsExact, AskedFor
  <2>2. answers' \in Seq(Results)
    <3>1. "ok" \in Results
      BY DEF Results
    <3> QED
      BY <1>2, <3>1, CameTyped DEF Whole
  <2>3. UNCHANGED <<op, file, zip, range, opened, attempt, wait, sent, current, done, task, block, channel>>
    BY <1>2 DEF Whole
  <2> QED
    BY <2>1, <2>2, <2>3 DEF RemoteTyped
<1>3. ASSUME FirstRead
      PROVE  RemoteTyped'
  <2>1. /\ sent' \in 0 .. Len(file) /\ Came("ok")
        /\ UNCHANGED <<op, file, zip, range, got, attempt, wait, done, task, block, channel>>
        /\ \/ UNCHANGED <<opened, current>>
           \/ opened' = TRUE /\ current' = SubSeq(file, 1, sent')
    BY <1>3, FirstBytes
  <2>2. answers' \in Seq(Results)
    <3>1. "ok" \in Results
      BY DEF Results
    <3> QED
      BY <2>1, <3>1, CameTyped
  <2>3. current' \in Seq(Nat)
    <3>1. file \in Seq(Nat) /\ current \in Seq(Nat) /\ Len(file) \in Nat
      BY LenProperties DEF RemoteTyped
    <3>2. sent' \in Int /\ sent' <= Len(file)
      BY <2>1, <3>1
    <3>3. SubSeq(file, 1, sent') \in Seq(Nat)
      BY <3>1, <3>2, SubSeqTyped
    <3> QED
      BY <2>1, <3>1, <3>3
  <2>4. opened' \in BOOLEAN
    BY <2>1 DEF RemoteTyped
  <2> QED
    BY <2>1, <2>2, <2>3, <2>4 DEF RemoteTyped
<1>4. ASSUME Sleep \/ EmptyRange \/ ReadEnd \/ Drop \/ UNCHANGED vars
      PROVE  RemoteTyped'
  <2>1. /\ UNCHANGED <<op, file, zip, range, got, opened, answers, sent, current, done, task, block,
                       channel>>
        /\ \/ UNCHANGED <<attempt, wait>>
           \/ attempt' = attempt + 1 /\ wait' = -1
    BY <1>4 DEF Sleep, EmptyRange, ReadEnd, Drop, vars, Awake
  <2>2. attempt' \in Nat /\ wait' \in Int
    BY <2>1 DEF RemoteTyped
  <2> QED
    BY <2>1, <2>2 DEF RemoteTyped
<1>5. ASSUME TaskGet \/ TaskDies \/ TaskSend
      PROVE  RemoteTyped'
  <2>1. /\ UNCHANGED <<op, file, zip, range, got, opened, attempt, answers, wait, current, done, sent>>
        /\ task' \in {"get", "pull", "full", "rest", "end", "error", "over"}
        /\ block' = block \/ block' = <<>>
        /\ channel' = channel \/ channel' = Append(channel, Message)
    BY <1>5 DEF TaskGet, TaskDies, TaskSend
  <2>2. block' \in Seq(Nat)
    BY <2>1, EmptySeq DEF RemoteTyped
  <2>3. channel' \in Seq(Messages)
    <3>1. channel \in Seq(Messages)
      BY DEF RemoteTyped
    <3> QED
      BY <2>1, <3>1, MessageTyped, AppendProperties
  <2> QED
    BY <2>1, <2>2, <2>3 DEF RemoteTyped
<1>6. ASSUME TaskPull
      PROVE  RemoteTyped'
  <2>1. UNCHANGED <<op, file, zip, range, got, opened, attempt, answers, wait, current, done, channel>>
    BY <1>6 DEF TaskPull
  <2>2. /\ block \in Seq(Nat) /\ file \in Seq(Nat) /\ Len(file) \in Nat /\ sent \in 0 .. Len(file)
    BY LenProperties DEF RemoteTyped
  <2>3. CASE /\ sent' \in sent .. Len(file)
             /\ block' = block \o SubSeq(file, sent + 1, sent')
             /\ task' = IF Len(block') >= BlockSize THEN "full" ELSE "pull"
    <3>1. sent' \in 0 .. Len(file) /\ sent' <= Len(file) /\ sent + 1 \in Nat \ {0} /\ sent' \in Int
      BY <2>2, <2>3
    <3>2. SubSeq(file, sent + 1, sent') \in Seq(Nat)
      BY <2>2, <3>1, SubSeqTyped
    <3>3. block' \in Seq(Nat)
      BY <2>2, <2>3, <3>2, ConcatProperties
    <3> QED
      BY <2>1, <2>3, <3>1, <3>3 DEF RemoteTyped
  <2>4. CASE UNCHANGED <<block, sent>> /\ task' \in {"error", "end", "rest"}
    BY <2>1, <2>4 DEF RemoteTyped
  <2> QED
    BY <1>6, <2>3, <2>4, Pulled
<1>7. ASSUME Receive
      PROVE  RemoteTyped'
  <2>1. UNCHANGED <<op, file, zip, range, got, attempt, answers, wait, sent, task, block>>
    BY <1>7, Received
  <2>2. \/ UNCHANGED <<opened, current, done, channel>>
        \/ /\ channel # <<>> /\ channel' = Tail(channel)
           /\ \/ UNCHANGED <<opened, current, done>>
              \/ /\ current' = Head(channel).bytes
                 /\ opened' = TRUE /\ done' = (Head(channel).bytes = <<>>)
    BY <1>7, Received
  <2>3. channel \in Seq(Messages)
    BY DEF RemoteTyped
  <2>4. channel # <<>> => Head(channel) \in Messages /\ Tail(channel) \in Seq(Messages)
    BY <2>3, HeadTailProperties
  <2>5. channel # <<>> => Head(channel).bytes \in Seq(Nat)
    BY <2>4 DEF Messages
  <2>6. channel' \in Seq(Messages)
    BY <2>2, <2>3, <2>4
  <2>7. current' \in Seq(Nat) /\ opened' \in BOOLEAN /\ done' \in BOOLEAN
    BY <2>2, <2>5 DEF RemoteTyped
  <2> QED
    BY <2>1, <2>6, <2>7 DEF RemoteTyped
<1>8. ASSUME Read
      PROVE  RemoteTyped'
  <2>1. PICK n \in 1 .. Len(current) :
            /\ got' = got \o SubSeq(current, 1, n)
            /\ current' = SubSeq(current, n + 1, Len(current))
    BY <1>8 DEF Read
  <2>2. UNCHANGED <<op, file, zip, range, opened, attempt, answers, wait, sent, done, task, block, channel>>
    BY <1>8 DEF Read
  <2>3. current \in Seq(Nat) /\ got \in Seq(Nat) /\ Len(current) \in Nat
    BY LenProperties DEF RemoteTyped
  <2>4. SubSeq(current, 1, n) \in Seq(Nat) /\ SubSeq(current, n + 1, Len(current)) \in Seq(Nat)
    <3>1. n \in Int /\ n <= Len(current) /\ n + 1 \in Nat \ {0} /\ Len(current) <= Len(current)
      BY <2>3
    <3> QED
      BY <2>3, <3>1, SubSeqTyped
  <2>5. got' \in Seq(Nat) /\ current' \in Seq(Nat)
    BY <2>1, <2>3, <2>4, ConcatProperties
  <2> QED
    BY <2>2, <2>5 DEF RemoteTyped
<1>9. ASSUME ReadBody
      PROVE  RemoteTyped'
  <2>1. /\ UNCHANGED <<op, file, zip, range, opened, attempt, answers, wait, current, done, task,
                       block, channel>>
        /\ \/ sent' \in sent .. Len(file) /\ got' = got \o SubSeq(file, sent + 1, sent')
           \/ UNCHANGED <<got, sent>>
    BY <1>9, BodyRead
  <2>2. /\ got \in Seq(Nat) /\ file \in Seq(Nat) /\ Len(file) \in Nat /\ sent \in 0 .. Len(file)
    BY LenProperties DEF RemoteTyped
  <2>3. CASE sent' \in sent .. Len(file) /\ got' = got \o SubSeq(file, sent + 1, sent')
    <3>1. sent' \in 0 .. Len(file) /\ sent' <= Len(file) /\ sent + 1 \in Nat \ {0} /\ sent' \in Int
      BY <2>2, <2>3
    <3>2. SubSeq(file, sent + 1, sent') \in Seq(Nat)
      BY <2>2, <3>1, SubSeqTyped
    <3>3. got' \in Seq(Nat)
      BY <2>2, <2>3, <3>2, ConcatProperties
    <3> QED
      BY <2>1, <3>1, <3>3 DEF RemoteTyped
  <2>4. CASE UNCHANGED <<got, sent>>
    BY <2>1, <2>4 DEF RemoteTyped
  <2> QED
    BY <2>1, <2>3, <2>4
<1> QED
  BY <1>1, <1>2, <1>3, <1>4, <1>5, <1>6, <1>7, <1>8, <1>9, RemoteSteps

(***************************************************************************)
(* HttpClient::fetch: only what may be retried is, at most max_retries     *)
(* times and after waits of at most MAX_WAIT; a retriable failure is given *)
(* up only when the retries are used; nothing is asked once a byte was     *)
(* handed on.                                                              *)
(***************************************************************************)
THEOREM RetriesBounded == Spec => []RetriesInBounds
<1>1. ASSUME RemoteTyped, RetryInv
      PROVE  RetriesInBounds
  <2>1. /\ attempt \in Nat /\ Len(answers) \in {attempt, attempt + 1} /\ MaxRetries \in Nat
        /\ attempt <= MaxRetries /\ wait <= MaxWait
    BY <1>1, RemoteAssumption DEF RemoteTyped, RetryInv
  <2>2. \A n \in 1 .. Len(answers) - 1 : answers[n] \in {"body", "status", "network"}
    <3>1. \A n \in 1 .. attempt : answers[n] \in {"body", "status", "network"}
      BY <1>1 DEF RetryInv, Retriable
    <3> QED
      BY <2>1, <3>1
  <2>3. outcome \in {"network", "status"} /\ ~opened =>
            \/ Len(answers) = MaxRetries + 1
            \/ Last(answers) \in {"refused", "unsendable"}
    BY <1>1, <2>1 DEF RetryInv, Answered, Last
  <2>4. got # <<>> /\ Http => Last(answers) = "ok"
    BY <1>1, <2>1 DEF RetryInv, Answered, Last
  <2> QED
    BY <2>1, <2>2, <2>3, <2>4 DEF RetriesInBounds
<1> QED
  BY <1>1, RemoteInit, RetryInit, TypedStep, RetryStep, PTL DEF Spec

-----------------------------------------------------------------------------
(***************************************************************************)
(* The cuts move with the channel: the task puts a block at its end, the   *)
(* reader takes one from its front.                                        *)
(***************************************************************************)
Cuts(n) == [1 .. n + 1 -> 0 .. Len(file)]

LEMMA CutsGrow ==
  ASSUME RemoteTyped, TaskInv, op = "store", task \in {"full", "rest", "end", "error"},
         NEW cuts \in Cuts(Len(channel)), CutAt(cuts)
  PROVE  \E new \in Cuts(Len(channel) + 1) :
             /\ new[1] = Position /\ new[Len(channel) + 2] <= sent
             /\ \A i \in 1 .. Len(channel) + 1 :
                    Contents(Append(channel, Message)[i], new[i], new[i + 1])
             /\ task \in {"full", "rest"} => new[Len(channel) + 2] = sent
             /\ task = "end" => sent = Len(file)
<1> DEFINE n == Len(channel)
           last == cuts[n + 1]
           to == IF task \in {"full", "rest"} THEN sent ELSE last
           new == [i \in 1 .. n + 2 |-> IF i <= n + 1 THEN cuts[i] ELSE to]
<1>1. /\ n \in Nat /\ Len(file) \in Nat /\ sent \in 0 .. Len(file) /\ channel \in Seq(Messages)
      /\ file \in Seq(Nat)
  BY LenProperties DEF RemoteTyped
<1> HIDE DEF n
<1>2. cuts \in [1 .. n + 1 -> 0 .. Len(file)] /\ last \in 0 .. Len(file) /\ last <= sent
  <2>1. cuts \in [1 .. n + 1 -> 0 .. Len(file)]
    BY DEF Cuts, n
  <2>2. n + 1 \in 1 .. n + 1
    BY <1>1
  <2>3. last \in 0 .. Len(file)
    BY <2>1, <2>2
  <2>4. last <= sent
    BY DEF CutAt, n
  <2> QED
    BY <2>1, <2>3, <2>4
<1>3. cuts[1] = Position /\ \A i \in 1 .. n : Contents(channel[i], cuts[i], cuts[i + 1])
  BY DEF CutAt, n
<1>4. /\ \A i \in 1 .. n : Append(channel, Message)[i] = channel[i]
      /\ Append(channel, Message)[n + 1] = Message
  BY <1>1, MessageTyped, AppendProperties DEF n
<1>5. Contents(Message, last, to)
  <2>1. CASE task \in {"full", "rest"}
    <3>1. block = SubSeq(file, last + 1, sent) /\ block # <<>>
      BY <2>1 DEF CutAt, TaskInv, n
    <3>2. last < sent
      <4> SUFFICES ASSUME last = sent PROVE FALSE
        BY <1>1, <1>2
      <4>1. SubSeq(file, last + 1, sent) = <<>>
        BY <1>1, <1>2, SubSeqEmpty
      <4> QED
        BY <3>1, <4>1
    <3>3. Message.is = "block" /\ Message.bytes = block /\ to = sent
      BY <2>1 DEF Message
    <3> HIDE DEF last, to
    <3> QED
      BY <1>1, <1>2, <3>1, <3>2, <3>3 DEF Contents
  <2>2. CASE task \in {"end", "error"}
    <3>1. Message.bytes = <<>> /\ Message.is = task /\ to = last
      BY <2>2 DEF Message
    <3>2. SubSeq(file, last + 1, last) = <<>>
      BY <1>2, SubSeqEmpty
    <3>3. task = "end" => last = Len(file)
      <4> SUFFICES ASSUME task = "end", last # Len(file) PROVE FALSE
        OBVIOUS
      <4>1. block = <<>> /\ sent = Len(file) /\ block = SubSeq(file, last + 1, sent)
        BY DEF TaskInv, CutAt, n
      <4>2. Len(SubSeq(file, last + 1, sent)) = sent - last
        BY <1>1, <1>2, PieceType
      <4>3. Len(<<>>) = 0
        BY EmptySeq
      <4>4. sent - last = 0
        BY <4>1, <4>2, <4>3
      <4> HIDE DEF last
      <4> QED
        BY <1>1, <1>2, <4>1, <4>4
    <3> HIDE DEF last, to
    <3> QED
      BY <1>2, <2>2, <3>1, <3>2, <3>3 DEF Contents
  <2> QED
    BY <2>1, <2>2
<1>6. to \in 0 .. Len(file) /\ to <= sent /\ (task \in {"full", "rest"} => to = sent)
  BY <1>1, <1>2
<1>7. new \in [1 .. n + 2 -> 0 .. Len(file)] /\ new[n + 2] = to /\ new[n + 1] = last
      /\ \A i \in 1 .. n + 1 : new[i] = cuts[i]
  <2> HIDE DEF to
  <2> QED
    BY <1>1, <1>2, <1>6
<1> HIDE DEF new, to, last
<1>8. \A i \in 1 .. n + 1 : Contents(Append(channel, Message)[i], new[i], new[i + 1])
  <2> TAKE i \in 1 .. n + 1
  <2>1. CASE i = n + 1
    <3>1. i + 1 = n + 2
      BY <1>1, <2>1
    <3> QED
      BY <1>4, <1>5, <1>7, <2>1, <3>1
  <2>2. CASE i # n + 1
    <3>1. i \in 1 .. n /\ i \in 1 .. n + 1 /\ i + 1 \in 1 .. n + 1
      BY <1>1, <2>2
    <3> QED
      BY <1>3, <1>4, <1>7, <3>1
  <2> QED
    BY <2>1, <2>2
<1>9. new[1] = Position /\ new \in Cuts(n + 1)
  BY <1>1, <1>3, <1>7 DEF Cuts
<1>10. task = "end" => sent = Len(file)
  BY DEF TaskInv
<1> QED
  BY <1>6, <1>7, <1>8, <1>9, <1>10 DEF n

LEMMA CutsShrink ==
  ASSUME RemoteTyped, channel # <<>>, NEW cuts \in Cuts(Len(channel)), CutAt(cuts)
  PROVE  /\ Contents(Head(channel), Position, cuts[2])
         /\ Len(channel) \in Nat \ {0} /\ Len(Tail(channel)) = Len(channel) - 1
         /\ cuts[2] \in 0 .. Len(file)
         /\ \E new \in Cuts(Len(channel) - 1) :
             /\ new[1] = cuts[2] /\ new[Len(channel)] = cuts[Len(channel) + 1]
             /\ \A i \in 1 .. Len(channel) - 1 : Contents(Tail(channel)[i], new[i], new[i + 1])
<1> DEFINE n == Len(channel)
           new == [i \in 1 .. n |-> cuts[i + 1]]
<1>1. /\ channel \in Seq(Messages) /\ n \in Nat \ {0} /\ Len(Tail(channel)) = n - 1
      /\ \A i \in 1 .. n - 1 : Tail(channel)[i] = channel[i + 1]
      /\ Head(channel) = channel[1]
  <2>1. channel \in Seq(Messages)
    BY DEF RemoteTyped
  <2>2. n \in Nat \ {0}
    BY <2>1, EmptySeq
  <2> QED
    BY <2>1, <2>2, HeadTailProperties
<1> HIDE DEF n
<1>2. cuts \in [1 .. n + 1 -> 0 .. Len(file)]
  BY DEF Cuts, n
<1>3. cuts[1] = Position /\ \A i \in 1 .. n : Contents(channel[i], cuts[i], cuts[i + 1])
  BY DEF CutAt, n
<1>4. Contents(channel[1], cuts[1], cuts[2]) /\ cuts[2] \in 0 .. Len(file)
  BY <1>1, <1>2, <1>3
<1>5. new \in [1 .. n -> 0 .. Len(file)] /\ \A i \in 1 .. n : new[i] = cuts[i + 1]
  BY <1>1, <1>2
<1> HIDE DEF new
<1>6. new \in Cuts(n - 1)
  BY <1>1, <1>5 DEF Cuts
<1>7. new[1] = cuts[2] /\ new[n] = cuts[n + 1]
  BY <1>1, <1>5
<1>8. \A i \in 1 .. n - 1 : Contents(Tail(channel)[i], new[i], new[i + 1])
  <2> TAKE i \in 1 .. n - 1
  <2>1. i \in 1 .. n /\ i + 1 \in 1 .. n
    BY <1>1
  <2>2. Contents(channel[i + 1], cuts[i + 1], cuts[(i + 1) + 1])
    BY <1>3, <2>1
  <2> QED
    BY <1>1, <1>5, <2>1, <2>2
<1> QED
  BY <1>1, <1>3, <1>4, <1>6, <1>7, <1>8 DEF n

-----------------------------------------------------------------------------
(***************************************************************************)
(* The reader's side, step by step.                                        *)
(***************************************************************************)
LEMMA HandSame ==
  ASSUME UNCHANGED <<op, file, got, current, opened, done, sent>>
  PROVE  (HandInv' <=> HandInv) /\ Position' = Position
  BY DEF HandInv, Position

LEMMA TaskSame ==
  ASSUME UNCHANGED <<op, file, channel, sent, task, block>>, Position' = Position, TaskInv
  PROVE  TaskInv'
<1>1. CASE op = "store"
  <2>1. PICK cuts \in [1 .. Len(channel) + 1 -> 0 .. Len(file)] : CutAt(cuts)
    BY <1>1 DEF TaskInv
  <2>2. CutAt(cuts)'
    BY <2>1 DEF CutAt, Contents
  <2> QED
    BY <1>1, <2>2 DEF TaskInv
<1>2. CASE op # "store"
  BY <1>2 DEF TaskInv
<1> QED
  BY <1>1, <1>2

LEMMA ReadStep ==
  ASSUME RemoteTyped, StreamInv, Read
  PROVE  /\ HandInv' /\ Position' = Position /\ outcome = "none" /\ op \in {"stream", "store"}
         /\ UNCHANGED <<op, file, zip, range, outcome, sent, task, block, channel>>
         /\ \E to \in 1 .. Len(file) : /\ Len(got) < to /\ got = SubSeq(file, 1, Len(got))
                                       /\ got' = SubSeq(file, 1, to)
<1> DEFINE g == Len(got)
           c == Len(current)
<1>1. /\ opened /\ outcome = "none"
      /\ UNCHANGED <<op, file, zip, range, outcome, opened, sent, done, task, block, channel>>
  BY DEF Read, Reading
<1>2. PICK n \in 1 .. c : got' = got \o SubSeq(current, 1, n) /\ current' = SubSeq(current, n + 1, c)
  BY DEF Read
<1>3. /\ file \in Seq(Nat) /\ g \in Nat /\ c \in Nat /\ Len(file) \in Nat
  BY LenProperties DEF RemoteTyped
<1>4. /\ g + c <= Len(file) /\ got = SubSeq(file, 1, g) /\ current = SubSeq(file, g + 1, g + c)
      /\ op \in {"stream", "store"} /\ Position = g + c
      /\ op = "stream" => g + c = sent
      /\ op = "store" /\ done => g + c = Len(file)
  BY <1>1 DEF StreamInv, HandInv, Position
<1>5. g + c <= Len(file)
  BY <1>4
<1> HIDE DEF g, c
<1>6. /\ SubSeq(current, 1, n) = SubSeq(file, g + 1, g + n)
      /\ SubSeq(current, n + 1, c) = SubSeq(file, g + n + 1, g + c)
  <2> DEFINE b == g + c
  <2>1. g \in 0 .. Len(file) /\ b \in g .. Len(file) /\ n \in 0 .. b - g /\ b - g = c
    BY <1>2, <1>3, <1>5
  <2>2. current = SubSeq(file, g + 1, b)
    BY <1>4
  <2> HIDE DEF b
  <2>3. /\ SubSeq(SubSeq(file, g + 1, b), 1, n) = SubSeq(file, g + 1, g + n)
        /\ SubSeq(SubSeq(file, g + 1, b), n + 1, b - g) = SubSeq(file, g + n + 1, b)
    BY <1>3, <2>1, PieceOfPiece
  <2> QED
    BY <2>1, <2>2, <2>3 DEF b
<1>7. got' = SubSeq(file, 1, g + n)
  <2> DEFINE m == g + n
  <2>1. 0 \in 0 .. Len(file) /\ g \in 0 .. Len(file) /\ m \in g .. Len(file) /\ 0 + 1 = 1
    BY <1>2, <1>3, <1>5
  <2>2. got' = SubSeq(file, 1, g) \o SubSeq(file, g + 1, m)
    BY <1>2, <1>4, <1>6
  <2> HIDE DEF m
  <2>3. SubSeq(file, 0 + 1, g) \o SubSeq(file, g + 1, m) = SubSeq(file, 0 + 1, m)
    BY <1>3, <2>1, PiecesJoin
  <2> QED
    BY <2>1, <2>2, <2>3 DEF m
<1>8. Len(got') = g + n
  <2>1. g + n \in 0 .. Len(file) /\ 0 \in 0 .. Len(file)
    BY <1>2, <1>3, <1>5
  <2>2. Len(SubSeq(file, 0 + 1, g + n)) = g + n - 0
    BY <1>3, <2>1, PieceType
  <2> QED
    BY <1>3, <1>7, <2>1, <2>2
<1>9. Len(current') = c - n
  <2> DEFINE a == g + n
             b == g + c
  <2>1. a \in 0 .. Len(file) /\ b \in a .. Len(file) /\ b - a = c - n
    BY <1>2, <1>3, <1>5
  <2>2. current' = SubSeq(file, a + 1, b)
    BY <1>2, <1>6
  <2> HIDE DEF a, b
  <2>3. Len(SubSeq(file, a + 1, b)) = b - a
    BY <1>3, <2>1, PieceType
  <2> QED
    BY <2>1, <2>2, <2>3
<1>10. Position' = g + c
  <2>1. Position' = Len(got') + Len(current')
    BY DEF Position
  <2> QED
    BY <1>2, <1>3, <1>8, <1>9, <2>1
<1>11. HandInv'
  <2>1. got' = SubSeq(file, 1, Len(got')) /\ current' = SubSeq(file, Len(got') + 1, g + c)
    BY <1>2, <1>6, <1>7, <1>8
  <2> QED
    BY <1>1, <1>4, <1>10, <2>1 DEF HandInv
<1>12. \E to \in 1 .. Len(file) : g < to /\ got = SubSeq(file, 1, g) /\ got' = SubSeq(file, 1, to)
  <2>1. g + n \in 1 .. Len(file) /\ g < g + n
    BY <1>2, <1>3, <1>5
  <2> QED
    BY <1>4, <1>7, <2>1
<1> QED
  BY <1>1, <1>4, <1>10, <1>11, <1>12 DEF g

LEMMA ReadBodyStep ==
  ASSUME RemoteTyped, StreamInv, ReadBody
  PROVE  /\ outcome = "none" /\ op = "stream" /\ UNCHANGED <<op, file, zip, range, task>>
         /\ \/ outcome' = "network" /\ got' = got
            \/ /\ HandInv' /\ outcome' = outcome
               /\ \E to \in 1 .. Len(file) : /\ Len(got) < to /\ got = SubSeq(file, 1, Len(got))
                                             /\ got' = SubSeq(file, 1, to)
<1>1. /\ op = "stream" /\ opened /\ outcome = "none" /\ current = <<>>
      /\ UNCHANGED <<op, file, zip, range, opened, current, done, task, block, channel>>
  BY BodyRead
<1>2. CASE /\ sent' \in sent .. Len(file) /\ sent < sent'
           /\ got' = got \o SubSeq(file, sent + 1, sent') /\ UNCHANGED outcome
  <2> DEFINE g == Len(got)
             s == sent'
  <2>1. file \in Seq(Nat) /\ Len(file) \in Nat /\ sent \in 0 .. Len(file) /\ g \in Nat
    BY LenProperties DEF RemoteTyped
  <2>2. Len(<<>>) = 0 /\ Len(current) = 0 /\ Len(current') = 0
    BY <1>1, EmptySeq
  <2>3. g + Len(current) = sent /\ got = SubSeq(file, 1, g)
    BY <1>1 DEF StreamInv, HandInv, Position
  <2>4. s \in sent .. Len(file) /\ sent < s /\ got' = got \o SubSeq(file, sent + 1, s)
    BY <1>2
  <2>5. Position' = Len(got') + Len(current')
    BY DEF Position
  <2> HIDE DEF g, s
  <2>6. g = sent
    BY <2>1, <2>2, <2>3
  <2>7. s \in 1 .. Len(file) /\ 0 \in 0 .. Len(file) /\ s \in 0 .. Len(file)
    BY <2>1, <2>4
  <2>8. got' = SubSeq(file, 1, s)
    <3>1. SubSeq(file, 0 + 1, sent) \o SubSeq(file, sent + 1, s) = SubSeq(file, 0 + 1, s)
      BY <2>1, <2>4, <2>7, PiecesJoin
    <3>2. got = SubSeq(file, 1, sent)
      BY <2>3, <2>6
    <3>3. SubSeq(file, 1, sent) \o SubSeq(file, sent + 1, s) = SubSeq(file, 1, s)
      <4> DEFINE one == 0 + 1
      <4>1. one = 1
        OBVIOUS
      <4>2. SubSeq(file, one, sent) \o SubSeq(file, sent + 1, s) = SubSeq(file, one, s)
        BY <3>1
      <4> HIDE DEF one
      <4> QED
        BY <4>1, <4>2
    <3> QED
      BY <2>4, <3>2, <3>3
  <2>9. Len(got') = s
    <3>1. Len(SubSeq(file, 0 + 1, s)) = s - 0
      BY <2>1, <2>7, PieceType
    <3> QED
      BY <2>7, <2>8, <3>1
  <2>10. Position' = s
    BY <2>2, <2>5, <2>7, <2>9
  <2>11. current' = SubSeq(file, Len(got') + 1, Position')
    <3>1. s \in Int /\ s + 1 \in Int /\ s < s + 1
      BY <2>7
    <3>2. SubSeq(file, s + 1, s) = <<>>
      BY <3>1, SubSeqEmpty
    <3> QED
      BY <1>1, <2>9, <2>10, <3>2
  <2>12. HandInv'
    <3>1. Position' <= Len(file)
      BY <2>1, <2>7, <2>10
    <3>2. got' = SubSeq(file, 1, Len(got'))
      BY <2>8, <2>9
    <3>3. Position' = sent'
      BY <2>10 DEF s
    <3> QED
      BY <1>1, <2>11, <3>1, <3>2, <3>3 DEF HandInv
  <2>13. g < s /\ got = SubSeq(file, 1, g) /\ got' = SubSeq(file, 1, s)
    BY <2>1, <2>3, <2>4, <2>6, <2>8
  <2> QED
    BY <1>1, <1>2, <2>7, <2>12, <2>13 DEF g
<1> QED
  BY <1>1, <1>2, BodyRead

LEMMA FirstStep ==
  ASSUME RemoteTyped, StreamInv, FirstRead, outcome' = "none"
  PROVE  HandInv' /\ op = "stream" /\ UNCHANGED <<op, task>>
<1> DEFINE s == sent'
<1>1. /\ op = "stream" /\ outcome = "none" /\ ~opened /\ opened' /\ s \in 0 .. Len(file)
      /\ UNCHANGED <<op, file, got, done, task>> /\ current' = SubSeq(file, 1, s)
  BY FirstBytes
<1>2. file \in Seq(Nat) /\ Len(file) \in Nat /\ Len(<<>>) = 0
  BY LenProperties, EmptySeq DEF RemoteTyped
<1>3. got = <<>> /\ ~done
  BY <1>1 DEF StreamInv, HandInv
<1>4. SubSeq(file, 1, 0) = <<>>
  BY SubSeqEmpty
<1>5. Position' = Len(got') + Len(current')
  BY DEF Position
<1> HIDE DEF s
<1>6. Len(current') = s
  <2>1. 0 \in 0 .. Len(file) /\ s \in 0 .. Len(file)
    BY <1>1, <1>2
  <2>2. Len(SubSeq(file, 0 + 1, s)) = s - 0
    BY <1>2, <2>1, PieceType
  <2> QED
    BY <1>1, <2>1, <2>2
<1>7. Len(got') = 0
  BY <1>1, <1>2, <1>3
<1>8. Position' = s
  BY <1>1, <1>5, <1>6, <1>7
<1>9. Position' <= Len(file)
  BY <1>1, <1>2, <1>8
<1>10. got' = SubSeq(file, 1, Len(got'))
  BY <1>1, <1>3, <1>4, <1>7
<1>11. current' = SubSeq(file, Len(got') + 1, Position')
  <2>1. Len(got') + 1 = 1
    BY <1>7
  <2> QED
    BY <1>1, <1>8, <2>1
<1>12. Position' = sent'
  BY <1>8 DEF s
<1> QED
  BY <1>1, <1>3, <1>9, <1>10, <1>11, <1>12 DEF HandInv

LEMMA ReceiveStep ==
  ASSUME RemoteTyped, StreamInv, Receive, outcome' = "none"
  PROVE  HandInv' /\ TaskInv'
<1>1. /\ op = "store" /\ outcome = "none" /\ current = <<>> /\ ~done
      /\ UNCHANGED <<op, file, got, sent, task, block>>
      /\ channel # <<>> /\ channel' = Tail(channel)
      /\ Head(channel).is # "error" /\ current' = Head(channel).bytes
      /\ opened' = TRUE /\ done' = (Head(channel).bytes = <<>>)
  BY Received
<1>2. TaskInv /\ HandInv
  BY <1>1 DEF StreamInv
<1>3. PICK cuts \in Cuts(Len(channel)) : CutAt(cuts)
  BY <1>1, <1>2 DEF TaskInv, Cuts
<1> DEFINE n == Len(channel)
           p == Position
           m == Head(channel)
<1>4. /\ Contents(m, p, cuts[2]) /\ n \in Nat \ {0} /\ Len(channel') = n - 1
      /\ cuts[2] \in 0 .. Len(file)
      /\ \E new \in Cuts(n - 1) :
             /\ new[1] = cuts[2] /\ new[n] = cuts[n + 1]
             /\ \A i \in 1 .. n - 1 : Contents(channel'[i], new[i], new[i + 1])
  BY <1>1, <1>3, CutsShrink
<1>5. /\ file \in Seq(Nat) /\ Len(file) \in Nat /\ Len(got) \in Nat /\ Len(<<>>) = 0
      /\ Len(got') = Len(got)
  BY <1>1, LenProperties, EmptySeq DEF RemoteTyped
<1>6. p = Len(got) /\ got = SubSeq(file, 1, p)
  <2>1. p = Len(got)
    BY <1>1, <1>5 DEF Position
  <2>2. SubSeq(file, 1, 0) = <<>>
    BY SubSeqEmpty
  <2>3. CASE opened
    BY <1>2, <2>1, <2>3 DEF HandInv
  <2>4. CASE ~opened
    BY <1>2, <1>5, <2>1, <2>2, <2>4 DEF HandInv
  <2> QED
    BY <2>1, <2>3, <2>4
<1>7. Position' = Len(got) + Len(m.bytes)
  BY <1>1 DEF Position
<1>8. m \in Messages
  <2>1. channel \in Seq(Messages)
    BY DEF RemoteTyped
  <2> QED
    BY <1>1, <2>1, HeadTailProperties
<1>9. /\ p <= cuts[2] /\ m.bytes = SubSeq(file, p + 1, cuts[2])
      /\ m.is = "block" => p < cuts[2]
      /\ m.is = "end" => p = Len(file)
  BY <1>4 DEF Contents
<1> HIDE DEF n, p, m
<1>10. Len(m.bytes) = cuts[2] - p /\ p \in Nat
  <2>1. p \in 0 .. Len(file) /\ cuts[2] \in p .. Len(file)
    BY <1>4, <1>5, <1>6, <1>9
  <2>2. Len(SubSeq(file, p + 1, cuts[2])) = cuts[2] - p
    BY <1>5, <2>1, PieceType
  <2> QED
    BY <1>9, <2>1, <2>2
<1>11. Position' = cuts[2] /\ cuts[2] \in Nat
  BY <1>4, <1>5, <1>6, <1>7, <1>10
<1>12. m.bytes = <<>> => cuts[2] = Len(file)
  <2>1. SUFFICES ASSUME m.bytes = <<>> PROVE cuts[2] = Len(file)
    OBVIOUS
  <2>2. cuts[2] - p = 0
    BY <1>5, <1>10, <2>1
  <2>3. cuts[2] = p
    BY <1>10, <1>11, <2>2
  <2>4. m.is # "block"
    BY <1>9, <1>10, <2>3
  <2>5. m.is = "end"
    BY <1>1, <1>8, <2>4 DEF Messages, m
  <2> QED
    BY <1>9, <2>3, <2>5
<1>13. HandInv'
  <2>1. Position' <= Len(file)
    BY <1>4, <1>5, <1>11
  <2>2. current' = SubSeq(file, Len(got') + 1, Position')
    BY <1>1, <1>5, <1>6, <1>9, <1>11 DEF m
  <2>3. done' => Position' = Len(file)
    BY <1>1, <1>11, <1>12 DEF m
  <2> QED
    BY <1>1, <1>5, <1>6, <2>1, <2>2, <2>3 DEF HandInv
<1>14. TaskInv'
  <2>1. PICK new \in Cuts(n - 1) :
             /\ new[1] = cuts[2] /\ new[n] = cuts[n + 1]
             /\ \A i \in 1 .. n - 1 : Contents(channel'[i], new[i], new[i + 1])
    BY <1>4
  <2>2. Len(channel') = n - 1 /\ Len(channel') + 1 = n /\ n - 1 + 1 = n
    BY <1>4
  <2>3. CutAt(new)'
    <3>1. new[1] = Position'
      BY <1>11, <2>1
    <3>2. cuts[n + 1] <= sent /\ (task # "over" => block = SubSeq(file, cuts[n + 1] + 1, sent))
      BY <1>3 DEF CutAt, n
    <3>3. new[Len(channel') + 1] = cuts[n + 1]
      BY <2>1, <2>2
    <3>4. \A i \in 1 .. Len(channel') : Contents(channel'[i], new[i], new[i + 1])
      BY <2>1, <2>2
    <3> QED
      BY <1>1, <3>1, <3>2, <3>3, <3>4 DEF CutAt, Contents
  <2>4. new \in [1 .. Len(channel') + 1 -> 0 .. Len(file)]
    BY <2>1, <2>2 DEF Cuts
  <2> QED
    BY <1>1, <1>2, <2>3, <2>4 DEF TaskInv
<1> QED
  BY <1>13, <1>14

LEMMA TaskSendStep ==
  ASSUME RemoteTyped, StreamInv, TaskSend, outcome' = "none"
  PROVE  TaskInv'
<1>1. /\ outcome = "none" /\ task \in {"full", "rest", "end", "error"}
      /\ channel' = Append(channel, Message) /\ block' = <<>>
      /\ task' = CASE task = "full" -> "pull" [] task = "rest" -> "end" [] OTHER -> "over"
      /\ UNCHANGED <<op, file, got, current, sent>>
  BY DEF TaskSend, ReaderGone
<1>2. TaskInv
  BY <1>1 DEF StreamInv
<1>3. op = "store"
  BY <1>1, <1>2 DEF TaskInv
<1>4. PICK cuts \in Cuts(Len(channel)) : CutAt(cuts)
  BY <1>2, <1>3 DEF TaskInv, Cuts
<1>5. PICK new \in Cuts(Len(channel) + 1) :
             /\ new[1] = Position /\ new[Len(channel) + 2] <= sent
             /\ \A i \in 1 .. Len(channel) + 1 :
                    Contents(Append(channel, Message)[i], new[i], new[i + 1])
             /\ task \in {"full", "rest"} => new[Len(channel) + 2] = sent
             /\ task = "end" => sent = Len(file)
  BY <1>1, <1>2, <1>3, <1>4, CutsGrow
<1>6. /\ Len(channel') = Len(channel) + 1 /\ Len(channel') + 1 = Len(channel) + 2
      /\ Len(channel) + 1 + 1 = Len(channel) + 2
  <2>1. channel \in Seq(Messages)
    BY DEF RemoteTyped
  <2>2. Len(channel) \in Nat /\ Len(channel') = Len(channel) + 1
    BY <1>1, <2>1, MessageTyped, AppendProperties, LenProperties
  <2> QED
    BY <2>2
<1>7. Position' = Position
  BY <1>1 DEF Position
<1>8. task' # "over" => block' = SubSeq(file, new[Len(channel') + 1] + 1, sent)
  <2>1. SUFFICES ASSUME task' # "over" PROVE block' = SubSeq(file, new[Len(channel') + 1] + 1, sent)
    OBVIOUS
  <2>2. new[Len(channel') + 1] = sent
    BY <1>1, <1>5, <1>6, <2>1
  <2>3. sent \in Int
    BY LenProperties DEF RemoteTyped
  <2>4. SubSeq(file, sent + 1, sent) = <<>>
    BY <2>3, SubSeqEmpty
  <2> QED
    BY <1>1, <2>2, <2>4
<1>9. \A i \in 1 .. Len(channel') : Contents(channel'[i], new[i], new[i + 1])
  BY <1>1, <1>5, <1>6
<1>10. CutAt(new)'
  BY <1>1, <1>5, <1>6, <1>7, <1>8, <1>9 DEF CutAt, Contents
<1>11. new \in [1 .. Len(channel') + 1 -> 0 .. Len(file)]
  BY <1>5, <1>6 DEF Cuts
<1>12. \E some \in [1 .. Len(channel') + 1 -> 0 .. Len(file')] : CutAt(some)'
  BY <1>1, <1>10, <1>11
<1>13. task' \notin {"full", "rest"} /\ (task' = "end" => sent = Len(file))
  BY <1>1, <1>2 DEF TaskInv
<1> QED
  BY <1>1, <1>3, <1>12, <1>13 DEF TaskInv

LEMMA TaskPullStep ==
  ASSUME RemoteTyped, StreamInv, TaskPull, outcome' = "none"
  PROVE  TaskInv'
<1>1. /\ outcome = "none" /\ task = "pull" /\ UNCHANGED <<op, file, got, current, channel>>
  BY DEF TaskPull
<1>2. TaskInv
  BY <1>1 DEF StreamInv
<1>3. op = "store"
  BY <1>1, <1>2 DEF TaskInv
<1>4. PICK cuts \in Cuts(Len(channel)) : CutAt(cuts)
  BY <1>2, <1>3 DEF TaskInv, Cuts
<1> DEFINE last == cuts[Len(channel) + 1]
<1>5. block = SubSeq(file, last + 1, sent) /\ last <= sent /\ last \in 0 .. Len(file)
  <2>1. Len(channel) + 1 \in 1 .. Len(channel) + 1
    BY LenProperties DEF RemoteTyped
  <2> QED
    BY <1>1, <1>4, <2>1 DEF CutAt, Cuts
<1>6. file \in Seq(Nat) /\ Len(file) \in Nat /\ sent \in 0 .. Len(file) /\ Len(<<>>) = 0
  BY LenProperties, EmptySeq DEF RemoteTyped
<1>7. CASE UNCHANGED <<block, sent>> /\ task' = "error"
  <2>1. CutAt(cuts)'
    BY <1>1, <1>4, <1>5, <1>7 DEF CutAt, Contents, Position
  <2>2. \E some \in [1 .. Len(channel') + 1 -> 0 .. Len(file')] : CutAt(some)'
    BY <1>1, <1>4, <2>1 DEF Cuts
  <2> QED
    BY <1>1, <1>3, <1>7, <2>2 DEF TaskInv
<1>8. CASE /\ UNCHANGED <<block, sent>> /\ sent = Len(file)
           /\ task' = IF block = <<>> THEN "end" ELSE "rest"
  <2>1. CutAt(cuts)'
    BY <1>1, <1>4, <1>5, <1>8 DEF CutAt, Contents, Position
  <2>2. \E some \in [1 .. Len(channel') + 1 -> 0 .. Len(file')] : CutAt(some)'
    BY <1>1, <1>4, <2>1 DEF Cuts
  <2> QED
    BY <1>1, <1>3, <1>8, <2>2 DEF TaskInv
<1>9. CASE /\ sent' \in sent .. Len(file) /\ block' = block \o SubSeq(file, sent + 1, sent')
           /\ task' = IF Len(block') >= BlockSize THEN "full" ELSE "pull"
  <2>1. block' = SubSeq(file, last + 1, sent')
    <3> DEFINE s == sent'
    <3>1. s \in sent .. Len(file) /\ block' = SubSeq(file, last + 1, sent) \o SubSeq(file, sent + 1, s)
      BY <1>5, <1>9
    <3>2. sent \in last .. Len(file)
      BY <1>5, <1>6
    <3> HIDE DEF s, last
    <3>3. SubSeq(file, last + 1, sent) \o SubSeq(file, sent + 1, s) = SubSeq(file, last + 1, s)
      BY <1>5, <1>6, <3>1, <3>2, PiecesJoin
    <3>4. block' = SubSeq(file, last + 1, s)
      BY <3>1, <3>3
    <3> QED
      BY <3>4 DEF s
  <2>2. last <= sent'
    <3> DEFINE s == sent'
    <3>1. s \in sent .. Len(file)
      BY <1>9
    <3>2. last \in Int /\ sent \in Int /\ last <= sent
      BY <1>5, <1>6
    <3> HIDE DEF s, last
    <3>3. last <= s
      BY <3>1, <3>2
    <3> QED
      BY <3>3 DEF s
  <2>3. CutAt(cuts)'
    BY <1>1, <1>4, <2>1, <2>2 DEF CutAt, Contents, Position
  <2>4. \E some \in [1 .. Len(channel') + 1 -> 0 .. Len(file')] : CutAt(some)'
    BY <1>1, <1>4, <2>3 DEF Cuts
  <2>5. task' = "full" => block' # <<>>
    <3>1. SUFFICES ASSUME task' = "full", block' = <<>> PROVE FALSE
      OBVIOUS
    <3>2. Len(block') >= BlockSize /\ Len(block') = 0
      BY <1>6, <1>9, <3>1
    <3> QED
      BY <3>2, RemoteAssumption
  <2>6. task' \in {"full", "pull"}
    BY <1>9
  <2> QED
    BY <1>1, <1>3, <2>4, <2>5, <2>6 DEF TaskInv
<1> QED
  BY <1>7, <1>8, <1>9, Pulled

LEMMA StreamStep ==
  ASSUME RemoteTyped, StreamInv, [Next]_vars
  PROVE  StreamInv'
<1> SUFFICES ASSUME outcome' = "none" PROVE HandInv' /\ TaskInv'
  BY DEF StreamInv
<1>1. ASSUME BodyBreaks \/ BadStatus \/ SendFails \/ Sleep \/ UNCHANGED vars
      PROVE  /\ outcome = "none" /\ task' = task
             /\ UNCHANGED <<op, file, got, current, opened, done, sent, channel, block>>
  <2>1. CASE BodyBreaks \/ BadStatus \/ SendFails
    <3>1. outcome = "none"
      BY <2>1 DEF BodyBreaks, BadStatus, SendFails, Requesting
    <3> QED
      BY <2>1, <3>1 DEF BodyBreaks, BadStatus, SendFails, AgainOrFail
  <2>2. CASE Sleep
    BY <2>2 DEF Sleep
  <2>3. CASE UNCHANGED vars
    BY <2>3 DEF vars
  <2> QED
    BY <1>1, <2>1, <2>2, <2>3
<1>2. CASE BodyBreaks \/ BadStatus \/ SendFails \/ Sleep \/ UNCHANGED vars
  BY <1>1, <1>2, HandSame, TaskSame DEF StreamInv
<1>3. ~Whole /\ ~EmptyRange /\ ~ReadEnd /\ ~Drop
  BY DEF Whole, EmptyRange, ReadEnd, Drop
<1>4. CASE FirstRead
  <2>1. HandInv' /\ op = "stream" /\ UNCHANGED <<op, task>> /\ outcome = "none"
    BY <1>4, FirstStep DEF FirstRead, Requesting
  <2> QED
    BY <2>1 DEF StreamInv, TaskInv
<1>5. CASE TaskGet \/ TaskPull \/ TaskSend \/ TaskDies
  <2>1. outcome = "none" /\ UNCHANGED <<op, file, got, current, opened, done>>
    BY <1>5 DEF TaskGet, TaskPull, TaskSend, TaskDies
  <2>2. HandInv /\ TaskInv
    BY <2>1 DEF StreamInv
  <2>3. op # "stream"
    BY <1>5, <2>2 DEF TaskInv, TaskGet, TaskPull, TaskSend, TaskDies
  <2>4. HandInv' /\ Position' = Position
    BY <2>1, <2>2, <2>3 DEF HandInv, Position
  <2>5. CASE TaskGet
    <3>1. UNCHANGED <<channel, sent, block>> /\ task = "get" /\ task' \in {"pull", "error"}
      BY <2>5 DEF TaskGet
    <3>2. PICK cuts \in [1 .. Len(channel) + 1 -> 0 .. Len(file)] : CutAt(cuts)
      BY <2>2, <3>1 DEF TaskInv
    <3>3. CutAt(cuts)'
      BY <2>1, <2>4, <3>1, <3>2 DEF CutAt, Contents
    <3> QED
      BY <2>1, <2>2, <2>4, <3>1, <3>2, <3>3 DEF TaskInv
  <2>6. CASE TaskDies
    <3>1. UNCHANGED <<channel, sent>> /\ task # "over" /\ task' = "over"
      BY <2>6 DEF TaskDies
    <3>2. PICK cuts \in [1 .. Len(channel) + 1 -> 0 .. Len(file)] : CutAt(cuts)
      BY <2>2, <3>1 DEF TaskInv
    <3>3. CutAt(cuts)'
      BY <2>1, <2>4, <3>1, <3>2 DEF CutAt, Contents
    <3> QED
      BY <2>1, <2>2, <2>4, <3>1, <3>2, <3>3 DEF TaskInv
  <2> QED
    BY <1>5, <2>4, <2>5, <2>6, TaskPullStep, TaskSendStep
<1>6. CASE Read
  <2>1. HandInv' /\ TaskInv
    BY <1>6, ReadStep DEF StreamInv
  <2> QED
    BY <1>6, <2>1, ReadStep, TaskSame
<1>7. CASE ReadBody
  <2>1. HandInv' /\ op = "stream" /\ UNCHANGED <<op, task>> /\ outcome = "none"
    BY <1>7, ReadBodyStep
  <2> QED
    BY <2>1 DEF StreamInv, TaskInv
<1>8. CASE Receive
  BY <1>8, ReceiveStep
<1> QED
  BY <1>2, <1>3, <1>4, <1>5, <1>6, <1>7, <1>8, RemoteSteps

LEMMA StreamInit == ASSUME Init, RemoteTyped PROVE StreamInv
<1>1. /\ got = <<>> /\ current = <<>> /\ ~done /\ ~opened /\ channel = <<>> /\ block = <<>>
      /\ sent = 0 /\ task = IF op = "store" THEN "get" ELSE "over"
  BY DEF Init
<1>2. Len(<<>>) = 0 /\ Len(file) \in Nat
  BY EmptySeq, LenProperties DEF RemoteTyped
<1>3. Position = 0 /\ Len(channel) = 0
  BY <1>1, <1>2 DEF Position
<1>4. \E cuts \in [1 .. Len(channel) + 1 -> 0 .. Len(file)] : CutAt(cuts)
  <2> DEFINE cuts == [i \in 1 .. 1 |-> 0]
  <2>1. cuts \in [1 .. Len(channel) + 1 -> 0 .. Len(file)]
    BY <1>2, <1>3
  <2>2. cuts[1] = 0 /\ Len(channel) + 1 = 1
    BY <1>3
  <2> HIDE DEF cuts
  <2>3. SubSeq(file, 0 + 1, 0) = <<>>
    BY SubSeqEmpty
  <2>4. CutAt(cuts)
    BY <1>1, <1>3, <2>2, <2>3 DEF CutAt
  <2> QED
    BY <2>1, <2>4
<1> QED
  BY <1>1, <1>4 DEF StreamInv, HandInv, TaskInv

-----------------------------------------------------------------------------
(***************************************************************************)
(* The refinement: each step delivers more of what was asked for, ends or  *)
(* stops the read, or changes nothing the caller sees.                     *)
(***************************************************************************)
LEMMA PrefixOfPrefix ==
  ASSUME NEW f \in Seq(Nat), NEW a \in 0 .. Len(f), NEW b \in a .. Len(f)
  PROVE  IsPrefix(SubSeq(f, 1, a), SubSeq(f, 1, b))
<1>1. Len(f) \in Nat /\ 0 \in 0 .. Len(f) /\ b \in 0 .. Len(f) /\ 0 + a = a /\ 0 + 1 = 1
  BY LenProperties
<1>2. Len(SubSeq(f, 0 + 1, a)) = a - 0 /\ Len(SubSeq(f, 0 + 1, b)) = b - 0
  BY <1>1, PieceType
<1>3. /\ SubSeq(SubSeq(f, 0 + 1, a), 1, a) = SubSeq(f, 0 + 1, 0 + a)
      /\ SubSeq(SubSeq(f, 0 + 1, b), 1, a) = SubSeq(f, 0 + 1, 0 + a)
  <2>1. a \in 0 .. a - 0 /\ a \in 0 .. b - 0 /\ b \in 0 .. Len(f)
    BY <1>1
  <2> QED
    BY <1>1, <2>1, PieceOfPiece
<1> QED
  BY <1>1, <1>2, <1>3 DEF IsPrefix

LEMMA SamePrefix == \A s, t : IsPrefix(s, t) <=> Stream!IsPrefix(s, t)
  BY DEF IsPrefix, Stream!IsPrefix

LEMMA Delivers ==
  ASSUME RemoteTyped, Asked = file, Asked' = Asked, outcome = "none", outcome' = "none",
         NEW to \in 1 .. Len(file), Len(got) < to, got = SubSeq(file, 1, Len(got)),
         got' = SubSeq(file, 1, to)
  PROVE  Stream!Deliver
<1> DEFINE g == Len(got)
<1>1. file \in Seq(Nat) /\ Len(file) \in Nat /\ g \in Nat /\ SubSeq(file, 1, Len(file)) = file
  BY LenProperties, SubSeqFull DEF RemoteTyped
<1>2. g < to /\ got = SubSeq(file, 1, g)
  OBVIOUS
<1> HIDE DEF g
<1>3. g \in 0 .. Len(file) /\ to \in g .. Len(file) /\ to \in 0 .. Len(file)
  BY <1>1, <1>2
<1>4. Len(file) \in to .. Len(file) /\ 0 \in 0 .. Len(file)
  BY <1>1
<1>5. IsPrefix(SubSeq(file, 1, g), SubSeq(file, 1, to))
  BY <1>1, <1>3, PrefixOfPrefix
<1>6. IsPrefix(SubSeq(file, 1, to), SubSeq(file, 1, Len(file)))
  BY <1>1, <1>3, <1>4, PrefixOfPrefix
<1>7. got' # got
  <2>1. Len(SubSeq(file, 0 + 1, to)) = to - 0
    BY <1>1, <1>3, <1>4, PieceType
  <2>2. Len(got') = to
    BY <1>3, <2>1
  <2>3. SUFFICES ASSUME got' = got PROVE FALSE
    OBVIOUS
  <2>4. Len(got') = g
    BY <2>3 DEF g
  <2> QED
    BY <1>1, <1>2, <1>3, <2>2, <2>4
<1>8. IsPrefix(got, got') /\ IsPrefix(got', Asked)
  BY <1>1, <1>2, <1>5, <1>6
<1> QED
  BY <1>7, <1>8, SamePrefix DEF Stream!Deliver

LEMMA PromiseStep ==
  ASSUME RemoteTyped, RetryInv, StreamInv, [Next]_vars
  PROVE  [Stream!Deliver \/ Stream!End \/ Stream!Stop]_<<Asked, got, outcome>>
<1>1. UNCHANGED <<op, file, range>>
  BY RemoteSteps DEF Whole, FirstRead, BodyBreaks, BadStatus, SendFails, AgainOrFail, Sleep, EmptyRange,
                     TaskGet, TaskPull, TaskSend, TaskDies, Receive, Read, ReadEnd, ReadBody, Drop, vars
<1>2. Asked' = Asked
  BY <1>1 DEF Asked, Part
<1>3. CASE Whole
  <2>1. got' = Asked /\ outcome = "none" /\ outcome' = "end" /\ got = <<>>
    BY <1>3, WholeIsExact DEF Whole, Requesting, RetryInv
  <2>2. CASE Asked = <<>>
    BY <1>2, <2>1, <2>2 DEF Stream!End
  <2>3. CASE Asked # <<>>
    <3>1. Asked \in Seq(Nat)
      BY AskedFor
    <3>2. Len(<<>>) = 0 /\ Len(Asked) \in Nat
      BY <3>1, EmptySeq, LenProperties
    <3>3. SubSeq(<<>>, 1, 0) = <<>> /\ SubSeq(Asked, 1, 0) = <<>>
      BY SubSeqEmpty
    <3>4. IsPrefix(<<>>, Asked) /\ IsPrefix(Asked, Asked)
      BY <3>2, <3>3 DEF IsPrefix
    <3> QED
      BY <1>2, <2>1, <2>3, <3>4, SamePrefix DEF Stream!Deliver
  <2> QED
    BY <2>2, <2>3
<1>4. CASE BodyBreaks \/ BadStatus \/ SendFails
  <2>1. /\ got' = got /\ outcome = "none"
        /\ outcome' = outcome \/ outcome' \in {"network", "status"}
    BY <1>4 DEF BodyBreaks, BadStatus, SendFails, Requesting, AgainOrFail
  <2> QED
    BY <1>2, <2>1 DEF Stream!Stop
<1>5. CASE FirstRead
  <2>1. got' = got /\ outcome = "none" /\ (outcome' = outcome \/ outcome' = "archive")
    BY <1>5, FirstBytes
  <2> QED
    BY <1>2, <2>1 DEF Stream!Stop
<1>6. CASE EmptyRange
  <2>1. /\ op = "get_range" /\ range[2] = 0 /\ outcome = "none" /\ outcome' = "end" /\ got' = got
    BY <1>6 DEF EmptyRange
  <2>2. got = <<>>
    <3>1. ~opened
      BY <2>1 DEF StreamInv, HandInv
    <3> QED
      BY <2>1, <3>1 DEF RetryInv
  <2>3. Asked = <<>>
    <3> DEFINE first == range[1]
               length == Len(file)
    <3>1. first \in Nat /\ length \in Nat /\ first \in Int /\ length \in Int
      BY LenProperties DEF RemoteTyped
    <3>2. Asked = SubSeq(file, first + 1, Min({first + 0, length}))
      BY <2>1 DEF Asked, Part
    <3> HIDE DEF first, length
    <3>3. first + 0 = first
      BY <3>1
    <3>4. Min({first, length}) \in {first, length} /\ Min({first, length}) <= first
      BY <3>1, MinOfTwo
    <3>5. Min({first, length}) \in Int /\ first + 1 \in Int /\ Min({first, length}) < first + 1
      BY <3>1, <3>4
    <3> QED
      BY <3>2, <3>3, <3>5, SubSeqEmpty
  <2> QED
    BY <1>2, <2>1, <2>2, <2>3 DEF Stream!End
<1>7. CASE Sleep \/ TaskGet \/ TaskPull \/ TaskSend \/ TaskDies \/ UNCHANGED vars
  <2>1. UNCHANGED <<got, outcome>>
    BY <1>7 DEF Sleep, TaskGet, TaskPull, TaskSend, TaskDies, vars
  <2> QED
    BY <1>2, <2>1
<1>8. CASE Receive
  <2>1. /\ got' = got /\ outcome = "none"
        /\ outcome' = outcome \/ outcome' \in {"ended early", "store", "archive"}
    BY <1>8, Received
  <2> QED
    BY <1>2, <2>1 DEF Stream!Stop
<1>9. CASE Read
  <2>1. op \in {"stream", "store"} /\ outcome = "none" /\ outcome' = outcome
    BY <1>9, ReadStep
  <2>2. Asked = file
    BY <2>1, AskedFor
  <2>3. PICK to \in 1 .. Len(file) : /\ Len(got) < to /\ got = SubSeq(file, 1, Len(got))
                                     /\ got' = SubSeq(file, 1, to)
    BY <1>9, ReadStep
  <2> QED
    BY <1>2, <2>1, <2>2, <2>3, Delivers
<1>10. CASE ReadBody
  <2>1. CASE outcome' = "network" /\ got' = got
    <3>1. outcome = "none"
      BY <1>10, ReadBodyStep
    <3> QED
      BY <1>2, <2>1, <3>1 DEF Stream!Stop
  <2>2. CASE outcome' = outcome /\ \E to \in 1 .. Len(file) :
                 /\ Len(got) < to /\ got = SubSeq(file, 1, Len(got)) /\ got' = SubSeq(file, 1, to)
    <3>1. op = "stream" /\ outcome = "none"
      BY <1>10, ReadBodyStep
    <3>2. Asked = file
      BY <3>1, AskedFor
    <3> QED
      BY <1>2, <2>2, <3>1, <3>2, Delivers
  <2> QED
    BY <1>10, <2>1, <2>2, ReadBodyStep
<1>11. CASE ReadEnd
  <2>1. /\ opened /\ outcome = "none" /\ current = <<>> /\ outcome' = "end" /\ got' = got
        /\ IF op = "store" THEN done ELSE sent = Len(file)
    BY <1>11 DEF ReadEnd, Reading
  <2>2. /\ op \in {"stream", "store"} /\ Position = Len(file) /\ got = SubSeq(file, 1, Len(got))
    BY <2>1 DEF StreamInv, HandInv
  <2>3. /\ file \in Seq(Nat) /\ Len(got) \in Nat /\ Len(<<>>) = 0 /\ SubSeq(file, 1, Len(file)) = file
    BY LenProperties, EmptySeq, SubSeqFull DEF RemoteTyped
  <2>4. Len(got) = Len(file)
    BY <2>1, <2>2, <2>3 DEF Position
  <2>5. got = file
    BY <2>2, <2>3, <2>4
  <2>6. Asked = file
    BY <2>2, AskedFor
  <2> QED
    BY <1>2, <2>1, <2>5, <2>6 DEF Stream!End
<1>12. CASE Drop
  BY <1>2, <1>12 DEF Drop, Reading, Stream!Stop
<1> QED
  BY <1>3, <1>4, <1>5, <1>6, <1>7, <1>8, <1>9, <1>10, <1>11, <1>12, RemoteSteps

(***************************************************************************)
(* Every remote read keeps the promise of ByteStream, for files of any     *)
(* length, any blocks and any cuts of the network: the caller gets the     *)
(* bytes it asked for in order and each once, a normal end only after the  *)
(* last of them, and an error if the download task died (HttpClient,       *)
(* BlockReader::read).                                                     *)
(***************************************************************************)
THEOREM PromiseKept == Spec => KeepsPromise
<1>1. Init => Stream!Start
  BY DEF Init, Stream!Start
<1>2. RemoteTyped /\ RetryInv /\ StreamInv /\ [Next]_vars
          => [Stream!Deliver \/ Stream!End \/ Stream!Stop]_<<Asked, got, outcome>>
  BY PromiseStep
<1>3. Init => RemoteTyped /\ RetryInv /\ StreamInv
  BY RemoteInit, RetryInit, StreamInit
<1>4. RemoteTyped /\ RetryInv /\ StreamInv /\ [Next]_vars => (RemoteTyped /\ RetryInv /\ StreamInv)'
  BY TypedStep, RetryStep, StreamStep
<1> QED
  BY <1>1, <1>2, <1>3, <1>4, PTL DEF Spec, KeepsPromise, Stream!Promise

=============================================================================
