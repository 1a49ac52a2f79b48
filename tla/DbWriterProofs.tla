---------------------------- MODULE DbWriterProofs ----------------------------
(***************************************************************************)
(* The database writer, for every stream of distinct rows, tables, sizes,  *)
(* retry budget, number of faults and of kills.                            *)
(*                                                                         *)
(* Every step of a coroutine is reduced to one of a few relations (a step  *)
(* of an attempt, a failure, a batch begun or left), and these to Flow:    *)
(* where a row can go in one step.  The two loss invariants follow from    *)
(* Flow alone; the refinement of EventSink needs in addition that every    *)
(* table streamed to is idempotent.                                        *)
(***************************************************************************)
EXTENDS DbWriter, FiniteSetTheorems, SequenceTheorems, WellFoundedInduction, TLAPS

-----------------------------------------------------------------------------
(* Sequences and their elements *)

\* The elements of a sequence.
LEMMA ToSetType ==
  ASSUME NEW S, NEW s \in Seq(S)
  PROVE  /\ ToSet(s) \subseteq S
         /\ ToSet(s) = {s[i] : i \in 1..Len(s)}
         /\ s = <<>> <=> ToSet(s) = {}
<1>1. DOMAIN s = 1..Len(s) /\ Len(s) \in Nat
  OBVIOUS
<1>2. ToSet(s) = {s[i] : i \in 1..Len(s)}
  BY <1>1 DEF ToSet
<1>3. CASE s = <<>>
  BY <1>1, <1>2, <1>3
<1>4. CASE s # <<>>
  <2>1. s[1] \in ToSet(s)
    BY <1>1, <1>2, <1>4, EmptySeq
  <2>2. QED
    BY <1>2, <1>4, <2>1, ElementOfSeq
<1>5. QED
  BY <1>3, <1>4

\* Of the empty one.
LEMMA ToSetEmpty == ToSet(<<>>) = {}
BY DEF ToSet

\* Of a longer one.
LEMMA ToSetAppend ==
  ASSUME NEW S, NEW s \in Seq(S), NEW e \in S
  PROVE  Append(s, e) \in Seq(S) /\ ToSet(Append(s, e)) = ToSet(s) \cup {e}
<1> DEFINE a == Append(s, e)
<1>1. /\ a \in Seq(S) /\ Len(a) = Len(s) + 1
      /\ \A i \in 1..Len(s) : a[i] = s[i]
      /\ a[Len(s) + 1] = e
  BY AppendProperties
<1> HIDE DEF a
<1>2. ToSet(a) = {a[i] : i \in 1..Len(a)} /\ ToSet(s) = {s[i] : i \in 1..Len(s)}
  BY <1>1, ToSetType
<1>3. Len(s) \in Nat
  OBVIOUS
<1>4. QED
  BY <1>1, <1>2, <1>3 DEF a

\* Of a shorter one.
LEMMA ToSetTail ==
  ASSUME NEW S, NEW s \in Seq(S), s # <<>>
  PROVE  /\ Head(s) \in S /\ Tail(s) \in Seq(S) /\ Len(Tail(s)) = Len(s) - 1
         /\ ToSet(s) = {Head(s)} \cup ToSet(Tail(s))
<1> DEFINE u == Tail(s)
<1>1. /\ Head(s) \in S /\ u \in Seq(S) /\ Len(u) = Len(s) - 1
      /\ \A i \in 1..Len(u) : u[i] = s[i + 1]
  BY HeadTailProperties
<1>2. Head(s) = s[1]
  OBVIOUS
<1> HIDE DEF u
<1>3. ToSet(u) = {u[i] : i \in 1..Len(u)} /\ ToSet(s) = {s[i] : i \in 1..Len(s)}
  BY <1>1, ToSetType
<1>4. Len(s) \in Nat /\ Len(s) # 0
  BY EmptySeq
<1>5. ToSet(s) \subseteq {s[1]} \cup ToSet(u)
  <2> SUFFICES ASSUME NEW i \in 1..Len(s), i # 1 PROVE s[i] \in ToSet(u)
    BY <1>3
  <2>1. i - 1 \in 1..Len(u) /\ u[i - 1] = s[(i - 1) + 1]
    BY <1>1, <1>4
  <2>2. QED
    BY <1>3, <2>1
<1>6. {s[1]} \cup ToSet(u) \subseteq ToSet(s)
  BY <1>1, <1>3, <1>4
<1>7. QED
  BY <1>1, <1>2, <1>5, <1>6 DEF u

\* Of a sequence cut in two.
LEMMA ToSetCut ==
  ASSUME NEW S, NEW s \in Seq(S), NEW n \in 0..Len(s)
  PROVE  LET a == SubSeq(s, 1, n)
             b == SubSeq(s, n + 1, Len(s))
         IN  /\ a \in Seq(S) /\ b \in Seq(S) /\ Len(a) = n
             /\ ToSet(s) = ToSet(a) \cup ToSet(b)
<1> DEFINE a == SubSeq(s, 1, n)
           b == SubSeq(s, n + 1, Len(s))
<1>0. Len(s) \in Nat /\ n \in Int /\ \A i \in 1..Len(s) : s[i] \in S
  BY ElementOfSeq
<1>1. /\ a \in Seq(S) /\ Len(a) = n
      /\ \A i \in 1..n : a[i] = s[i]
  <2>1. \A i \in 1..n : s[i] \in S
    BY <1>0
  <2>2. /\ a \in Seq(S) /\ Len(a) = IF 1 <= n THEN n - 1 + 1 ELSE 0
        /\ \A i \in 1..(n - 1 + 1) : a[i] = s[1 + i - 1]
    BY <1>0, <2>1, SubSeqProperties
  <2>3. QED
    BY <1>0, <2>2
<1>2. /\ b \in Seq(S) /\ Len(b) = Len(s) - n
      /\ \A i \in 1..(Len(s) - n) : b[i] = s[n + i]
  <2>1. n + 1 \in Int /\ Len(s) \in Int /\ \A i \in (n + 1)..Len(s) : s[i] \in S
    BY <1>0
  <2>2. /\ b \in Seq(S) /\ Len(b) = IF n + 1 <= Len(s) THEN Len(s) - (n + 1) + 1 ELSE 0
        /\ \A i \in 1..(Len(s) - (n + 1) + 1) : b[i] = s[(n + 1) + i - 1]
    BY <2>1, SubSeqProperties
  <2>3. QED
    BY <1>0, <2>2
<1> HIDE DEF a, b
<1>3. /\ ToSet(a) = {a[i] : i \in 1..Len(a)} /\ ToSet(b) = {b[i] : i \in 1..Len(b)}
      /\ ToSet(s) = {s[i] : i \in 1..Len(s)}
  BY <1>1, <1>2, ToSetType
<1>4. ToSet(s) \subseteq ToSet(a) \cup ToSet(b)
  <2> SUFFICES ASSUME NEW i \in 1..Len(s) PROVE s[i] \in ToSet(a) \cup ToSet(b)
    BY <1>3
  <2>1. CASE i <= n
    BY <1>0, <1>1, <1>3, <2>1
  <2>2. CASE i > n
    <3>1. i - n \in 1..(Len(s) - n) /\ n + (i - n) = i
      BY <1>0, <2>2
    <3>2. QED
      BY <1>2, <1>3, <3>1
  <2>3. QED
    BY <1>0, <2>1, <2>2
<1>5. ToSet(a) \cup ToSet(b) \subseteq ToSet(s)
  <2>1. \A i \in 1..n : i \in 1..Len(s)
    BY <1>0
  <2>2. \A i \in 1..(Len(s) - n) : n + i \in 1..Len(s)
    BY <1>0
  <2>3. ToSet(a) \subseteq ToSet(s)
    BY <1>1, <1>3, <2>1
  <2>4. ToSet(b) \subseteq ToSet(s)
    BY <1>2, <1>3, <2>2
  <2>5. QED
    BY <2>3, <2>4
<1>6. QED
  BY <1>1, <1>2, <1>4, <1>5 DEF a, b

\* A set of naturals has a least element.
LEMMA LeastIndex ==
  ASSUME NEW I \in SUBSET Nat, I # {}
  PROVE  \E i \in I : \A j \in I : i <= j
<1>1. IsWellFoundedOn(OpToRel(<, Nat), Nat)
  BY NatLessThanWellFounded
<1>2. PICK i \in I : \A j \in I : ~(<<j, i>> \in OpToRel(<, Nat))
  BY <1>1, WFMin
<1>3. \A j \in I : ~(j < i)
  BY <1>2 DEF OpToRel
<1>4. QED
  BY <1>3

\* First finds a row of S in the batch, if there is one.
LEMMA FirstIn ==
  ASSUME NEW t \in Writers, NEW S, w[t].batch \in Seq(Rows), S \cap ToSet(w[t].batch) # {}
  PROVE  First(t, S) \in S /\ First(t, S) \in ToSet(w[t].batch)
<1> DEFINE b == w[t].batch
           I == {i \in DOMAIN b : b[i] \in S}
           P(i) == b[i] \in S /\ \A j \in 1..(i - 1) : b[j] \notin S
<1>1. DOMAIN b = 1..Len(b) /\ Len(b) \in Nat
  OBVIOUS
<1>2. I \in SUBSET Nat /\ I # {}
  BY <1>1 DEF ToSet
<1>3. PICK i \in I : \A j \in I : i <= j
  BY <1>2, LeastIndex
<1>4. \E k \in DOMAIN b : P(k)
  <2>1. \A j \in 1..(i - 1) : j \in DOMAIN b /\ j < i
    BY <1>1, <1>3
  <2>2. P(i)
    BY <1>1, <1>3, <2>1
  <2>3. QED
    BY <1>3, <2>2
<1> DEFINE k == CHOOSE k \in DOMAIN b : P(k)
<1>5. k \in DOMAIN b /\ P(k)
  BY <1>4
<1>6. First(t, S) = b[k]
  BY DEF First
<1>7. QED
  BY <1>5, <1>6 DEF ToSet

-----------------------------------------------------------------------------
(* The invariants *)

\* What a writing coroutine keeps.
Coroutine ==
  [pc : {"off", "top", "collect", "write", "rows", "done"}, batch : Seq(Rows),
   left : SUBSET Rows, rows : SUBSET Rows, attempt : 0..(RETRY_ATTEMPTS - 1)]

\* The rows committed.
Stored == {r \in Rows : db[r] > 0}

\* The rows taken from the wire and not disposed of.
Held == ToSet(queue) \cup ToSet(remaining) \cup UNION {ToSet(w[t].batch) : t \in Writers}

\* The rows of t's batch that this attempt is done with.
Handled(t) ==
  IF w[t].pc \in {"write", "rows"} THEN ToSet(w[t].batch) \ (w[t].left \cup w[t].rows) ELSE {}

\* What an attempt has still to write is of its batch; it has seen a fault per retry.
Fits(t) ==
  /\ w[t].left \cup w[t].rows \subseteq ToSet(w[t].batch)
  /\ w[t].rows \cap Unknown = {}
  /\ w[t].pc = "rows" <=> w[t].rows # {}
  /\ w[t].pc \in {"off", "top", "done"} => w[t].batch = <<>>
  /\ w[t].attempt <= faults

\* Which coroutine is active when; the drain leaves nothing behind.
ControlInv ==
  /\ \A t \in Writers : Fits(t)
  /\ stopping \in {"no", "asked"} => w["drain"].pc = "off"
  /\ stopping = "exited" => \A t \in Writers : w[t].pc = "done"
  /\ w["drain"].pc \in {"off", "done"} => remaining = <<>>
  /\ w["drain"].pc # "collect"
  /\ stopping = "killed" => crashes > 0 /\ remaining = <<>>

\* A row is stored at most once and only if valid, parked only if not.
SinkInv ==
  /\ \A r \in Rows : db[r] \in {0, 1} /\ (db[r] = 1 => r \in sent \cap Valid)
  /\ dead \subseteq sent \ Valid

\* Without a kill, what was received and is no longer held is accounted for.
LossInv ==
  crashes = 0 =>
    /\ received \subseteq Held \cup Stored \cup dead \cup logged \cup dropped
    /\ \A t \in Writers : Handled(t) \subseteq Stored \cup dead \cup logged

\* Within the retry budget and without a kill, it is stored, unless no table takes it or
\* it was dropped at once.
OutageInv ==
  faults < RETRY_ATTEMPTS /\ crashes = 0 =>
    /\ received \cap Valid \subseteq Held \cup Stored \cup dropped
    /\ \A t \in Writers : Handled(t) \cap Valid \subseteq Stored

-----------------------------------------------------------------------------
(* The steps, one relation for each kind *)

\* What t's attempt has still to write.
Left(t) == w[t].left \cup w[t].rows

\* Only t moves.
Others(t) == \A u \in Writers : u # t => w'[u] = w[u]

\* A step inside an attempt: some of its rows are stored, or parked, or reported.
Attempt(t) ==
  /\ w' \in [Writers -> Coroutine] /\ Others(t)
  /\ w[t].pc \in {"write", "rows"} /\ w'[t].pc \in {"write", "rows"}
  /\ w'[t].batch = w[t].batch /\ w'[t].attempt = w[t].attempt
  /\ w'[t].rows \cap Unknown = {} /\ (w'[t].pc = "rows" <=> w'[t].rows # {})
  /\ \E D \in SUBSET Left(t) :
       /\ Left(t) \ D \subseteq w'[t].left \cup w'[t].rows
       /\ w'[t].left \cup w'[t].rows \subseteq Left(t)
       /\ \/ D \subseteq Valid /\ db' = Insert(D) /\ UNCHANGED <<dead, logged, faults>>
          \/ D \cap Valid = {} /\ UNCHANGED db /\ dead' = dead \cup D /\ UNCHANGED <<logged, faults>>
          \/ /\ D \cap Valid = {} /\ UNCHANGED <<db, dead>> /\ logged' = logged \cup D
             /\ faults < MaxFaults /\ faults' = faults + 1
  /\ UNCHANGED <<sent, wire, sub, queue, received, dropped, remaining, stopping, crashes>>

\* A statement that fails: the batch starts over, or is reported and given up, after the
\* last retry or at once.
Fails(t) ==
  /\ w' \in [Writers -> Coroutine] /\ Others(t)
  /\ w[t].pc \in {"write", "rows"}
  /\ faults < MaxFaults /\ faults' = faults + 1
  /\ \E D \in SUBSET (Left(t) \cap Valid) : db' = db \/ db' = Insert(D)
  /\ \/ /\ w'[t].pc = "write" /\ w'[t].rows = {} /\ w'[t].left = ToSet(w[t].batch)
        /\ w'[t].batch = w[t].batch /\ w'[t].attempt = w[t].attempt + 1
        /\ UNCHANGED <<logged, dropped>>
     \/ /\ w'[t] = Idle("top")
        /\ w[t].attempt + 1 >= RETRY_ATTEMPTS
        /\ logged' = logged \cup ToSet(w[t].batch) /\ UNCHANGED dropped
     \/ /\ w'[t] = Idle("top")
        /\ dropped' = dropped \cup ToSet(w[t].batch) /\ UNCHANGED logged
  /\ UNCHANGED <<sent, wire, sub, queue, received, remaining, stopping, dead, crashes>>

\* The types of a coroutine.
LEMMA Typed ==
  ASSUME TypeOK, NEW t \in Writers
  PROVE  /\ w \in [Writers -> Coroutine] /\ w[t] \in Coroutine
         /\ w[t].batch \in Seq(Rows) /\ w[t].left \subseteq Rows /\ w[t].rows \subseteq Rows
         /\ w[t].attempt \in 0..(RETRY_ATTEMPTS - 1)
         /\ w[t].pc \in {"off", "top", "collect", "write", "rows", "done"}
         /\ ToSet(w[t].batch) \subseteq Rows
<1>1. w \in [Writers -> Coroutine]
  BY DEF TypeOK, Coroutine
<1>2. w[t] \in Coroutine
  BY <1>1
<1>3. /\ w[t].batch \in Seq(Rows) /\ w[t].left \subseteq Rows /\ w[t].rows \subseteq Rows
      /\ w[t].attempt \in 0..(RETRY_ATTEMPTS - 1)
      /\ w[t].pc \in {"off", "top", "collect", "write", "rows", "done"}
  BY <1>2 DEF Coroutine
<1>4. QED
  BY <1>1, <1>2, <1>3, ToSetType

\* A coroutine replaced.
LEMMA Replaced ==
  ASSUME w \in [Writers -> Coroutine], NEW t \in Writers, NEW c \in Coroutine,
         w' = [w EXCEPT ![t] = c]
  PROVE  w' \in [Writers -> Coroutine] /\ w'[t] = c /\ Others(t)
BY DEF Others

\* An idle coroutine.
LEMMA IdleFields ==
  ASSUME NEW pc \in {"off", "top", "collect", "write", "rows", "done"}
  PROVE  /\ Idle(pc) \in Coroutine
         /\ Idle(pc).pc = pc /\ Idle(pc).batch = <<>> /\ Idle(pc).left = {} /\ Idle(pc).rows = {}
         /\ Idle(pc).attempt = 0
<1>1. 0 \in 0..(RETRY_ATTEMPTS - 1)
  BY WriterAssumption
<1>2. <<>> \in Seq(Rows)
  OBVIOUS
<1>3. QED
  BY <1>1, <1>2 DEF Idle, Coroutine

\* A coroutine that begins a batch.
LEMMA BeginFields ==
  ASSUME NEW b \in Seq(Rows)
  PROVE  LET c == [Idle("write") EXCEPT !.batch = b, !.left = ToSet(b)] IN
         /\ c \in Coroutine
         /\ c.pc = "write" /\ c.batch = b /\ c.left = ToSet(b) /\ c.rows = {} /\ c.attempt = 0
<1>1. 0 \in 0..(RETRY_ATTEMPTS - 1)
  BY WriterAssumption
<1>2. ToSet(b) \in SUBSET Rows
  BY ToSetType
<1>3. QED
  BY <1>1, <1>2 DEF Idle, Coroutine

\* Dead-lettering a row of an unknown table is a step inside an attempt.
LEMMA UnknownAttempt ==
  ASSUME TypeOK, ControlInv, NEW t \in Writers, DeadLetterUnknown(t)
  PROVE  Attempt(t)
<1> DEFINE r == First(t, w[t].left \cap Unknown)
           c == [w[t] EXCEPT !.left = @ \ {r}]
<1>0. Fits(t)
  BY DEF ControlInv
<1>1. r \in w[t].left /\ r \in Unknown
  <2>1. w[t].left \cap Unknown \cap ToSet(w[t].batch) # {}
    BY <1>0 DEF DeadLetterUnknown, Fits
  <2>2. QED
    BY <2>1, FirstIn, Typed
<1>2. w[t].pc = "write" /\ DeadLetter(r) /\ w' = [w EXCEPT ![t] = c]
  BY DEF DeadLetterUnknown
<1>3. UNCHANGED <<sent, wire, sub, queue, received, dropped, remaining, stopping, db, crashes>>
  BY DEF DeadLetterUnknown
<1> HIDE DEF r
<1>4. /\ c \in Coroutine /\ c.left = w[t].left \ {r} /\ c.rows = w[t].rows /\ c.pc = w[t].pc
      /\ c.batch = w[t].batch /\ c.attempt = w[t].attempt
  BY Typed DEF Coroutine
<1> HIDE DEF c
<1>5. w' \in [Writers -> Coroutine] /\ w'[t] = c /\ Others(t)
  BY <1>2, <1>4, Typed, Replaced
<1>6. \E D \in SUBSET Left(t) :
        /\ Left(t) \ D \subseteq w'[t].left \cup w'[t].rows
        /\ w'[t].left \cup w'[t].rows \subseteq Left(t)
        /\ \/ D \cap Valid = {} /\ UNCHANGED db /\ dead' = dead \cup D /\ UNCHANGED <<logged, faults>>
           \/ /\ D \cap Valid = {} /\ UNCHANGED <<db, dead>> /\ logged' = logged \cup D
              /\ faults < MaxFaults /\ faults' = faults + 1
  <2>1. {r} \in SUBSET Left(t) /\ {r} \cap Valid = {}
    BY <1>1 DEF Left, Valid
  <2>2. Left(t) \ {r} \subseteq w'[t].left \cup w'[t].rows /\ w'[t].left \cup w'[t].rows \subseteq Left(t)
    BY <1>4, <1>5 DEF Left
  <2>3. \/ dead' = dead \cup {r} /\ UNCHANGED <<logged, faults>>
        \/ UNCHANGED dead /\ logged' = logged \cup {r} /\ faults < MaxFaults /\ faults' = faults + 1
    BY <1>2 DEF DeadLetter
  <2>4. QED
    BY <1>3, <2>1, <2>2, <2>3
<1>7. QED
  BY <1>0, <1>2, <1>3, <1>4, <1>5, <1>6 DEF Attempt, Fits

\* The bulk INSERT that is due.
LEMMA BulkFacts ==
  ASSUME TypeOK, ControlInv, NEW t \in Writers, BulkDue(t)
  PROVE  /\ w[t].pc = "write" /\ w[t].rows = {} /\ Bulk(t) \subseteq w[t].left /\ Bulk(t) # {}
         /\ Bulk(t) \subseteq Rows /\ Bulk(t) \cap Unknown = {}
<1>0. Fits(t)
  BY DEF ControlInv
<1>1. First(t, w[t].left) \in w[t].left
  <2>1. w[t].left \cap ToSet(w[t].batch) # {}
    BY <1>0 DEF BulkDue, Fits
  <2>2. QED
    BY <2>1, FirstIn, Typed
<1>2. w[t].pc = "write" /\ w[t].rows = {}
  BY <1>0 DEF BulkDue, Fits
<1>3. w[t].left \subseteq Rows /\ w[t].left \cap Unknown = {}
  BY Typed DEF BulkDue
<1>4. QED
  BY <1>1, <1>2, <1>3 DEF Bulk

\* So is the bulk INSERT,
LEMMA InsertAttempt ==
  ASSUME TypeOK, ControlInv, NEW t \in Writers, InsertTable(t)
  PROVE  Attempt(t)
<1> DEFINE c == [w[t] EXCEPT !.left = @ \ Bulk(t)]
<1>1. BulkDue(t) /\ Bulk(t) \cap Poison = {} /\ db' = Insert(Bulk(t)) /\ w' = [w EXCEPT ![t] = c]
  BY DEF InsertTable
<1>2. UNCHANGED <<sent, wire, sub, queue, received, dropped, remaining, stopping, dead, logged, faults, crashes>>
  BY DEF InsertTable
<1>3. /\ w[t].pc = "write" /\ w[t].rows = {} /\ Bulk(t) \subseteq w[t].left
      /\ Bulk(t) \subseteq Rows /\ Bulk(t) \cap Unknown = {}
  BY <1>1, BulkFacts
<1>4. /\ c \in Coroutine /\ c.left = w[t].left \ Bulk(t) /\ c.rows = w[t].rows /\ c.pc = w[t].pc
      /\ c.batch = w[t].batch /\ c.attempt = w[t].attempt
  BY Typed DEF Coroutine
<1> HIDE DEF c
<1>5. w' \in [Writers -> Coroutine] /\ w'[t] = c /\ Others(t)
  BY <1>1, <1>4, Typed, Replaced
<1>6. /\ Bulk(t) \in SUBSET Left(t) /\ Bulk(t) \subseteq Valid
      /\ Left(t) \ Bulk(t) \subseteq w'[t].left \cup w'[t].rows
      /\ w'[t].left \cup w'[t].rows \subseteq Left(t)
  BY <1>1, <1>3, <1>4, <1>5 DEF Left, Valid
<1>7. QED
  BY <1>1, <1>2, <1>3, <1>4, <1>5, <1>6 DEF Attempt

\* its refusal,
LEMMA RefusedAttempt ==
  ASSUME TypeOK, ControlInv, NEW t \in Writers, BulkRefused(t)
  PROVE  Attempt(t)
<1> DEFINE c == [w[t] EXCEPT !.pc = "rows", !.rows = Bulk(t), !.left = @ \ Bulk(t)]
<1>1. BulkDue(t) /\ w' = [w EXCEPT ![t] = c]
  BY DEF BulkRefused
<1>2. UNCHANGED <<sent, wire, sub, queue, received, dropped, remaining, stopping, db, dead, logged, faults, crashes>>
  BY DEF BulkRefused
<1>3. /\ w[t].pc = "write" /\ w[t].rows = {} /\ Bulk(t) \subseteq w[t].left /\ Bulk(t) # {}
      /\ Bulk(t) \subseteq Rows /\ Bulk(t) \cap Unknown = {}
  BY <1>1, BulkFacts
<1>4. /\ c \in Coroutine /\ c.left = w[t].left \ Bulk(t) /\ c.rows = Bulk(t) /\ c.pc = "rows"
      /\ c.batch = w[t].batch /\ c.attempt = w[t].attempt
  BY <1>3, Typed DEF Coroutine
<1> HIDE DEF c
<1>5. w' \in [Writers -> Coroutine] /\ w'[t] = c /\ Others(t)
  BY <1>1, <1>4, Typed, Replaced
<1>6. /\ {} \in SUBSET Left(t) /\ {} \cap Valid = {} /\ dead' = dead \cup {}
      /\ Left(t) \ {} \subseteq w'[t].left \cup w'[t].rows
      /\ w'[t].left \cup w'[t].rows \subseteq Left(t)
  BY <1>2, <1>3, <1>4, <1>5 DEF Left
<1>7. QED
  BY <1>1, <1>2, <1>3, <1>4, <1>5, <1>6 DEF Attempt

\* (the row the per-row fallback writes next)
LEMMA RowFirst ==
  ASSUME TypeOK, ControlInv, NEW t \in Writers, w[t].pc = "rows"
  PROVE  /\ First(t, w[t].rows) \in w[t].rows /\ First(t, w[t].rows) \in Rows
         /\ First(t, w[t].rows) \notin Unknown
<1>0. Fits(t)
  BY DEF ControlInv
<1>1. w[t].rows \cap ToSet(w[t].batch) # {}
  BY <1>0 DEF Fits
<1>2. First(t, w[t].rows) \in w[t].rows
  BY <1>1, FirstIn, Typed
<1>3. QED
  BY <1>0, <1>2, Typed DEF Fits

\* and the write of one row.
LEMMA RowAttempt ==
  ASSUME TypeOK, ControlInv, NEW t \in Writers, WriteRow(t)
  PROVE  Attempt(t)
<1> DEFINE r == First(t, w[t].rows)
           c == [w[t] EXCEPT !.rows = @ \ {r}, !.pc = IF w[t].rows = {r} THEN "write" ELSE "rows"]
<1>0. Fits(t)
  BY DEF ControlInv
<1>1. /\ w[t].pc = "rows" /\ w' = [w EXCEPT ![t] = c]
      /\ IF r \in Poison THEN DeadLetter(r) /\ UNCHANGED db
                         ELSE db' = Insert({r}) /\ UNCHANGED <<dead, logged, faults>>
  BY DEF WriteRow
<1>2. UNCHANGED <<sent, wire, sub, queue, received, dropped, remaining, stopping, crashes>>
  BY DEF WriteRow
<1>3. r \in w[t].rows /\ r \in Rows /\ r \notin Unknown
  BY <1>1, RowFirst
<1> HIDE DEF r
<1>4. /\ c \in Coroutine /\ c.rows = w[t].rows \ {r} /\ c.left = w[t].left
      /\ c.pc = (IF w[t].rows = {r} THEN "write" ELSE "rows")
      /\ c.batch = w[t].batch /\ c.attempt = w[t].attempt
  BY <1>1, Typed DEF Coroutine
<1> HIDE DEF c
<1>5. w' \in [Writers -> Coroutine] /\ w'[t] = c /\ Others(t)
  BY <1>1, <1>4, Typed, Replaced
<1>6. /\ {r} \in SUBSET Left(t)
      /\ Left(t) \ {r} \subseteq w'[t].left \cup w'[t].rows
      /\ w'[t].left \cup w'[t].rows \subseteq Left(t)
  BY <1>3, <1>4, <1>5 DEF Left
<1>7. \/ {r} \subseteq Valid /\ db' = Insert({r}) /\ UNCHANGED <<dead, logged, faults>>
      \/ {r} \cap Valid = {} /\ UNCHANGED db /\ dead' = dead \cup {r} /\ UNCHANGED <<logged, faults>>
      \/ /\ {r} \cap Valid = {} /\ UNCHANGED <<db, dead>> /\ logged' = logged \cup {r}
         /\ faults < MaxFaults /\ faults' = faults + 1
  BY <1>1, <1>3 DEF Valid, DeadLetter
<1>8. \E D \in SUBSET Left(t) :
        /\ Left(t) \ D \subseteq w'[t].left \cup w'[t].rows
        /\ w'[t].left \cup w'[t].rows \subseteq Left(t)
        /\ \/ D \subseteq Valid /\ db' = Insert(D) /\ UNCHANGED <<dead, logged, faults>>
           \/ D \cap Valid = {} /\ UNCHANGED db /\ dead' = dead \cup D /\ UNCHANGED <<logged, faults>>
           \/ /\ D \cap Valid = {} /\ UNCHANGED <<db, dead>> /\ logged' = logged \cup D
              /\ faults < MaxFaults /\ faults' = faults + 1
  BY <1>6, <1>7
<1>9. w'[t].rows \cap Unknown = {} /\ (w'[t].pc = "rows" <=> w'[t].rows # {})
  BY <1>0, <1>3, <1>4, <1>5 DEF Fits
<1>10. QED
  BY <1>1, <1>2, <1>4, <1>5, <1>8, <1>9 DEF Attempt

\* What a failing statement may have stored.
LEMMA StatementLanding ==
  ASSUME TypeOK, ControlInv, NEW t \in Writers, StatementFails(t)
  PROVE  /\ w[t].pc \in {"write", "rows"} /\ faults < MaxFaults /\ faults' = faults + 1
         /\ \E D \in SUBSET (Left(t) \cap Valid) : db' = db \/ db' = Insert(D)
<1> DEFINE S == Statement(t)
<1>0. Fits(t)
  BY DEF ControlInv
<1>1. /\ S # {} /\ faults < MaxFaults /\ faults' = faults + 1
      /\ UNCHANGED db \/ (S \cap Poison = {} /\ db' = Insert(S))
  BY DEF StatementFails
<1>2. w[t].pc \in {"write", "rows"} /\ S \subseteq Left(t) /\ S \subseteq Rows /\ S \cap Unknown = {}
  <2>1. CASE w[t].pc = "rows"
    BY <1>0, <2>1, RowFirst DEF Statement, Left
  <2>2. CASE w[t].pc # "rows"
    BY <1>0, <1>1, <2>2, BulkFacts DEF Statement, Left
  <2>3. QED
    BY <2>1, <2>2
<1>3. \E D \in SUBSET (Left(t) \cap Valid) : db' = db \/ db' = Insert(D)
  <2>1. CASE UNCHANGED db
    BY <2>1
  <2>2. CASE S \cap Poison = {} /\ db' = Insert(S)
    BY <1>2, <2>2 DEF Valid
  <2>3. QED
    BY <1>1, <2>1, <2>2
<1>4. QED
  BY <1>1, <1>2, <1>3

\* RaisedAtOnce is a failure as Fails has it,
LEMMA RaisedFails ==
  ASSUME TypeOK, ControlInv, NEW t \in Writers, RaisedAtOnce(t)
  PROVE  Fails(t)
<1>1. /\ w' = [w EXCEPT ![t] = Idle("top")]
      /\ dropped' = dropped \cup ToSet(w[t].batch) /\ UNCHANGED logged
      /\ UNCHANGED <<sent, wire, sub, queue, received, remaining, stopping, dead, crashes>>
  BY DEF RaisedAtOnce
<1>2. w' \in [Writers -> Coroutine] /\ w'[t] = Idle("top") /\ Others(t)
  BY <1>1, Typed, IdleFields, Replaced
<1>3. QED
  BY <1>1, <1>2, StatementLanding DEF RaisedAtOnce, Fails

\* and so is Transient.
LEMMA TransientFails ==
  ASSUME TypeOK, ControlInv, NEW t \in Writers, Transient(t)
  PROVE  Fails(t)
<1>2. UNCHANGED <<sent, wire, sub, queue, received, dropped, remaining, stopping, dead, crashes>>
  BY DEF Transient
<1>3. /\ w[t].pc \in {"write", "rows"} /\ faults < MaxFaults /\ faults' = faults + 1
      /\ \E D \in SUBSET (Left(t) \cap Valid) : db' = db \/ db' = Insert(D)
  BY StatementLanding DEF Transient
<1>5. CASE w[t].attempt + 1 < RETRY_ATTEMPTS
  <2> DEFINE c == [w[t] EXCEPT !.pc = "write", !.rows = {}, !.attempt = @ + 1, !.left = ToSet(w[t].batch)]
  <2>1. w' = [w EXCEPT ![t] = c] /\ UNCHANGED logged
    BY <1>5 DEF Transient, Retry
  <2>2. w[t].attempt + 1 \in 0..(RETRY_ATTEMPTS - 1)
    BY <1>5, Typed, WriterAssumption
  <2>3. /\ c \in Coroutine /\ c.rows = {} /\ c.left = ToSet(w[t].batch) /\ c.pc = "write"
        /\ c.batch = w[t].batch /\ c.attempt = w[t].attempt + 1
    BY <2>2, Typed DEF Coroutine
  <2> HIDE DEF c
  <2>4. w' \in [Writers -> Coroutine] /\ w'[t] = c /\ Others(t)
    BY <2>1, <2>3, Typed, Replaced
  <2>5. QED
    BY <1>2, <1>3, <2>1, <2>3, <2>4 DEF Fails
<1>6. CASE ~(w[t].attempt + 1 < RETRY_ATTEMPTS)
  <2>1. w' = [w EXCEPT ![t] = Idle("top")] /\ logged' = logged \cup ToSet(w[t].batch)
    BY <1>6 DEF Transient
  <2>2. w[t].attempt + 1 >= RETRY_ATTEMPTS
    BY <1>6, Typed, WriterAssumption
  <2>3. w' \in [Writers -> Coroutine] /\ w'[t] = Idle("top") /\ Others(t)
    BY <2>1, Typed, IdleFields, Replaced
  <2>4. QED
    BY <1>2, <1>3, <2>1, <2>2, <2>3 DEF Fails
<1>7. QED
  BY <1>5, <1>6
\* t begins the batch b; t has no batch.
Begins(t, b) ==
  /\ w' \in [Writers -> Coroutine] /\ Others(t)
  /\ w'[t].pc = "write" /\ w'[t].batch = b /\ w'[t].left = ToSet(b)
  /\ w'[t].rows = {} /\ w'[t].attempt = 0

Moves(t, pc) ==
  /\ w' \in [Writers -> Coroutine] /\ Others(t)
  /\ w'[t].pc = pc /\ w'[t].batch = <<>> /\ w'[t].left = {} /\ w'[t].rows = {}
  /\ w'[t].attempt = 0 \/ w'[t].attempt = w[t].attempt

\* No batch, nothing to write.
LEMMA Empties ==
  ASSUME TypeOK, ControlInv, NEW t \in Writers, w[t].batch = <<>>
  PROVE  w[t].left = {} /\ w[t].rows = {}
BY ToSetEmpty DEF ControlInv, Fits

\* What the other steps do to the coroutines: the top of run()'s loop,
LEMMA LoopTopShape ==
  ASSUME TypeOK, ControlInv, LoopTop
  PROVE  /\ Moves("loop", IF stopping = "draining" THEN "done" ELSE "collect")
         /\ w["loop"].pc = "top" /\ w["loop"].batch = <<>> /\ Alive
<1> DEFINE pc == IF stopping = "draining" THEN "done" ELSE "collect"
<1>1. "loop" \in Writers /\ pc \in {"off", "top", "collect", "write", "rows", "done"}
  BY DEF Writers
<1>2. w' = [w EXCEPT !["loop"] = Idle(pc)] /\ w["loop"].pc = "top" /\ Alive
  BY DEF LoopTop
<1> HIDE DEF pc
<1>3. w' \in [Writers -> Coroutine] /\ w'["loop"] = Idle(pc) /\ Others("loop")
  BY <1>1, <1>2, Typed, IdleFields, Replaced
<1>4. w["loop"].batch = <<>>
  BY <1>1, <1>2 DEF ControlInv, Fits
<1>5. Moves("loop", pc)
  BY <1>1, <1>3, IdleFields DEF Moves
<1>6. QED
  BY <1>2, <1>4, <1>5 DEF pc

\* one more row,
LEMMA CollectShape ==
  ASSUME TypeOK, ControlInv, Collect
  PROVE  /\ w' \in [Writers -> Coroutine] /\ Others("loop")
         /\ w["loop"].pc = "collect" /\ w'["loop"].pc = "collect" /\ queue # <<>>
         /\ w'["loop"].left = w["loop"].left /\ w'["loop"].rows = w["loop"].rows
         /\ w'["loop"].attempt = w["loop"].attempt
         /\ w'["loop"].batch = Append(w["loop"].batch, Head(queue))
         /\ ToSet(w'["loop"].batch) = ToSet(w["loop"].batch) \cup {Head(queue)}
         /\ Len(w'["loop"].batch) <= BATCH_SIZE_MAX
<1> DEFINE b == Append(w["loop"].batch, Head(queue))
           c == [w["loop"] EXCEPT !.batch = b]
<1>1. "loop" \in Writers
  BY DEF Writers
<1>2. /\ w["loop"].pc = "collect" /\ queue # <<>> /\ Len(w["loop"].batch) < BATCH_SIZE_MAX
      /\ w' = [w EXCEPT !["loop"] = c]
  BY DEF Collect
<1>3. Head(queue) \in Rows
  BY <1>2, ToSetTail DEF TypeOK
<1>4. b \in Seq(Rows) /\ ToSet(b) = ToSet(w["loop"].batch) \cup {Head(queue)} /\ Len(b) = Len(w["loop"].batch) + 1
  BY <1>1, <1>3, Typed, ToSetAppend
<1>5. Len(b) <= BATCH_SIZE_MAX
  BY <1>1, <1>2, <1>4, Typed, WriterAssumption
<1> HIDE DEF b
<1>6. /\ c \in Coroutine /\ c.batch = b /\ c.left = w["loop"].left /\ c.rows = w["loop"].rows
      /\ c.pc = w["loop"].pc /\ c.attempt = w["loop"].attempt
  BY <1>1, <1>4, Typed DEF Coroutine
<1> HIDE DEF c
<1>7. w' \in [Writers -> Coroutine] /\ w'["loop"] = c /\ Others("loop")
  BY <1>1, <1>2, <1>6, Typed, Replaced
<1>8. QED
  BY <1>2, <1>4, <1>5, <1>6, <1>7 DEF b

\* the batch complete,
LEMMA CollectedShape ==
  ASSUME TypeOK, ControlInv, Collected
  PROVE  /\ w["loop"].pc = "collect"
         /\ \/ w["loop"].batch = <<>> /\ Moves("loop", "top")
            \/ Begins("loop", w["loop"].batch)
<1>1. "loop" \in Writers
  BY DEF Writers
<1>2. CASE w["loop"].batch = <<>>
  <2> DEFINE c == [w["loop"] EXCEPT !.pc = "top"]
  <2>1. w' = [w EXCEPT !["loop"] = c]
    BY <1>2 DEF Collected
  <2>2. /\ c \in Coroutine /\ c.batch = w["loop"].batch /\ c.left = w["loop"].left
        /\ c.rows = w["loop"].rows /\ c.pc = "top" /\ c.attempt = w["loop"].attempt
    BY <1>1, Typed DEF Coroutine
  <2> HIDE DEF c
  <2>3. w' \in [Writers -> Coroutine] /\ w'["loop"] = c /\ Others("loop")
    BY <1>1, <2>1, <2>2, Typed, Replaced
  <2>4. w["loop"].left = {} /\ w["loop"].rows = {}
    BY <1>1, <1>2, Empties
  <2>5. QED
    BY <1>2, <2>2, <2>3, <2>4 DEF Collected, Moves
<1>3. CASE w["loop"].batch # <<>>
  <2> DEFINE b == w["loop"].batch
             c == [Idle("write") EXCEPT !.batch = b, !.left = ToSet(b)]
  <2>1. w' = [w EXCEPT !["loop"] = c]
    BY <1>3 DEF Collected, Begin
  <2>2. b \in Seq(Rows)
    BY <1>1, Typed
  <2>3. c \in Coroutine /\ c.pc = "write" /\ c.batch = b /\ c.left = ToSet(b) /\ c.rows = {} /\ c.attempt = 0
    BY <2>2, BeginFields
  <2> HIDE DEF b, c
  <2>4. w' \in [Writers -> Coroutine] /\ w'["loop"] = c /\ Others("loop")
    BY <1>1, <2>1, <2>3, Typed, Replaced
  <2>5. Begins("loop", b)
    BY <2>3, <2>4 DEF Begins
  <2>6. QED
    BY <2>5 DEF Collected, b
<1>4. QED
  BY <1>2, <1>3

\* the drain called,
LEMMA ShutdownShape ==
  ASSUME TypeOK, ControlInv, Shutdown
  PROVE  /\ Moves("drain", "top") /\ w["drain"].pc = "off" /\ w["drain"].batch = <<>>
         /\ remaining = <<>>
<1> DEFINE c == [w["drain"] EXCEPT !.pc = "top"]
<1>1. "drain" \in Writers
  BY DEF Writers
<1>2. w' = [w EXCEPT !["drain"] = c] /\ stopping = "asked"
  BY DEF Shutdown
<1>3. w["drain"].pc = "off" /\ remaining = <<>> /\ w["drain"].batch = <<>>
  BY <1>1, <1>2 DEF ControlInv, Fits
<1>4. /\ c \in Coroutine /\ c.batch = w["drain"].batch /\ c.left = w["drain"].left
      /\ c.rows = w["drain"].rows /\ c.pc = "top" /\ c.attempt = w["drain"].attempt
  BY <1>1, Typed DEF Coroutine
<1> HIDE DEF c
<1>5. w' \in [Writers -> Coroutine] /\ w'["drain"] = c /\ Others("drain")
  BY <1>1, <1>2, <1>4, Typed, Replaced
<1>6. w["drain"].left = {} /\ w["drain"].rows = {}
  BY <1>1, <1>3, Empties
<1>7. QED
  BY <1>3, <1>4, <1>5, <1>6 DEF Moves

\* its next chunk, or its end,
LEMMA DrainShape ==
  ASSUME TypeOK, ControlInv, DrainTop
  PROVE  /\ w["drain"].pc = "top" /\ w["drain"].batch = <<>> /\ remaining' \in Seq(Rows)
         /\ \/ remaining = <<>> /\ remaining' = <<>> /\ Moves("drain", "done")
            \/ \E b \in Seq(Rows) : /\ Begins("drain", b) /\ Len(b) <= BATCH_SIZE_MAX
                                    /\ ToSet(remaining) = ToSet(b) \cup ToSet(remaining')
<1> DEFINE n == IF Len(remaining) < BATCH_SIZE_MAX THEN Len(remaining) ELSE BATCH_SIZE_MAX
<1>1. "drain" \in Writers /\ remaining \in Seq(Rows)
  BY DEF Writers, TypeOK
<1>2. w["drain"].pc = "top" /\ w["drain"].batch = <<>>
  BY <1>1 DEF ControlInv, Fits, DrainTop
<1>3. CASE remaining = <<>>
  <2>1. w' = [w EXCEPT !["drain"] = Idle("done")] /\ remaining' = remaining
    BY <1>3 DEF DrainTop
  <2>2. w' \in [Writers -> Coroutine] /\ w'["drain"] = Idle("done") /\ Others("drain")
    BY <1>1, <2>1, Typed, IdleFields, Replaced
  <2>3. Moves("drain", "done")
    BY <2>2, IdleFields DEF Moves
  <2>4. QED
    BY <1>1, <1>2, <1>3, <2>1, <2>3
<1>4. CASE remaining # <<>>
  <2> DEFINE b == SubSeq(remaining, 1, n)
             c == [Idle("write") EXCEPT !.batch = b, !.left = ToSet(b)]
  <2>1. w' = [w EXCEPT !["drain"] = c] /\ remaining' = SubSeq(remaining, n + 1, Len(remaining))
    BY <1>4 DEF DrainTop, Begin
  <2>2. n \in 0..Len(remaining) /\ n <= BATCH_SIZE_MAX
    BY <1>1, WriterAssumption
  <2> HIDE DEF n
  <2>3. /\ b \in Seq(Rows) /\ remaining' \in Seq(Rows) /\ Len(b) = n
        /\ ToSet(remaining) = ToSet(b) \cup ToSet(remaining')
    BY <1>1, <2>1, <2>2, ToSetCut
  <2>4. c \in Coroutine /\ c.pc = "write" /\ c.batch = b /\ c.left = ToSet(b) /\ c.rows = {} /\ c.attempt = 0
    BY <2>3, BeginFields
  <2> HIDE DEF b, c
  <2>5. w' \in [Writers -> Coroutine] /\ w'["drain"] = c /\ Others("drain")
    BY <1>1, <2>1, <2>4, Typed, Replaced
  <2>6. Begins("drain", b)
    BY <2>4, <2>5 DEF Begins
  <2>7. QED
    BY <1>2, <2>2, <2>3, <2>6
<1>5. QED
  BY <1>3, <1>4

\* a batch written,
LEMMA WrittenShape ==
  ASSUME TypeOK, ControlInv, NEW t \in Writers, Written(t)
  PROVE  Moves(t, "top") /\ w[t].pc = "write" /\ w[t].left = {} /\ w[t].rows = {}
<1>1. w' = [w EXCEPT ![t] = Idle("top")] /\ w[t].pc = "write" /\ w[t].left = {}
  BY DEF Written
<1>2. w' \in [Writers -> Coroutine] /\ w'[t] = Idle("top") /\ Others(t)
  BY <1>1, Typed, IdleFields, Replaced
<1>3. Moves(t, "top")
  BY <1>2, IdleFields DEF Moves
<1>4. QED
  BY <1>1, <1>3 DEF ControlInv, Fits

\* a kill and a start.
LEMMA RestartShape ==
  ASSUME Crash \/ Start
  PROVE  /\ w' \in [Writers -> Coroutine]
         /\ \A t \in Writers : w'[t] = Idle(IF Start /\ ~Crash /\ t = "loop" THEN "top" ELSE "off")
<1>1. Crash => stopping' = "killed"
  BY DEF Crash
<1>2. Start => stopping' = "no"
  BY DEF Start
<1>3. CASE Crash
  BY <1>3, IdleFields DEF Crash
<1>4. CASE Start
  <2>1. ~Crash
    BY <1>1, <1>2, <1>4
  <2>2. w' = [t \in Writers |-> Idle(IF t = "loop" THEN "top" ELSE "off")]
    BY <1>4 DEF Start
  <2>3. Idle("top") \in Coroutine /\ Idle("off") \in Coroutine
    BY IdleFields
  <2>4. QED
    BY <1>4, <2>1, <2>2, <2>3
<1>5. QED
  BY <1>3, <1>4
-----------------------------------------------------------------------------
(* Where rows go *)

\* The rows in a batch.
Batches == UNION {ToSet(w[t].batch) : t \in Writers}

\* They change with the batch of the coroutine that moves.
LEMMA BatchesChange ==
  ASSUME NEW t \in Writers, Others(t), NEW B
  PROVE  /\ ToSet(w'[t].batch) \subseteq ToSet(w[t].batch) \cup B => Batches' \subseteq Batches \cup B
         /\ ToSet(w[t].batch) \subseteq ToSet(w'[t].batch) \cup B => Batches \subseteq Batches' \cup B
<1>1. \A u \in Writers : u # t => ToSet(w'[u].batch) = ToSet(w[u].batch)
  BY DEF Others
<1>2. Batches' = UNION {ToSet(w'[u].batch) : u \in Writers}
  BY DEF Batches
<1>3. QED
  BY <1>1, <1>2 DEF Batches

\* The others' rows stay handled,
LEMMA HandledOthers ==
  ASSUME NEW t \in Writers, Others(t), NEW u \in Writers, u # t
  PROVE  Handled(u)' = Handled(u)
BY DEF Others, Handled

\* and a coroutine at the beginning or the end of a batch has handled none.
LEMMA HandledNothing ==
  ASSUME NEW t \in Writers, w'[t].pc \notin {"write", "rows"} \/ w'[t].left = ToSet(w'[t].batch)
  PROVE  Handled(t)' = {}
BY DEF Handled

\* An INSERT: it adds no copy where the natural key is idempotent.
LEMMA InsertFacts ==
  ASSUME TypeOK, NEW D \in SUBSET Rows
  PROVE  /\ Insert(D) \in [Rows -> Nat]
         /\ \A r \in Rows : /\ Insert(D)[r] >= db[r]
                            /\ r \in D => Insert(D)[r] > 0
                            /\ r \notin D => Insert(D)[r] = db[r]
                            /\ db[r] > 0 /\ TableOf[r] \in IDEMPOTENT_TABLES => Insert(D)[r] = db[r]
                            /\ r \in D /\ db[r] = 0 => Insert(D)[r] = 1
<1>1. db \in [Rows -> Nat]
  BY DEF TypeOK
<1>2. QED
  BY <1>1 DEF Insert

\* InFlight and Held by their parts.
LEMMA Flights ==
  /\ InFlight = ToSet(wire) \cup ToSet(queue) \cup ToSet(remaining) \cup Batches
  /\ Held = ToSet(queue) \cup ToSet(remaining) \cup Batches
  /\ InFlight' = ToSet(wire') \cup ToSet(queue') \cup ToSet(remaining') \cup Batches'
  /\ Held' = ToSet(queue') \cup ToSet(remaining') \cup Batches'
BY DEF InFlight, Held, Batches

\* Where rows go in a step that is not a kill: a row that is received is held or dropped,
\* a row no longer held was handled, dropped or, the retries exhausted, reported, and a
\* row newly handled is stored, or is not valid and is parked or reported.
Flow ==
  /\ crashes' = crashes /\ faults <= faults'
  /\ Stored \subseteq Stored' /\ dead \subseteq dead' /\ logged \subseteq logged' /\ dropped \subseteq dropped'
  /\ received' \subseteq received \cup Held' \cup dropped'
  /\ Held \subseteq Held' \cup (UNION {Handled(t) : t \in Writers}) \cup dropped'
                    \cup (IF faults' >= RETRY_ATTEMPTS THEN logged' ELSE {})
  /\ \A t \in Writers : Handled(t)' \subseteq Handled(t) \cup Stored' \cup ((dead' \cup logged') \ Valid)

\* No row comes back into the process, except the one published.
Tracked == InFlight' \subseteq InFlight \cup (IF Publish THEN {Stream[Cardinality(sent) + 1]} ELSE {})

\* A step that writes nothing.
Undone == UNCHANGED <<db, dead, logged, faults, crashes>> /\ dropped \subseteq dropped'

\* Flow for such a step.
LEMMA UndoneFlow ==
  ASSUME TypeOK, Undone,
         received' \subseteq received \cup Held' \cup dropped',
         Held \subseteq Held' \cup UNION {Handled(t) : t \in Writers},
         \A t \in Writers : Handled(t)' \subseteq Handled(t)
  PROVE  Flow
<1>1. Stored' = Stored
  BY DEF Undone, Stored
<1>2. faults \in Nat
  BY WriterAssumption DEF TypeOK
<1>3. QED
  BY <1>1, <1>2 DEF Flow, Undone

\* Flow, action by action: publication,
LEMMA PublishFlow ==
  ASSUME TypeOK, Publish PROVE Flow /\ Tracked
<1> DEFINE r == Stream[Cardinality(sent) + 1]
<1>1. sent' = sent \cup {r} /\ (wire' = Append(wire, r) \/ wire' = wire) /\ sent # Rows
  BY DEF Publish
<1>2. UNCHANGED <<sub, queue, received, dropped, w, remaining, stopping, db, dead, logged, faults, crashes>>
  BY DEF Publish
<1>3. Batches' = Batches /\ \A t \in Writers : Handled(t)' = Handled(t)
  BY <1>2 DEF Batches, Handled
<1>4. ToSet(Append(wire, r)) \subseteq ToSet(wire) \cup {r}
  <2>1. wire \in Seq(Rows \cup {r})
    BY DEF TypeOK
  <2>2. QED
    BY <2>1, ToSetAppend
<1>5. ToSet(wire') \subseteq ToSet(wire) \cup {r}
  BY <1>1, <1>4
<1>6. Held' = Held /\ InFlight' \subseteq InFlight \cup {r}
  BY <1>2, <1>3, <1>5, Flights
<1>7. Flow
  BY <1>2, <1>3, <1>6, UndoneFlow DEF Undone
<1>8. QED
  BY <1>6, <1>7 DEF Tracked

\* the subscription and the requests to stop,
LEMMA QuietFlow ==
  ASSUME TypeOK, UNCHANGED <<queue, received, dropped, w, remaining, db, dead, logged, faults, crashes>>,
         wire' = wire \/ wire' = <<>>
  PROVE  Flow /\ InFlight' \subseteq InFlight
<1>1. Batches' = Batches /\ \A t \in Writers : Handled(t)' = Handled(t)
  BY DEF Batches, Handled
<1>2. Held' = Held /\ InFlight' \subseteq InFlight
  BY <1>1, Flights, ToSetEmpty
<1>3. QED
  BY <1>1, <1>2, UndoneFlow DEF Undone

\* the queue,
LEMMA EnqueueFlow ==
  ASSUME TypeOK, Enqueue PROVE Flow /\ InFlight' \subseteq InFlight
<1> DEFINE h == Head(wire)
<1>1. /\ wire # <<>> /\ wire' = Tail(wire)
      /\ received' = received \cup {h}
      /\ UNCHANGED <<sent, sub, w, remaining, stopping, db, dead, logged, faults, crashes>>
  BY DEF Enqueue
<1>2. h \in Rows /\ ToSet(wire) = {h} \cup ToSet(wire')
  BY <1>1, ToSetTail DEF TypeOK
<1>3. ToSet(Append(queue, h)) = ToSet(queue) \cup {h}
  BY <1>2, ToSetAppend DEF TypeOK
<1>4. \/ queue' = Append(queue, h) /\ dropped' = dropped
      \/ queue' = queue /\ dropped' = dropped \cup {h}
  BY DEF Enqueue
<1> HIDE DEF h
<1>5. Batches' = Batches /\ \A t \in Writers : Handled(t)' = Handled(t)
  BY <1>1 DEF Batches, Handled
<1>6. /\ Held \subseteq Held' /\ received' \subseteq received \cup Held' \cup dropped'
      /\ InFlight' \subseteq InFlight /\ dropped \subseteq dropped'
  BY <1>1, <1>2, <1>3, <1>4, <1>5, Flights
<1>7. QED
  BY <1>1, <1>5, <1>6, UndoneFlow DEF Undone

\* (a coroutine without a batch)
LEMMA MoveFlow ==
  ASSUME TypeOK, NEW t \in Writers, NEW pc \in {"top", "collect", "done"}, Moves(t, pc)
  PROVE  /\ Handled(t)' = {} /\ (\A u \in Writers : Handled(u)' \subseteq Handled(u))
         /\ Batches' \subseteq Batches /\ Batches \subseteq Batches' \cup ToSet(w[t].batch)
<1>1. ToSet(w'[t].batch) = {}
  BY ToSetEmpty DEF Moves
<1>2. Handled(t)' = {}
  BY HandledNothing DEF Moves
<1>3. \A u \in Writers : Handled(u)' \subseteq Handled(u)
  BY <1>2, HandledOthers DEF Moves
<1>4. Batches' \subseteq Batches \cup {} /\ Batches \subseteq Batches' \cup ToSet(w[t].batch)
  BY <1>1, BatchesChange DEF Moves
<1>5. QED
  BY <1>2, <1>3, <1>4

\* (a coroutine that begins one)
LEMMA BeginFlow ==
  ASSUME TypeOK, NEW t \in Writers, NEW b, Begins(t, b)
  PROVE  /\ \A u \in Writers : Handled(u)' \subseteq Handled(u)
         /\ Batches' \subseteq Batches \cup ToSet(b)
         /\ ToSet(w[t].batch) \subseteq ToSet(b) => Batches \subseteq Batches'
         /\ ToSet(b) \subseteq Batches'
<1>1. w'[t].batch = b /\ w'[t].left = ToSet(b) /\ Others(t)
  BY DEF Begins
<1>2. \A u \in Writers : Handled(u)' \subseteq Handled(u)
  BY <1>1, HandledNothing, HandledOthers
<1>3. ToSet(b) \subseteq Batches'
  BY <1>1 DEF Batches
<1>4. Batches' \subseteq Batches \cup ToSet(b)
  BY <1>1, BatchesChange
<1>5. ToSet(w[t].batch) \subseteq ToSet(b) => Batches \subseteq Batches' \cup {}
  BY <1>1, BatchesChange
<1>6. QED
  BY <1>2, <1>3, <1>4, <1>5

\* run() between two batches,
LEMMA LoopFlow ==
  ASSUME TypeOK, ControlInv, LoopTop \/ Collect \/ Collected
  PROVE  Flow /\ InFlight' \subseteq InFlight
<1>0. "loop" \in Writers
  BY DEF Writers
<1>1. CASE LoopTop
  <2>1. UNCHANGED <<sent, wire, sub, queue, received, dropped, remaining, stopping, db, dead, logged, faults, crashes>>
    BY <1>1 DEF LoopTop
  <2>2. PICK pc \in {"top", "collect", "done"} : Moves("loop", pc)
    BY <1>1, LoopTopShape
  <2>3. ToSet(w["loop"].batch) = {}
    BY <1>1, LoopTopShape, ToSetEmpty
  <2>4. Batches' = Batches /\ \A u \in Writers : Handled(u)' \subseteq Handled(u)
    BY <1>0, <2>2, <2>3, MoveFlow
  <2>5. Held' = Held /\ InFlight' = InFlight
    BY <2>1, <2>4, Flights
  <2>6. QED
    BY <2>1, <2>4, <2>5, UndoneFlow DEF Undone
<1>2. CASE Collect
  <2> DEFINE h == Head(queue)
  <2>1. UNCHANGED <<sent, wire, sub, received, dropped, remaining, stopping, db, dead, logged, faults, crashes>> /\ queue' = Tail(queue)
    BY <1>2 DEF Collect
  <2>2. /\ Others("loop") /\ w'["loop"].pc = "collect" /\ queue # <<>>
        /\ ToSet(w'["loop"].batch) = ToSet(w["loop"].batch) \cup {h}
    BY <1>2, CollectShape
  <2>3. ToSet(queue) = {h} \cup ToSet(queue')
    BY <2>1, <2>2, ToSetTail DEF TypeOK
  <2>4. Batches' \subseteq Batches \cup {h} /\ Batches \subseteq Batches' \cup {} /\ h \in Batches'
    <3>1. h \in Batches'
      BY <1>0, <2>2 DEF Batches
    <3>2. QED
      BY <1>0, <2>2, <3>1, BatchesChange
  <2>5. \A u \in Writers : Handled(u)' \subseteq Handled(u)
    BY <1>0, <2>2, HandledNothing, HandledOthers
  <2> HIDE DEF h
  <2>6. Held \subseteq Held' /\ InFlight' \subseteq InFlight
    BY <2>1, <2>3, <2>4, Flights
  <2>7. QED
    BY <2>1, <2>5, <2>6, UndoneFlow DEF Undone
<1>3. CASE Collected
  <2>1. UNCHANGED <<sent, wire, sub, queue, received, dropped, remaining, stopping, db, dead, logged, faults, crashes>>
    BY <1>3 DEF Collected
  <2>2. Batches' = Batches /\ \A u \in Writers : Handled(u)' \subseteq Handled(u)
    <3>1. CASE w["loop"].batch = <<>> /\ Moves("loop", "top")
      BY <1>0, <3>1, MoveFlow, ToSetEmpty
    <3>2. CASE Begins("loop", w["loop"].batch)
      <4>1. ToSet(w["loop"].batch) \subseteq Batches
        BY <1>0 DEF Batches
      <4>2. QED
        BY <1>0, <3>2, <4>1, BeginFlow
    <3>3. QED
      BY <1>3, <3>1, <3>2, CollectedShape
  <2>3. Held' = Held /\ InFlight' = InFlight
    BY <2>1, <2>2, Flights
  <2>4. QED
    BY <2>1, <2>2, <2>3, UndoneFlow DEF Undone
<1>4. QED
  BY <1>1, <1>2, <1>3

\* shutdown() between two chunks,
LEMMA DrainFlow ==
  ASSUME TypeOK, ControlInv, Shutdown \/ DrainTop
  PROVE  Flow /\ InFlight' \subseteq InFlight
<1>0. "drain" \in Writers
  BY DEF Writers
<1>1. CASE Shutdown
  <2>1. UNCHANGED <<sent, wire, sub, received, dropped, db, dead, logged, faults, crashes>> /\ remaining' = queue /\ queue' = <<>>
    BY <1>1 DEF Shutdown
  <2>2. /\ Moves("drain", "top") /\ ToSet(w["drain"].batch) = {} /\ ToSet(remaining) = {} /\ ToSet(queue') = {}
    BY <1>1, <2>1, ShutdownShape, ToSetEmpty
  <2>3. Batches' = Batches /\ \A u \in Writers : Handled(u)' \subseteq Handled(u)
    BY <1>0, <2>2, MoveFlow
  <2>4. Held' = Held /\ InFlight' = InFlight
    BY <2>1, <2>2, <2>3, Flights
  <2>5. QED
    BY <2>1, <2>3, <2>4, UndoneFlow DEF Undone
<1>2. CASE DrainTop
  <2>1. UNCHANGED <<sent, wire, sub, queue, received, dropped, stopping, db, dead, logged, faults, crashes>>
    BY <1>2 DEF DrainTop
  <2>2. ToSet(w["drain"].batch) = {}
    BY <1>2, DrainShape, ToSetEmpty
  <2>3. /\ \A u \in Writers : Handled(u)' \subseteq Handled(u)
        /\ ToSet(remaining') \cup Batches' = ToSet(remaining) \cup Batches
    <3>1. CASE remaining = <<>> /\ remaining' = <<>> /\ Moves("drain", "done")
      BY <1>0, <2>2, <3>1, MoveFlow
    <3>2. CASE ~(remaining = <<>> /\ remaining' = <<>> /\ Moves("drain", "done"))
      <4>1. PICK b : Begins("drain", b) /\ ToSet(remaining) = ToSet(b) \cup ToSet(remaining')
        BY <1>2, <3>2, DrainShape
      <4>2. QED
        BY <1>0, <2>2, <4>1, BeginFlow
    <3>3. QED
      BY <3>1, <3>2
  <2>4. Held' = Held /\ InFlight' = InFlight
    BY <2>1, <2>3, Flights
  <2>5. QED
    BY <2>1, <2>3, <2>4, UndoneFlow DEF Undone
<1>3. QED
  BY <1>1, <1>2

\* a step of an attempt,
LEMMA AttemptFlow ==
  ASSUME TypeOK, ControlInv, NEW t \in Writers, Attempt(t)
  PROVE  Flow /\ InFlight' = InFlight
<1>1. UNCHANGED <<sent, wire, sub, queue, received, dropped, remaining, stopping, crashes>> /\ Others(t)
  BY DEF Attempt
<1>2. PICK D \in SUBSET Left(t) :
        /\ Left(t) \ D \subseteq w'[t].left \cup w'[t].rows
        /\ \/ D \subseteq Valid /\ db' = Insert(D) /\ UNCHANGED <<dead, logged, faults>>
           \/ D \cap Valid = {} /\ UNCHANGED db /\ dead' = dead \cup D /\ UNCHANGED <<logged, faults>>
           \/ /\ D \cap Valid = {} /\ UNCHANGED <<db, dead>> /\ logged' = logged \cup D
              /\ faults < MaxFaults /\ faults' = faults + 1
  BY DEF Attempt
<1>3. w[t].pc \in {"write", "rows"} /\ w'[t].pc \in {"write", "rows"} /\ w'[t].batch = w[t].batch
  BY DEF Attempt
<1>4. D \subseteq Rows /\ db \in [Rows -> Nat] /\ faults \in Nat
  <2>1. D \subseteq Rows
    BY Typed DEF Left
  <2>2. db \in [Rows -> Nat] /\ faults \in Nat
    BY WriterAssumption DEF TypeOK
  <2>3. QED
    BY <2>1, <2>2
<1>5. /\ Stored \subseteq Stored' /\ dead \subseteq dead' /\ logged \subseteq logged' /\ faults <= faults'
      /\ D \subseteq Stored' \cup ((dead' \cup logged') \ Valid)
  <2>1. CASE D \subseteq Valid /\ db' = Insert(D) /\ UNCHANGED <<dead, logged, faults>>
    <3>1. \A r \in Rows : db'[r] \in Nat /\ db'[r] >= db[r] /\ (r \in D => db'[r] > 0)
      BY <1>4, <2>1, InsertFacts
    <3>2. QED
      BY <1>4, <2>1, <3>1 DEF Stored
  <2>2. CASE db' = db /\ D \cap Valid = {}
    BY <1>2, <1>4, <2>2 DEF Stored
  <2>3. QED
    BY <1>2, <2>1, <2>2
<1>6. Handled(t)' \subseteq Handled(t) \cup D
  BY <1>2, <1>3 DEF Handled, Left
<1>7. \A u \in Writers : Handled(u)' \subseteq Handled(u) \cup Stored' \cup ((dead' \cup logged') \ Valid)
  BY <1>1, <1>5, <1>6, HandledOthers
<1>8. Batches' \subseteq Batches \cup {} /\ Batches \subseteq Batches' \cup {}
  BY <1>1, <1>3, BatchesChange
<1>9. Held' = Held /\ InFlight' = InFlight
  BY <1>1, <1>8, Flights
<1>10. QED
  BY <1>1, <1>5, <1>7, <1>9 DEF Flow

\* a statement that fails,
LEMMA FailsFlow ==
  ASSUME TypeOK, ControlInv, NEW t \in Writers, Fails(t)
  PROVE  Flow /\ InFlight' \subseteq InFlight
<1>1. /\ UNCHANGED <<sent, wire, sub, queue, received, remaining, stopping, dead, crashes>> /\ Others(t)
      /\ faults' = faults + 1
  BY DEF Fails
<1>2. db \in [Rows -> Nat] /\ faults \in Nat
  BY WriterAssumption DEF TypeOK
<1>3. Stored \subseteq Stored'
  <2>1. PICK D \in SUBSET (Left(t) \cap Valid) : db' = db \/ db' = Insert(D)
    BY DEF Fails
  <2>2. D \in SUBSET Rows
    BY Typed DEF Left
  <2>3. \A r \in Rows : db'[r] \in Nat /\ db'[r] >= db[r]
    BY <1>2, <2>1, <2>2, InsertFacts
  <2>4. QED
    BY <1>2, <2>3 DEF Stored
<1>4. CASE /\ w'[t].pc = "write" /\ w'[t].left = ToSet(w[t].batch) /\ w'[t].batch = w[t].batch
           /\ UNCHANGED <<logged, dropped>>
  <2>1. \A u \in Writers : Handled(u)' \subseteq Handled(u)
    BY <1>1, <1>4, HandledNothing, HandledOthers
  <2>2. Batches' \subseteq Batches \cup {} /\ Batches \subseteq Batches' \cup {}
    BY <1>1, <1>4, BatchesChange
  <2>3. Held' = Held /\ InFlight' = InFlight
    BY <1>1, <2>2, Flights
  <2>4. QED
    BY <1>1, <1>2, <1>3, <1>4, <2>1, <2>3 DEF Flow
<1>5. CASE /\ w'[t] = Idle("top") /\ w[t].attempt + 1 >= RETRY_ATTEMPTS
           /\ logged' = logged \cup ToSet(w[t].batch) /\ UNCHANGED dropped
  <2>1. w'[t].pc = "top" /\ ToSet(w'[t].batch) = {}
    BY <1>5, IdleFields, ToSetEmpty
  <2>2. \A u \in Writers : Handled(u)' \subseteq Handled(u)
    BY <1>1, <2>1, HandledNothing, HandledOthers
  <2>3. Batches' \subseteq Batches \cup {} /\ Batches \subseteq Batches' \cup ToSet(w[t].batch)
    BY <1>1, <2>1, BatchesChange
  <2>4. faults' >= RETRY_ATTEMPTS
    <3>1. w[t].attempt \in Nat /\ w[t].attempt <= faults
      BY Typed, WriterAssumption DEF ControlInv, Fits
    <3>2. RETRY_ATTEMPTS \in Nat
      BY WriterAssumption
    <3>3. QED
      BY <1>1, <1>2, <1>5, <3>1, <3>2
  <2>5. Held \subseteq Held' \cup logged' /\ InFlight' \subseteq InFlight /\ Held' \subseteq Held
    BY <1>1, <1>5, <2>3, Flights
  <2>6. (IF faults' >= RETRY_ATTEMPTS THEN logged' ELSE {}) = logged' /\ faults <= faults'
    BY <1>1, <1>2, <2>4
  <2>7. logged \subseteq logged' /\ dead \subseteq dead' /\ crashes' = crashes /\ received' = received
        /\ dropped' = dropped
    BY <1>1, <1>5
  <2>8. Held \subseteq Held' \cup (UNION {Handled(u) : u \in Writers}) \cup dropped'
                        \cup (IF faults' >= RETRY_ATTEMPTS THEN logged' ELSE {})
    <3> DEFINE g == IF faults' >= RETRY_ATTEMPTS THEN logged' ELSE {}
               H == UNION {Handled(u) : u \in Writers}
    <3>1. Held \subseteq Held' \cup g
      BY <2>5, <2>6
    <3> HIDE DEF g, H
    <3>2. Held \subseteq Held' \cup H \cup dropped' \cup g
      BY <3>1
    <3>3. QED
      BY <3>2 DEF g, H
  <2>9. \A u \in Writers : Handled(u)' \subseteq Handled(u) \cup Stored' \cup ((dead' \cup logged') \ Valid)
    BY <2>2
  <2>10. received' \subseteq received \cup Held' \cup dropped'
    BY <2>7
  <2>11. QED
    BY <1>3, <2>5, <2>6, <2>7, <2>8, <2>9, <2>10 DEF Flow
<1>6. CASE /\ w'[t] = Idle("top")
           /\ dropped' = dropped \cup ToSet(w[t].batch) /\ UNCHANGED logged
  <2>1. w'[t].pc = "top" /\ ToSet(w'[t].batch) = {}
    BY <1>6, IdleFields, ToSetEmpty
  <2>2. \A u \in Writers : Handled(u)' \subseteq Handled(u)
    BY <1>1, <2>1, HandledNothing, HandledOthers
  <2>3. Batches' \subseteq Batches \cup {} /\ Batches \subseteq Batches' \cup ToSet(w[t].batch)
    BY <1>1, <2>1, BatchesChange
  <2>4. Held \subseteq Held' \cup dropped' /\ InFlight' \subseteq InFlight
    BY <1>1, <1>6, <2>3, Flights
  <2>5. /\ Held \subseteq Held' \cup (UNION {Handled(u) : u \in Writers}) \cup dropped'
                           \cup (IF faults' >= RETRY_ATTEMPTS THEN logged' ELSE {})
        /\ received' \subseteq received \cup Held' \cup dropped' /\ dropped \subseteq dropped'
    <3> HIDE DEF Fails
    <3>1. received' = received
      BY <1>1
    <3>2. QED
      BY <1>6, <2>4, <3>1
  <2>6. \A u \in Writers : Handled(u)' \subseteq Handled(u) \cup Stored' \cup ((dead' \cup logged') \ Valid)
    BY <2>2
  <2>7. logged \subseteq logged' /\ dead \subseteq dead' /\ crashes' = crashes /\ faults <= faults'
    BY <1>1, <1>2, <1>6
  <2>8. QED
    BY <1>3, <2>4, <2>5, <2>6, <2>7 DEF Flow
<1>7. QED
  BY <1>4, <1>5, <1>6 DEF Fails

\* a batch written,
LEMMA WrittenFlow ==
  ASSUME TypeOK, ControlInv, NEW t \in Writers, Written(t)
  PROVE  Flow /\ InFlight' \subseteq InFlight
<1>1. UNCHANGED <<sent, wire, sub, queue, received, dropped, remaining, stopping, db, dead, logged, faults, crashes>>
  BY DEF Written
<1>2. Moves(t, "top") /\ Handled(t) = ToSet(w[t].batch)
  BY WrittenShape DEF Handled
<1>3. /\ Batches' \subseteq Batches /\ Batches \subseteq Batches' \cup Handled(t)
      /\ \A u \in Writers : Handled(u)' \subseteq Handled(u)
  BY <1>2, MoveFlow
<1>4. Held \subseteq Held' \cup Handled(t) /\ InFlight' \subseteq InFlight
  BY <1>1, <1>3, Flights
<1>5. QED
  BY <1>1, <1>3, <1>4, UndoneFlow DEF Undone

\* a kill or a start.
LEMMA RestartFlow ==
  ASSUME TypeOK, ControlInv, Crash \/ Start
  PROVE  /\ InFlight' \subseteq InFlight
         /\ Flow \/ crashes' > 0
<1>1. /\ w' \in [Writers -> Coroutine]
      /\ \A t \in Writers : w'[t].batch = <<>> /\ w'[t].pc \in {"top", "off"}
  BY RestartShape, IdleFields
<1>2. Batches' = {} /\ \A t \in Writers : Handled(t)' = {}
  BY <1>1, HandledNothing, ToSetEmpty DEF Batches
<1>3. crashes \in Nat
  BY WriterAssumption DEF TypeOK
<1>4. CASE Crash
  <2>1. wire' = <<>> /\ queue' = <<>> /\ remaining' = <<>> /\ crashes' = crashes + 1
    BY <1>4 DEF Crash
  <2>2. QED
    BY <1>2, <1>3, <2>1, Flights, ToSetEmpty
<1>5. CASE Start
  <2>1. UNCHANGED <<sent, wire, queue, received, dropped, remaining, db, dead, logged, faults, crashes>> /\ ~Alive
    BY <1>5 DEF Start
  <2>2. InFlight' \subseteq InFlight
    BY <1>2, <2>1, Flights
  <2>3. CASE stopping = "killed"
    BY <2>1, <2>2, <2>3 DEF ControlInv
  <2>4. CASE stopping = "exited"
    <3>1. Batches = {}
      BY <2>4, ToSetEmpty DEF ControlInv, Fits, Batches
    <3>2. Held' = Held
      BY <1>2, <2>1, <3>1, Flights
    <3>3. QED
      BY <1>2, <2>1, <2>2, <3>2, UndoneFlow DEF Undone
  <2>5. QED
    BY <2>1, <2>3, <2>4 DEF Alive
<1>6. QED
  BY <1>4, <1>5

\* Flow for every step but a kill, and Tracked for every step.
LEMMA FlowStep ==
  ASSUME TypeOK, ControlInv, Next
  PROVE  Tracked /\ (Flow \/ crashes' > 0)
<1>1. CASE Publish
  BY <1>1, PublishFlow
<1>2. CASE Subscribe \/ Disconnect \/ RequestStop \/ CancelSubscriber \/ Exit
  <2>1. /\ UNCHANGED <<queue, received, dropped, w, remaining, db, dead, logged, faults, crashes>>
        /\ wire' = wire \/ wire' = <<>>
    BY <1>2 DEF Subscribe, Disconnect, RequestStop, CancelSubscriber, Exit
  <2>2. QED
    BY <2>1, QuietFlow DEF Tracked
<1>3. CASE Enqueue
  BY <1>3, EnqueueFlow DEF Tracked
<1>4. CASE LoopTop \/ Collect \/ Collected
  BY <1>4, LoopFlow DEF Tracked
<1>5. CASE Shutdown \/ DrainTop
  BY <1>5, DrainFlow DEF Tracked
<1>6. ASSUME NEW t \in Writers, WriteStep(t) \/ Transient(t) \/ RaisedAtOnce(t)
      PROVE  Tracked /\ Flow
  <2>1. CASE Written(t)
    BY <2>1, WrittenFlow DEF Tracked
  <2>2. CASE Transient(t) \/ RaisedAtOnce(t)
    BY <2>2, TransientFails, RaisedFails, FailsFlow DEF Tracked
  <2>3. CASE DeadLetterUnknown(t) \/ InsertTable(t) \/ BulkRefused(t) \/ WriteRow(t)
    BY <2>3, UnknownAttempt, InsertAttempt, RefusedAttempt, RowAttempt, AttemptFlow DEF Tracked
  <2>4. QED
    BY <1>6, <2>1, <2>2, <2>3 DEF WriteStep
<1>7. CASE Crash \/ Start
  BY <1>7, RestartFlow DEF Tracked
<1>8. QED
  BY <1>1, <1>2, <1>3, <1>4, <1>5, <1>6, <1>7 DEF Next
-----------------------------------------------------------------------------
(* What is published *)

\* What is published is a beginning of the stream; what is in the process was published.
SentInv ==
  /\ \E n \in 0..Len(Stream) : sent = {Stream[i] : i \in 1..n}
  /\ InFlight \subseteq sent

\* The next row of the stream is a new one.
LEMMA SentPrefix ==
  ASSUME NEW n \in 0..Len(Stream), sent = {Stream[i] : i \in 1..n}
  PROVE  /\ Cardinality(sent) = n
         /\ sent # Rows => /\ n + 1 \in 1..Len(Stream) /\ Stream[n + 1] \in Rows /\ Stream[n + 1] \notin sent
<1>0. /\ DOMAIN Stream = 1..Len(Stream) /\ Len(Stream) \in Nat
      /\ \A i, j \in 1..Len(Stream) : Stream[i] = Stream[j] => i = j
  BY WriterAssumption
<1>1. Rows = {Stream[i] : i \in 1..Len(Stream)}
  BY <1>0 DEF Rows, ToSet
<1>2. Cardinality(sent) = n
  <2> DEFINE f == [i \in 1..n |-> Stream[i]]
  <2>1. \A i \in 1..n : i \in 1..Len(Stream)
    BY <1>0
  <2>2. f \in Bijection(1..n, sent)
    <3>1. f \in [1..n -> sent]
      OBVIOUS
    <3>2. \A i, j \in 1..n : f[i] = f[j] => i = j
      BY <1>0, <2>1
    <3>3. \A r \in sent : \E i \in 1..n : f[i] = r
      OBVIOUS
    <3>4. QED
      BY <3>1, <3>2, <3>3 DEF Bijection, Injection, Surjection, IsInjective
  <2>3. QED
    BY <2>2, FS_CountingElements DEF ExistsBijection
<1>3. ASSUME sent # Rows
      PROVE  n + 1 \in 1..Len(Stream) /\ Stream[n + 1] \in Rows /\ Stream[n + 1] \notin sent
  <2>0. Len(Stream) \in Nat
    BY <1>0
  <2>1. n # Len(Stream)
    BY <1>1, <1>3
  <2>2. n + 1 \in 1..Len(Stream)
    BY <2>0, <2>1
  <2>3. \A i \in 1..n : i \in 1..Len(Stream) /\ i # n + 1
    BY <1>0
  <2>4. QED
    BY <1>0, <1>1, <2>2, <2>3
<1>4. QED
  BY <1>2, <1>3

\* Only Publish publishes.
LEMMA SentFrame ==
  ASSUME TypeOK, ControlInv, Next, ~Publish
  PROVE  sent' = sent
<1>1. ASSUME NEW t \in Writers, WriteStep(t) \/ Transient(t) \/ RaisedAtOnce(t)
      PROVE  sent' = sent
  BY <1>1 DEF WriteStep, DeadLetterUnknown, InsertTable, BulkRefused, WriteRow, Written, Transient,
              RaisedAtOnce
<1>2. QED
  BY <1>1 DEF Next, Subscribe, Disconnect, Enqueue, LoopTop, Collect, Collected, RequestStop,
              CancelSubscriber, Shutdown, DrainTop, Exit, Crash, Start

\* Every step preserves SentInv.
LEMMA SentStep ==
  ASSUME TypeOK, ControlInv, SentInv, Next
  PROVE  SentInv' /\ sent \subseteq sent'
<1>1. PICK n \in 0..Len(Stream) : sent = {Stream[i] : i \in 1..n}
  BY DEF SentInv
<1>2. Cardinality(sent) = n
  BY <1>1, SentPrefix
<1>3. CASE Publish
  <2>1. sent # Rows /\ sent' = sent \cup {Stream[n + 1]}
    BY <1>2, <1>3 DEF Publish
  <2>2. n + 1 \in 1..Len(Stream)
    BY <1>1, <2>1, SentPrefix
  <2>3. sent' = {Stream[i] : i \in 1..(n + 1)}
    <3>1. 1..(n + 1) = (1..n) \cup {n + 1}
      OBVIOUS
    <3>2. QED
      BY <1>1, <2>1, <3>1
  <2>4. InFlight' \subseteq InFlight \cup {Stream[n + 1]}
    BY <1>2, <1>3, FlowStep DEF Tracked
  <2>5. n + 1 \in 0..Len(Stream)
    BY <2>2
  <2>6. QED
    BY <2>1, <2>3, <2>4, <2>5 DEF SentInv
<1>4. CASE ~Publish
  <2>1. InFlight' \subseteq InFlight /\ sent' = sent
    BY <1>4, FlowStep, SentFrame DEF Tracked
  <2>2. QED
    BY <1>1, <2>1 DEF SentInv
<1>5. QED
  BY <1>3, <1>4

-----------------------------------------------------------------------------
(* Types *)

\* TypeOK without the coroutines; the batches' sizes.
Rest ==
  /\ sent \subseteq Rows /\ received \subseteq sent
  /\ wire \in Seq(Rows) /\ remaining \in Seq(Rows)
  /\ queue \in Seq(Rows) /\ Len(queue) <= QUEUE_MAX_SIZE
  /\ sub \in {"up", "down", "cancelled"}
  /\ stopping \in {"no", "asked", "draining", "exited", "killed"}
  /\ db \in [Rows -> Nat] /\ dead \subseteq Rows /\ {logged, dropped} \subseteq SUBSET Rows
  /\ faults \in 0..MaxFaults /\ crashes \in 0..MaxCrashes

Sizes == \A t \in Writers : Len(w[t].batch) <= BATCH_SIZE_MAX

\* Together they are TypeOK.
LEMMA TypeParts ==
  /\ TypeOK <=> Rest /\ Sizes /\ w \in [Writers -> Coroutine]
  /\ TypeOK' <=> Rest' /\ Sizes' /\ w' \in [Writers -> Coroutine]
<1>1. TypeOK <=> Rest /\ Sizes /\ w \in [Writers -> Coroutine]
  BY DEF TypeOK, Rest, Sizes, Coroutine
<1>2. TypeOK' <=> Rest' /\ Sizes' /\ w' \in [Writers -> Coroutine]
  BY DEF TypeOK, Rest, Sizes, Coroutine
<1>3. QED
  BY <1>1, <1>2

\* The steps that leave the coroutines alone keep the types,
LEMMA QuietTypes ==
  ASSUME TypeOK, SentInv, Publish \/ Subscribe \/ Disconnect \/ Enqueue \/ RequestStop \/ CancelSubscriber \/ Exit,
         sent' \subseteq Rows
  PROVE  TypeOK'
<1> USE DEF Rest
<1>0. Rest /\ UNCHANGED w
  BY TypeParts DEF Publish, Subscribe, Disconnect, Enqueue, RequestStop, CancelSubscriber, Exit
<1>1. Sizes' /\ w' \in [Writers -> Coroutine]
  BY <1>0, TypeParts DEF Sizes
<1>2. CASE Publish
  <2>1. sent' \subseteq Rows /\ sent' = sent \cup {Stream[Cardinality(sent) + 1]}
    BY <1>2 DEF Publish
  <2>2. wire' = wire \/ wire' = Append(wire, Stream[Cardinality(sent) + 1])
    BY <1>2 DEF Publish
  <2>3. wire' \in Seq(Rows)
    <3> DEFINE r == Stream[Cardinality(sent) + 1]
    <3>1. wire \in Seq(Rows) /\ r \in Rows /\ (wire' = wire \/ wire' = Append(wire, r))
      BY <1>0, <2>1, <2>2
    <3> HIDE DEF r
    <3>2. Append(wire, r) \in Seq(Rows)
      BY <3>1, ToSetAppend
    <3>3. QED
      BY <3>1, <3>2
  <2>4. UNCHANGED <<sub, queue, received, dropped, remaining, stopping, db, dead, logged, faults, crashes>>
    BY <1>2 DEF Publish
  <2>5. Rest'
    BY <1>0, <2>1, <2>3, <2>4
  <2>6. QED
    BY <1>1, <2>5, TypeParts
<1>3. CASE Enqueue
  <2> DEFINE h == Head(wire)
  <2>1. /\ wire # <<>> /\ wire' = Tail(wire)
        /\ received' = received \cup {h}
        /\ UNCHANGED <<sent, sub, remaining, stopping, db, dead, logged, faults, crashes>>
        /\ \/ Len(queue) < QUEUE_MAX_SIZE /\ queue' = Append(queue, h) /\ dropped' = dropped
           \/ queue' = queue /\ dropped' = dropped \cup {h}
    BY <1>3 DEF Enqueue
  <2>2. h \in Rows /\ wire' \in Seq(Rows) /\ h \in ToSet(wire)
    BY <1>0, <2>1, ToSetTail
  <2>3. h \in sent
    BY <2>2 DEF SentInv, InFlight
  <2> HIDE DEF h
  <2>4. queue' \in Seq(Rows) /\ Len(queue') <= QUEUE_MAX_SIZE
    <3>1. Append(queue, h) \in Seq(Rows) /\ Len(Append(queue, h)) = Len(queue) + 1 /\ Len(queue) \in Nat
      BY <1>0, <2>2
    <3>2. QUEUE_MAX_SIZE \in Nat
      BY WriterAssumption
    <3>3. CASE queue' = queue
      BY <1>0, <3>3
    <3>4. CASE Len(queue) < QUEUE_MAX_SIZE /\ queue' = Append(queue, h)
      BY <3>1, <3>2, <3>4
    <3>5. QED
      BY <2>1, <3>3, <3>4
  <2>5. received' \subseteq sent' /\ dropped' \subseteq Rows
    BY <1>0, <2>1, <2>2, <2>3
  <2>6. Rest'
    BY <1>0, <2>1, <2>2, <2>4, <2>5
  <2>7. QED
    BY <1>1, <2>6, TypeParts
<1>4. CASE Subscribe \/ Disconnect \/ RequestStop \/ CancelSubscriber \/ Exit
  <2>1. /\ UNCHANGED <<sent, queue, received, dropped, remaining, db, dead, logged, faults, crashes>>
        /\ wire' = wire \/ wire' = <<>>
        /\ sub' = sub \/ sub' \in {"up", "down", "cancelled"}
        /\ stopping' = stopping \/ stopping' \in {"no", "asked", "draining", "exited", "killed"}
    BY <1>4 DEF Subscribe, Disconnect, RequestStop, CancelSubscriber, Exit
  <2>2. wire' \in Seq(Rows)
    <3>1. <<>> \in Seq(Rows)
      OBVIOUS
    <3>2. wire \in Seq(Rows)
      BY <1>0
    <3>3. QED
      BY <2>1, <3>1, <3>2
  <2>3. sub' \in {"up", "down", "cancelled"} /\ stopping' \in {"no", "asked", "draining", "exited", "killed"}
    BY <1>0, <2>1
  <2>4. Rest'
    <3>1. /\ sent' = sent /\ queue' = queue /\ received' = received /\ remaining' = remaining /\ db' = db
          /\ dead' = dead /\ logged' = logged /\ dropped' = dropped /\ faults' = faults
          /\ crashes' = crashes
      BY <2>1
    <3>2. QED
      BY <1>0, <2>2, <2>3, <3>1
  <2>5. QED
    BY <1>1, <2>4, TypeParts
<1>5. QED
  BY <1>2, <1>3, <1>4

\* (the sizes, when one coroutine moves)
LEMMA SizesOthers ==
  ASSUME TypeOK, NEW t \in Writers, Others(t), Len(w'[t].batch) <= BATCH_SIZE_MAX
  PROVE  Sizes'
BY DEF TypeOK, Sizes, Others

\* (the sizes that fit)
LEMMA SizesFacts ==
  ASSUME TypeOK, NEW t \in Writers
  PROVE  Len(w[t].batch) <= BATCH_SIZE_MAX /\ Len(<<>>) <= BATCH_SIZE_MAX
BY WriterAssumption DEF TypeOK

\* so do those between batches,
LEMMA LoopTypes ==
  ASSUME TypeOK, ControlInv, LoopTop \/ Collect \/ Collected \/ Shutdown \/ DrainTop
  PROVE  TypeOK'
<1>0. Rest /\ "loop" \in Writers /\ "drain" \in Writers
  BY TypeParts DEF Writers
<1>1. CASE LoopTop
  <2>1. UNCHANGED <<sent, wire, sub, queue, received, dropped, remaining, stopping, db, dead, logged, faults, crashes>>
    BY <1>1 DEF LoopTop
  <2>2. w' \in [Writers -> Coroutine] /\ Others("loop") /\ w'["loop"].batch = <<>>
    BY <1>1, LoopTopShape DEF Moves
  <2>3. Rest' /\ Sizes'
    BY <1>0, <2>1, <2>2, SizesOthers, SizesFacts DEF Rest
  <2>4. QED
    BY <2>2, <2>3, TypeParts
<1>2. CASE Collect
  <2>1. UNCHANGED <<sent, wire, sub, received, dropped, remaining, stopping, db, dead, logged, faults, crashes>> /\ queue' = Tail(queue)
    BY <1>2 DEF Collect
  <2>2. /\ w' \in [Writers -> Coroutine] /\ Others("loop") /\ Len(w'["loop"].batch) <= BATCH_SIZE_MAX
        /\ queue # <<>>
    BY <1>2, CollectShape
  <2>3. Sizes'
    BY <1>0, <2>2, SizesOthers
  <2>4. queue' \in Seq(Rows) /\ Len(queue') <= QUEUE_MAX_SIZE
    <3>1. queue' \in Seq(Rows) /\ Len(queue') = Len(queue) - 1 /\ Len(queue) \in Nat
      BY <1>0, <2>1, <2>2, ToSetTail DEF Rest
    <3>2. QED
      BY <1>0, <3>1, WriterAssumption DEF Rest
  <2>5. Rest'
    BY <1>0, <2>1, <2>4 DEF Rest
  <2>6. QED
    BY <2>2, <2>3, <2>5, TypeParts
<1>3. CASE Collected
  <2>1. UNCHANGED <<sent, wire, sub, queue, received, dropped, remaining, stopping, db, dead, logged, faults, crashes>>
    BY <1>3 DEF Collected
  <2>2. w' \in [Writers -> Coroutine] /\ Others("loop") /\ (w'["loop"].batch = <<>> \/ w'["loop"].batch = w["loop"].batch)
    BY <1>3, CollectedShape DEF Moves, Begins
  <2>3. Rest' /\ Sizes'
    BY <1>0, <2>1, <2>2, SizesOthers, SizesFacts DEF Rest
  <2>4. QED
    BY <2>2, <2>3, TypeParts
<1>4. CASE Shutdown
  <2>1. /\ UNCHANGED <<sent, wire, sub, received, dropped, db, dead, logged, faults, crashes>>
        /\ remaining' = queue /\ queue' = <<>> /\ stopping' = "draining"
    BY <1>4 DEF Shutdown
  <2>2. w' \in [Writers -> Coroutine] /\ Others("drain") /\ w'["drain"].batch = <<>>
    BY <1>4, ShutdownShape DEF Moves
  <2>3. Sizes'
    BY <1>0, <2>2, SizesOthers, SizesFacts
  <2>4. Len(<<>>) <= QUEUE_MAX_SIZE
    BY WriterAssumption
  <2>5. Rest'
    BY <1>0, <2>1, <2>4 DEF Rest
  <2>6. QED
    BY <2>2, <2>3, <2>5, TypeParts
<1>5. CASE DrainTop
  <2>1. UNCHANGED <<sent, wire, sub, queue, received, dropped, stopping, db, dead, logged, faults, crashes>>
    BY <1>5 DEF DrainTop
  <2>2. /\ w' \in [Writers -> Coroutine] /\ Others("drain") /\ Len(w'["drain"].batch) <= BATCH_SIZE_MAX
        /\ remaining' \in Seq(Rows)
    BY <1>0, <1>5, DrainShape, SizesFacts DEF Moves, Begins
  <2>3. Rest' /\ Sizes'
    BY <1>0, <2>1, <2>2, SizesOthers DEF Rest
  <2>4. QED
    BY <2>2, <2>3, TypeParts
<1>6. QED
  BY <1>1, <1>2, <1>3, <1>4, <1>5

\* those of an attempt,
LEMMA WriterTypes ==
  ASSUME TypeOK, ControlInv, NEW t \in Writers, Attempt(t) \/ Fails(t) \/ Written(t)
  PROVE  TypeOK'
<1>0. Rest
  BY TypeParts
<1>1. UNCHANGED <<sent, wire, sub, queue, received, remaining, stopping, crashes>>
  BY DEF Attempt, Fails, Written
<1>2. w' \in [Writers -> Coroutine] /\ Others(t) /\ (w'[t].batch = <<>> \/ w'[t].batch = w[t].batch)
  <2>1. CASE Attempt(t)
    BY <2>1 DEF Attempt
  <2>2. CASE Fails(t)
    BY <2>2, IdleFields DEF Fails
  <2>3. CASE Written(t)
    BY <2>3, WrittenShape DEF Moves
  <2>4. QED
    BY <2>1, <2>2, <2>3
<1>3. Sizes'
  BY <1>2, SizesOthers, SizesFacts
<1>4. ToSet(w[t].batch) \subseteq Rows /\ Left(t) \subseteq Rows
  BY Typed DEF Left
<1>5. db' \in [Rows -> Nat]
  <2>1. PICK D : D \in SUBSET Left(t) /\ (db' = db \/ db' = Insert(D))
    BY DEF Attempt, Fails, Written
  <2>2. QED
    BY <1>0, <1>4, <2>1, InsertFacts DEF Rest
<1>6. dead' \subseteq Rows /\ logged' \subseteq Rows /\ dropped' \subseteq Rows
  <2>1. PICK D : /\ D \in SUBSET Left(t) /\ dead' \subseteq dead \cup D
                 /\ logged' \subseteq logged \cup D \cup ToSet(w[t].batch)
                 /\ dropped' \subseteq dropped \cup ToSet(w[t].batch)
    BY DEF Attempt, Fails, Written
  <2>2. QED
    BY <1>0, <1>4, <2>1 DEF Rest
<1>7. faults' \in 0..MaxFaults
  <2>1. faults' = faults \/ (faults < MaxFaults /\ faults' = faults + 1)
    BY DEF Attempt, Fails, Written
  <2>2. QED
    BY <1>0, <2>1, WriterAssumption DEF Rest
<1>8. Rest'
  BY <1>0, <1>1, <1>5, <1>6, <1>7 DEF Rest
<1>9. QED
  BY <1>2, <1>3, <1>8, TypeParts

\* a kill and a start.
LEMMA RestartTypes ==
  ASSUME TypeOK, Crash \/ Start
  PROVE  TypeOK'
<1>0. Rest
  BY TypeParts
<1>1. w' \in [Writers -> Coroutine] /\ Sizes'
  BY RestartShape, IdleFields, SizesFacts DEF Sizes
<1>2. Len(<<>>) <= QUEUE_MAX_SIZE /\ <<>> \in Seq(Rows)
  BY WriterAssumption
<1>3. crashes' \in 0..MaxCrashes
  <2>1. MaxCrashes \in Nat /\ crashes \in 0..MaxCrashes
    BY <1>0, WriterAssumption DEF Rest
  <2>2. crashes' = crashes \/ (crashes < MaxCrashes /\ crashes' = crashes + 1)
    BY DEF Crash, Start
  <2>3. QED
    BY <2>1, <2>2
<1>4. Rest'
  BY <1>0, <1>2, <1>3 DEF Crash, Start, Rest
<1>5. QED
  BY <1>1, <1>4, TypeParts

\* The kinds of step.
LEMMA Kinds ==
  ASSUME TypeOK, ControlInv, Next
  PROVE  \/ Publish \/ Subscribe \/ Disconnect \/ Enqueue \/ RequestStop \/ CancelSubscriber \/ Exit
         \/ LoopTop \/ Collect \/ Collected \/ Shutdown \/ DrainTop
         \/ \E t \in Writers : Attempt(t) \/ Fails(t) \/ Written(t)
         \/ Crash \/ Start
BY UnknownAttempt, InsertAttempt, RefusedAttempt, RowAttempt, TransientFails, RaisedFails DEF Next, WriteStep

\* Every step preserves TypeOK.
LEMMA TypeStep ==
  ASSUME TypeOK, ControlInv, SentInv, Next
  PROVE  TypeOK'
<1>1. sent' \subseteq Rows
  <2>1. PICK n \in 0..Len(Stream) : sent' = {Stream[i] : i \in 1..n}
    BY SentStep DEF SentInv
  <2>2. Len(Stream) \in Nat /\ \A i \in 1..n : i \in 1..Len(Stream) /\ DOMAIN Stream = 1..Len(Stream)
    BY WriterAssumption
  <2>3. QED
    BY <2>1, <2>2 DEF Rows, ToSet
<1>2. QED
  BY <1>1, Kinds, QuietTypes, LoopTypes, WriterTypes, RestartTypes

-----------------------------------------------------------------------------
(* Control *)

\* Fits holds on for a coroutine that does not move,
LEMMA FitsStays ==
  ASSUME TypeOK, ControlInv, NEW u \in Writers, w'[u] = w[u], faults <= faults', faults' \in Nat
  PROVE  Fits(u)'
<1>1. Fits(u) /\ w[u].attempt \in Nat /\ faults \in Nat
  BY Typed, WriterAssumption DEF ControlInv, TypeOK
<1>2. QED
  BY <1>1 DEF Fits

\* so one coroutine is enough to look at:
LEMMA FitsOthers ==
  ASSUME TypeOK, ControlInv, NEW t \in Writers, Others(t), Fits(t)', faults <= faults', faults' \in Nat
  PROVE  \A u \in Writers : Fits(u)'
BY FitsStays DEF Others

\* idle,
LEMMA FitsIdle ==
  ASSUME NEW t \in Writers, NEW pc \in {"off", "top", "collect", "done"}, w'[t] = Idle(pc), faults' \in Nat
  PROVE  Fits(t)'
<1>1. w'[t].pc = pc /\ w'[t].batch = <<>> /\ w'[t].left = {} /\ w'[t].rows = {} /\ w'[t].attempt = 0
  BY IdleFields
<1>2. QED
  BY <1>1 DEF Fits

\* without a batch,
LEMMA FitsMoves ==
  ASSUME TypeOK, ControlInv, NEW t \in Writers, NEW pc \in {"off", "top", "collect", "done"}, Moves(t, pc), faults' = faults
  PROVE  \A u \in Writers : Fits(u)'
<1>1. faults \in Nat /\ w[t].attempt <= faults
  BY WriterAssumption DEF TypeOK, ControlInv, Fits
<1>2. Fits(t)'
  BY <1>1 DEF Moves, Fits
<1>3. QED
  BY <1>1, <1>2, FitsOthers DEF Moves

\* at the beginning of one.
LEMMA FitsBegins ==
  ASSUME TypeOK, ControlInv, NEW t \in Writers, NEW b, Begins(t, b), faults' = faults
  PROVE  \A u \in Writers : Fits(u)'
<1>1. faults \in Nat
  BY WriterAssumption DEF TypeOK
<1>2. Fits(t)'
  BY <1>1 DEF Begins, Fits
<1>3. QED
  BY <1>1, <1>2, FitsOthers DEF Begins

\* Every step preserves Fits.
LEMMA FitsStep ==
  ASSUME TypeOK, ControlInv, Next
  PROVE  \A u \in Writers : Fits(u)'
<1>0. faults \in Nat /\ "loop" \in Writers /\ "drain" \in Writers
  BY WriterAssumption DEF TypeOK, Writers
<1>1. CASE Publish \/ Subscribe \/ Disconnect \/ Enqueue \/ RequestStop \/ CancelSubscriber \/ Exit
  <2>1. UNCHANGED <<w, faults>>
    BY <1>1 DEF Publish, Subscribe, Disconnect, Enqueue, RequestStop, CancelSubscriber, Exit
  <2>2. QED
    BY <1>0, <2>1, FitsStays
<1>2. CASE LoopTop
  BY <1>0, <1>2, LoopTopShape, FitsMoves DEF LoopTop
<1>3. CASE Collect
  <2>1. faults' = faults
    BY <1>3 DEF Collect
  <2>2. Fits("loop")'
    BY <1>0, <1>3, <2>1, CollectShape DEF ControlInv, Fits
  <2>3. QED
    BY <1>0, <1>3, <2>1, <2>2, CollectShape, FitsOthers
<1>4. CASE Collected
  BY <1>0, <1>4, CollectedShape, FitsMoves, FitsBegins DEF Collected
<1>5. CASE Shutdown
  BY <1>0, <1>5, ShutdownShape, FitsMoves DEF Shutdown
<1>6. CASE DrainTop
  BY <1>0, <1>6, DrainShape, FitsMoves, FitsBegins DEF DrainTop
<1>7. ASSUME NEW t \in Writers, Attempt(t) \/ Fails(t) \/ Written(t)
      PROVE  \A u \in Writers : Fits(u)'
  <2>0. Fits(t) /\ w[t].attempt \in Nat
    BY Typed, WriterAssumption DEF ControlInv
  <2>1. CASE Attempt(t)
    <3>1. faults <= faults' /\ faults' \in Nat
      BY <1>0, <2>1 DEF Attempt
    <3>2. w'[t].left \cup w'[t].rows \subseteq Left(t)
      BY <2>1 DEF Attempt
    <3>3. Fits(t)'
      BY <1>0, <2>0, <2>1, <3>1, <3>2 DEF Attempt, Fits, Left
    <3>4. QED
      BY <2>1, <3>1, <3>3, FitsOthers DEF Attempt
  <2>2. CASE Fails(t)
    <3>1. faults' = faults + 1 /\ faults <= faults' /\ faults' \in Nat
      BY <1>0, <2>2 DEF Fails
    <3>2. Fits(t)'
      <4>1. CASE w'[t] = Idle("top")
        BY <3>1, <4>1, FitsIdle
      <4>2. CASE w'[t] # Idle("top")
        <5>1. /\ w'[t].pc = "write" /\ w'[t].rows = {} /\ w'[t].left = ToSet(w[t].batch)
              /\ w'[t].batch = w[t].batch /\ w'[t].attempt = w[t].attempt + 1
          BY <2>2, <4>2 DEF Fails
        <5>2. w[t].attempt + 1 <= faults'
          BY <1>0, <2>0, <3>1 DEF Fits
        <5>3. QED
          BY <5>1, <5>2 DEF Fits
      <4>3. QED
        BY <4>1, <4>2
    <3>3. QED
      BY <2>2, <3>1, <3>2, FitsOthers DEF Fails
  <2>3. CASE Written(t)
    BY <2>3, WrittenShape, FitsMoves DEF Written
  <2>4. QED
    BY <1>7, <2>1, <2>2, <2>3
<1>8. CASE Crash \/ Start
  <2>1. faults' = faults
    BY <1>8 DEF Crash, Start
  <2>2. QED
    BY <1>0, <1>8, <2>1, RestartShape, FitsIdle
<1>9. QED
  BY <1>1, <1>2, <1>3, <1>4, <1>5, <1>6, <1>7, <1>8, Kinds

\* Every step preserves ControlInv.
LEMMA ControlStep ==
  ASSUME TypeOK, ControlInv, Next
  PROVE  ControlInv'
<1> DEFINE Turns == /\ stopping \in {"no", "asked"} => w["drain"].pc = "off"
                    /\ stopping = "exited" => \A t \in Writers : w[t].pc = "done"
                    /\ w["drain"].pc \in {"off", "done"} => remaining = <<>>
                    /\ w["drain"].pc # "collect"
                    /\ stopping = "killed" => crashes > 0 /\ remaining = <<>>
<1>0. "loop" \in Writers /\ "drain" \in Writers /\ \A t \in Writers : t = "loop" \/ t = "drain"
  BY DEF Writers
<1>a. crashes \in Nat
  BY WriterAssumption DEF TypeOK
<1>b. Turns
  BY DEF ControlInv
<1>1. CASE Publish \/ Subscribe \/ Disconnect \/ Enqueue \/ CancelSubscriber
  <2>1. UNCHANGED <<w, stopping, remaining, crashes>>
    BY <1>1 DEF Publish, Subscribe, Disconnect, Enqueue, CancelSubscriber
  <2>2. Turns'
    BY <1>b, <2>1
  <2>3. QED
    BY <2>2, FitsStep DEF ControlInv
<1>2. CASE RequestStop \/ Exit
  <2>1. /\ UNCHANGED <<w, remaining, crashes>>
        /\ \/ stopping = "no" /\ stopping' = "asked"
           \/ stopping' = "exited" /\ \A t \in Writers : w[t].pc = "done"
    BY <1>2 DEF RequestStop, Exit
  <2>2. Turns'
    BY <1>b, <2>1
  <2>3. QED
    BY <2>2, FitsStep DEF ControlInv
<1>3. CASE LoopTop \/ Collect \/ Collected
  <2>1. UNCHANGED <<stopping, remaining, crashes>>
    BY <1>3 DEF LoopTop, Collect, Collected
  <2>2. w'["drain"] = w["drain"] /\ w["loop"].pc # "done"
    BY <1>0, <1>3, LoopTopShape, CollectShape, CollectedShape DEF Moves, Begins, Others
  <2>3. Turns'
    BY <1>0, <1>b, <2>1, <2>2
  <2>4. QED
    BY <2>3, FitsStep DEF ControlInv
<1>4. CASE Shutdown
  <2>1. stopping' = "draining" /\ w'["drain"].pc = "top"
    BY <1>4, ShutdownShape DEF Shutdown, Moves
  <2>2. Turns'
    BY <2>1
  <2>3. QED
    BY <2>2, FitsStep DEF ControlInv
<1>5. CASE DrainTop
  <2>1. UNCHANGED <<stopping, crashes>>
    BY <1>5 DEF DrainTop
  <2>2. /\ w["drain"].pc = "top"
        /\ \/ w'["drain"].pc = "done" /\ remaining' = <<>>
           \/ w'["drain"].pc = "write" /\ remaining # <<>>
    <3>1. CASE remaining = <<>>
      <4>1. w' = [w EXCEPT !["drain"] = Idle("done")] /\ remaining' = <<>>
        BY <1>5, <3>1 DEF DrainTop
      <4>2. QED
        BY <1>0, <1>5, <4>1, Typed, IdleFields, DrainShape
    <3>2. CASE remaining # <<>>
      BY <1>5, <3>2, DrainShape DEF Begins
    <3>3. QED
      BY <3>1, <3>2
  <2>3. Turns'
    BY <1>0, <1>b, <2>1, <2>2
  <2>4. QED
    BY <2>3, FitsStep DEF ControlInv
<1>6. ASSUME NEW t \in Writers, Attempt(t) \/ Fails(t) \/ Written(t)
      PROVE  ControlInv'
  <2>1. UNCHANGED <<stopping, remaining, crashes>>
    BY <1>6 DEF Attempt, Fails, Written
  <2>2. /\ w[t].pc \in {"write", "rows"} /\ w'[t].pc \in {"write", "rows", "top"} /\ Others(t)
    BY <1>6, IdleFields, WrittenShape DEF Attempt, Fails, Moves
  <2>3. Turns'
    <3>1. CASE t = "loop"
      <4>1. w'["drain"] = w["drain"]
        BY <1>0, <2>2, <3>1 DEF Others
      <4>2. QED
        BY <1>0, <1>b, <2>1, <2>2, <3>1, <4>1
    <3>2. CASE t = "drain"
      BY <1>b, <2>1, <2>2, <3>2
    <3>3. QED
      BY <1>0, <3>1, <3>2
  <2>4. QED
    BY <2>3, FitsStep DEF ControlInv
<1>7. CASE Crash
  <2>1. stopping' = "killed" /\ crashes' = crashes + 1 /\ remaining' = <<>> /\ w' = [t \in Writers |-> Idle("off")]
    BY <1>7 DEF Crash
  <2>2. w'["drain"].pc = "off" /\ crashes' > 0
    BY <1>0, <1>a, <2>1, IdleFields
  <2>3. Turns'
    BY <2>1, <2>2
  <2>4. QED
    BY <2>3, FitsStep DEF ControlInv
<1>8. CASE Start
  <2>1. stopping' = "no" /\ remaining' = remaining /\ (stopping = "exited" \/ stopping = "killed")
        /\ w' = [t \in Writers |-> Idle(IF t = "loop" THEN "top" ELSE "off")]
    BY <1>8 DEF Start, Alive, TypeOK
  <2>2. w'["drain"].pc = "off"
    BY <1>0, <2>1, IdleFields
  <2>3. remaining = <<>>
    BY <1>0, <1>b, <2>1
  <2>4. Turns'
    BY <2>1, <2>2, <2>3
  <2>5. QED
    BY <2>4, FitsStep DEF ControlInv
<1>9. QED
  BY <1>1, <1>2, <1>3, <1>4, <1>5, <1>6, <1>7, <1>8, Kinds

\* The inductive invariant of the control.
Inv == TypeOK /\ ControlInv /\ SentInv

\* All the invariants hold initially,
LEMMA InitInv ==
  ASSUME Init PROVE Inv /\ SinkInv /\ LossInv /\ OutageInv
<1>0. "loop" \in Writers /\ "drain" \in Writers
  BY DEF Writers
<1>1. /\ sent = {} /\ wire = <<>> /\ sub = "down" /\ queue = <<>> /\ received = {}
      /\ remaining = <<>> /\ stopping = "no" /\ db = [r \in Rows |-> 0] /\ dead = {} /\ logged = {}
      /\ dropped = {} /\ faults = 0 /\ crashes = 0
  BY DEF Init
<1>2. /\ w \in [Writers -> Coroutine]
      /\ \A t \in Writers : w[t] = Idle(IF t = "loop" THEN "top" ELSE "off")
  BY IdleFields DEF Init
<1>3. /\ \A t \in Writers : /\ w[t].batch = <<>> /\ w[t].left = {} /\ w[t].rows = {} /\ w[t].attempt = 0
                            /\ w[t].pc \in {"top", "off"}
      /\ w["drain"].pc = "off"
  BY <1>0, <1>2, IdleFields
<1>4. Rest
  <2>1. Len(<<>>) <= QUEUE_MAX_SIZE /\ <<>> \in Seq(Rows) /\ 0 \in 0..MaxFaults /\ 0 \in 0..MaxCrashes
    BY WriterAssumption
  <2>2. QED
    BY <1>1, <2>1 DEF Rest
<1>5. Sizes
  BY <1>3, WriterAssumption DEF Sizes
<1>6. \A t \in Writers : Fits(t) /\ Handled(t) = {}
  BY <1>1, <1>3 DEF Fits, Handled
<1>7. ControlInv
  BY <1>1, <1>3, <1>6 DEF ControlInv
<1>8. SentInv
  <2>1. InFlight = {}
    BY <1>1, <1>3, ToSetEmpty DEF InFlight
  <2>2. 0 \in 0..Len(Stream) /\ sent = {Stream[i] : i \in 1..0}
    BY <1>1, WriterAssumption
  <2>3. QED
    BY <2>1, <2>2 DEF SentInv
<1>9. SinkInv /\ LossInv /\ OutageInv
  BY <1>1, <1>6 DEF SinkInv, LossInv, OutageInv
<1>10. QED
  BY <1>2, <1>4, <1>5, <1>7, <1>8, <1>9, TypeParts DEF Inv

\* and when nothing changes.
LEMMA Stutter ==
  ASSUME UNCHANGED vars
  PROVE  /\ Inv => Inv' /\ (SinkInv => SinkInv') /\ (LossInv => LossInv') /\ (OutageInv => OutageInv')
<1> USE DEF vars
<1>1. InFlight' = InFlight /\ Held' = Held /\ Stored' = Stored /\ \A t \in Writers : Handled(t)' = Handled(t)
  BY DEF InFlight, Held, Stored, Handled
<1>2. TypeOK => TypeOK'
  BY DEF TypeOK
<1>3. ControlInv => ControlInv'
  BY DEF ControlInv, Fits
<1>4. SentInv => SentInv'
  BY <1>1 DEF SentInv
<1>5. (SinkInv => SinkInv') /\ (LossInv => LossInv') /\ (OutageInv => OutageInv')
  BY <1>1 DEF SinkInv, LossInv, OutageInv
<1>6. QED
  BY <1>2, <1>3, <1>4, <1>5 DEF Inv

\* Every step preserves Inv,
LEMMA InvStep ==
  ASSUME Inv, [Next]_vars PROVE Inv'
BY TypeStep, ControlStep, SentStep, Stutter DEF Inv

-----------------------------------------------------------------------------
(* Losses *)

\* LossInv,
LEMMA LossStep ==
  ASSUME Inv, LossInv, [Next]_vars PROVE LossInv'
<1>1. CASE UNCHANGED vars
  BY <1>1, Stutter
<1>2. CASE Next
  <2>1. Flow \/ crashes' > 0
    BY <1>2, FlowStep DEF Inv
  <2>2. CASE crashes' > 0
    BY <2>2 DEF LossInv
  <2>3. CASE Flow /\ crashes' = 0
    <3>1. crashes = 0
      BY <2>3 DEF Flow
    <3> DEFINE K == Stored \cup dead \cup logged
               H == UNION {Handled(t) : t \in Writers}
    <3>2. received \subseteq Held \cup K \cup dropped /\ \A t \in Writers : Handled(t) \subseteq K
      BY <3>1 DEF LossInv
    <3>3. K \subseteq K'
      BY <2>3 DEF Flow
    <3>4. \A t \in Writers : Handled(t)' \subseteq K'
      BY <2>3, <3>2, <3>3 DEF Flow
    <3>5. H \subseteq K
      BY <3>2
    <3>6. /\ received' \subseteq received \cup Held' \cup dropped' /\ dropped \subseteq dropped'
          /\ Held \subseteq Held' \cup H \cup logged' \cup dropped'
      BY <2>3 DEF Flow
    <3> HIDE DEF H
    <3>7. received' \subseteq Held' \cup K' \cup dropped'
      BY <3>2, <3>3, <3>5, <3>6
    <3>8. QED
      BY <3>4, <3>7 DEF LossInv
  <2>4. QED
    BY <2>1, <2>2, <2>3 DEF LossInv
<1>3. QED
  BY <1>1, <1>2

\* and OutageInv.
LEMMA OutageStep ==
  ASSUME Inv, OutageInv, [Next]_vars PROVE OutageInv'
<1>1. CASE UNCHANGED vars
  BY <1>1, Stutter
<1>2. CASE Next
  <2>1. Flow \/ crashes' > 0
    BY <1>2, FlowStep DEF Inv
  <2>2. CASE crashes' > 0
    BY <2>2 DEF OutageInv
  <2>3. CASE Flow /\ crashes' = 0 /\ faults' < RETRY_ATTEMPTS
    <3>0. faults \in Nat /\ faults' \in Nat /\ RETRY_ATTEMPTS \in Nat
      <4>1. TypeOK /\ TypeOK'
        BY InvStep DEF Inv
      <4>2. QED
        BY <4>1, WriterAssumption DEF TypeOK
    <3>1. crashes = 0 /\ faults < RETRY_ATTEMPTS
      BY <2>3, <3>0 DEF Flow
    <3> DEFINE H == UNION {Handled(t) : t \in Writers}
    <3>2. /\ received \cap Valid \subseteq Held \cup Stored \cup dropped
          /\ \A t \in Writers : Handled(t) \cap Valid \subseteq Stored
      BY <3>1 DEF OutageInv
    <3>3. Stored \subseteq Stored'
      BY <2>3 DEF Flow
    <3>4. \A t \in Writers : Handled(t)' \cap Valid \subseteq Stored'
      BY <2>3, <3>2, <3>3 DEF Flow
    <3>5. H \cap Valid \subseteq Stored
      BY <3>2
    <3>6. /\ received' \subseteq received \cup Held' \cup dropped' /\ dropped \subseteq dropped'
          /\ Held \subseteq Held' \cup H \cup dropped'
      BY <2>3, <3>0 DEF Flow
    <3> HIDE DEF H
    <3>7. received' \cap Valid \subseteq Held' \cup Stored' \cup dropped'
      BY <3>2, <3>3, <3>5, <3>6
    <3>8. QED
      BY <3>4, <3>7 DEF OutageInv
  <2>4. QED
    BY <2>1, <2>2, <2>3 DEF OutageInv
<1>3. QED
  BY <1>1, <1>2

-----------------------------------------------------------------------------
(* The refinement *)

\* "Every table an engine streams through the db-writer is here" (writer.py:83, of
\* IDEMPOTENT_TABLES): the tables the writer knows without a natural key
\* (account_history, open_position_history) get no row through it.
EveryTableIsIdempotent ==
  \A r \in Rows : TableOf[r] \in TABLE_MODELS => TableOf[r] \in IDEMPOTENT_TABLES

\* Then a step stores only valid rows in flight, once, and parks only the others.
LEMMA Landing ==
  ASSUME EveryTableIsIdempotent, TypeOK, ControlInv, SinkInv, Next
  PROVE  /\ \A r \in Rows : db'[r] = db[r] \/ (r \in InFlight \cap Valid /\ db'[r] = 1)
         /\ dead \subseteq dead' /\ dead' \subseteq dead \cup (InFlight \ Valid)
<1>1. CASE \/ Publish \/ Subscribe \/ Disconnect \/ Enqueue \/ RequestStop \/ CancelSubscriber \/ Exit
           \/ LoopTop \/ Collect \/ Collected \/ Shutdown \/ DrainTop \/ Crash \/ Start
  <2>1. UNCHANGED <<db, dead>>
    BY <1>1 DEF Publish, Subscribe, Disconnect, Enqueue, RequestStop, CancelSubscriber, Exit, LoopTop, Collect,
                Collected, Shutdown, DrainTop, Crash, Start
  <2>2. QED
    BY <2>1
<1>2. ASSUME NEW t \in Writers, Attempt(t) \/ Fails(t) \/ Written(t)
      PROVE  /\ \A r \in Rows : db'[r] = db[r] \/ (r \in InFlight \cap Valid /\ db'[r] = 1)
             /\ dead \subseteq dead' /\ dead' \subseteq dead \cup (InFlight \ Valid)
  <2>1. Left(t) \subseteq InFlight
    BY DEF ControlInv, Fits, Left, InFlight
  <2>2. Left(t) \subseteq Rows
    BY Typed DEF Left
  <2>3. PICK D \in SUBSET Left(t) :
          \/ D \subseteq Valid /\ (db' = Insert(D) \/ db' = db) /\ dead' = dead
          \/ D \cap Valid = {} /\ db' = db /\ (dead' = dead \cup D \/ dead' = dead)
    <3>1. CASE Attempt(t)
      BY <3>1 DEF Attempt
    <3>2. CASE Fails(t)
      <4>1. PICK D \in SUBSET (Left(t) \cap Valid) : db' = db \/ db' = Insert(D)
        BY <3>2 DEF Fails
      <4>2. QED
        BY <3>2, <4>1 DEF Fails
    <3>3. CASE Written(t)
      BY <3>3 DEF Written
    <3>4. QED
      BY <1>2, <3>1, <3>2, <3>3
  <2>4. CASE D \subseteq Valid /\ db' = Insert(D) /\ dead' = dead
    <3>1. \A r \in Rows : db[r] \in {0, 1}
      BY DEF SinkInv
    <3>2. ASSUME NEW r \in D PROVE db'[r] = 1
      <4>1. r \in Rows /\ TableOf[r] \in IDEMPOTENT_TABLES
        BY <2>2, <2>4 DEF Valid, Unknown, EveryTableIsIdempotent
      <4>2. QED
        BY <2>2, <2>4, <3>1, <4>1, InsertFacts
    <3>3. \A r \in Rows \ D : db'[r] = db[r]
      BY <2>2, <2>4, InsertFacts
    <3>4. QED
      BY <2>1, <2>4, <3>2, <3>3
  <2>5. CASE db' = db
    BY <2>1, <2>3, <2>5
  <2>6. QED
    BY <2>3, <2>4, <2>5
<1>3. QED
  BY <1>1, <1>2, Kinds

\* Every step preserves SinkInv.
LEMMA SinkStep ==
  ASSUME EveryTableIsIdempotent, Inv, SinkInv, [Next]_vars PROVE SinkInv'
<1>1. CASE UNCHANGED vars
  BY <1>1, Stutter
<1>2. CASE Next
  <2>1. sent \subseteq sent' /\ InFlight \subseteq sent
    BY <1>2, SentStep DEF Inv, SentInv
  <2>2. /\ \A r \in Rows : db'[r] = db[r] \/ (r \in InFlight \cap Valid /\ db'[r] = 1)
        /\ dead' \subseteq dead \cup (InFlight \ Valid)
    BY <1>2, Landing DEF Inv
  <2>3. QED
    BY <2>1, <2>2 DEF SinkInv
<1>3. QED
  BY <1>1, <1>2

\* The status of a row when SinkInv holds.
Status(d, parked, flying, published) ==
  IF d = 1 THEN "stored" ELSE IF parked THEN "parked" ELSE IF flying THEN "inflight"
  ELSE IF published THEN "lost" ELSE "unsent"

\* It is that.
LEMMA StatusIs ==
  ASSUME SinkInv, NEW r \in Rows
  PROVE  StatusOf(r) = Status(db[r], r \in dead, r \in InFlight, r \in sent)
<1>1. db[r] \in {0, 1} /\ (db[r] = 1 => r \notin dead)
  BY DEF SinkInv
<1>2. CASE db[r] = 1
  BY <1>1, <1>2 DEF StatusOf, Status
<1>3. CASE db[r] = 0 /\ r \in dead
  BY <1>3 DEF StatusOf, Status
<1>4. CASE db[r] = 0 /\ r \notin dead
  BY <1>4 DEF StatusOf, Status
<1>5. QED
  BY <1>1, <1>2, <1>3, <1>4

\* Initial states map to initial states,
LEMMA StatusInit ==
  ASSUME Init PROVE Sink!SinkInit
<1>1. SinkInv /\ Inv
  BY InitInv
<1>2. ASSUME NEW r \in Rows PROVE StatusOf(r) = "unsent"
  <2>1. db[r] = 0 /\ r \notin dead /\ r \notin sent
    BY DEF Init
  <2>2. r \notin InFlight
    BY <1>1, <2>1 DEF Inv, SentInv
  <2>3. QED
    BY <1>1, <2>1, <2>2, StatusIs DEF Status
<1>3. QED
  BY <1>2 DEF Sink!SinkInit

\* and steps to steps of the sink, or to none.
LEMMA StatusStep ==
  ASSUME EveryTableIsIdempotent, Inv, SinkInv, [Next]_vars
  PROVE  [Sink!SinkNext]_([r \in Rows |-> StatusOf(r)])
<1>1. CASE UNCHANGED vars
  <2>1. InFlight' = InFlight
    BY <1>1 DEF vars, InFlight
  <2>2. \A r \in Rows : StatusOf(r)' = StatusOf(r)
    BY <1>1, <2>1 DEF vars, StatusOf
  <2>3. QED
    BY <2>2
<1>2. CASE Next
  <2>1. SinkInv' /\ Inv'
    BY SinkStep, InvStep
  <2>2. \A r \in Rows : StatusOf(r)' = Status(db'[r], r \in dead', r \in InFlight', r \in sent')
    <3>1. ASSUME NEW r \in Rows
          PROVE  StatusOf(r)' = Status(db'[r], r \in dead', r \in InFlight', r \in sent')
      <4>1. db'[r] \in {0, 1} /\ (db'[r] = 1 => r \notin dead')
        BY <2>1 DEF SinkInv
      <4>2. CASE db'[r] = 1
        BY <4>1, <4>2 DEF StatusOf, Status
      <4>3. CASE db'[r] = 0 /\ r \in dead'
        BY <4>3 DEF StatusOf, Status
      <4>4. CASE db'[r] = 0 /\ r \notin dead'
        BY <4>4 DEF StatusOf, Status
      <4>5. QED
        BY <4>1, <4>2, <4>3, <4>4
    <3>2. QED
      BY <3>1
  <2>3. ASSUME NEW r \in Rows
        PROVE  StatusOf(r)' \in
                 CASE StatusOf(r) = "unsent"   -> {"unsent", "inflight", "lost"}
                   [] StatusOf(r) = "inflight" -> {"inflight", "lost", IF r \in Valid THEN "stored" ELSE "parked"}
                   [] OTHER                    -> {StatusOf(r)}
    <3>1. /\ StatusOf(r) = Status(db[r], r \in dead, r \in InFlight, r \in sent)
          /\ StatusOf(r)' = Status(db'[r], r \in dead', r \in InFlight', r \in sent')
      BY <2>2, StatusIs
    <3>2. /\ db'[r] = db[r] \/ (r \in InFlight \cap Valid /\ db'[r] = 1)
          /\ dead \subseteq dead' /\ dead' \subseteq dead \cup (InFlight \ Valid)
      BY <1>2, Landing DEF Inv
    <3>3. /\ db[r] \in {0, 1} /\ (db[r] = 1 => r \in sent \cap Valid) /\ (r \in dead => r \in sent \ Valid)
          /\ (r \in InFlight => r \in sent) /\ (r \in InFlight' => r \in sent')
      BY <2>1 DEF SinkInv, Inv, SentInv
    <3>4. sent \subseteq sent' /\ (r \in sent /\ r \in InFlight' => r \in InFlight)
      <4>1. CASE Publish
        <5>1. PICK n \in 0..Len(Stream) : sent = {Stream[i] : i \in 1..n}
          BY DEF Inv, SentInv
        <5>2. Stream[Cardinality(sent) + 1] \notin sent
          BY <4>1, <5>1, SentPrefix DEF Publish
        <5>3. InFlight' \subseteq InFlight \cup {Stream[Cardinality(sent) + 1]}
          BY <1>2, <4>1, FlowStep DEF Inv, Tracked
        <5>4. sent \subseteq sent'
          BY <4>1 DEF Publish
        <5>5. QED
          BY <5>2, <5>3, <5>4
      <4>2. CASE ~Publish
        BY <1>2, <4>2, FlowStep, SentFrame DEF Inv, Tracked
      <4>3. QED
        BY <4>1, <4>2
    <3>5. CASE db[r] = 1
      BY <3>1, <3>2, <3>5 DEF Status
    <3>6. CASE db[r] = 0 /\ r \in dead
      BY <3>1, <3>2, <3>3, <3>6 DEF Status
    <3>7. CASE db[r] = 0 /\ r \notin dead /\ r \in InFlight
      BY <3>1, <3>2, <3>3, <3>4, <3>7 DEF Status
    <3>8. CASE db[r] = 0 /\ r \notin dead /\ r \notin InFlight
      <4>1. db'[r] = 0 /\ r \notin dead'
        BY <3>2, <3>8
      <4>2. QED
        BY <3>1, <3>3, <3>4, <3>8, <4>1 DEF Status
    <3>9. QED
      BY <3>3, <3>5, <3>6, <3>7, <3>8
  <2>4. Sink!SinkNext
    BY <2>3 DEF Sink!SinkNext, Sink!Moves
  <2>5. QED
    BY <2>4
<1>3. QED
  BY <1>1, <1>2

-----------------------------------------------------------------------------
(* Theorems *)

\* Which coroutine writes what, and when, is always as Inv says, for any stream, batch and
\* queue sizes, retries, faults and kills (AsyncDatabaseWriter.run, shutdown).
THEOREM Invariance == Spec => []Inv
<1>1. Init => Inv
  BY InitInv
<1>2. Inv /\ [Next]_vars => Inv'
  BY InvStep
<1>3. QED
  BY <1>1, <1>2, PTL DEF Spec

\* Every variable keeps its type; the queue and the batches keep to their bounds
\* (QUEUE_MAX_SIZE, BATCH_SIZE_MAX).
THEOREM TypeCorrect == Spec => []TypeOK
<1>1. Inv => TypeOK
  BY DEF Inv
<1>2. QED
  BY Invariance, <1>1, PTL

\* Without a kill, a row the queue took is in the process, stored, parked or reported,
\* however run() and shutdown() interleave and whatever fails (the except branches of
\* run, shutdown and _dead_letter).
THEOREM LossIsReportedHolds == Spec => []LossIsReported
<1>1. Init => LossInv
  BY InitInv
<1>2. Inv /\ LossInv /\ [Next]_vars => LossInv'
  BY LossStep
<1>3. LossInv => LossIsReported
  <2>1. Held \subseteq InFlight
    BY Flights
  <2>2. QED
    BY <2>1 DEF LossInv, LossIsReported, Stored
<1>4. QED
  BY Invariance, <1>1, <1>2, <1>3, PTL DEF Spec

\* Fewer faults than the retry budget lose no valid row the queue took: the whole batch
\* is sent again and a refused row takes none of its neighbours with it
\* (_write_batch_with_retries, _write_rows_one_by_one).
THEOREM RetriesLoseNothingHolds == Spec => []RetriesLoseNothing
<1>1. Init => OutageInv
  BY InitInv
<1>2. Inv /\ OutageInv /\ [Next]_vars => OutageInv'
  BY OutageStep
<1>3. OutageInv => RetriesLoseNothing
  <2>1. Held \subseteq InFlight
    BY Flights
  <2>2. QED
    BY <2>1 DEF OutageInv, RetriesLoseNothing, Stored
<1>4. QED
  BY Invariance, <1>1, <1>2, <1>3, PTL DEF Spec

\* The writer implements the lossy sink: no retry, in-doubt commit, concurrent drain or
\* kill stores a row twice, parks a stored one, or brings a lost one back
\* (_build_insert's ON CONFLICT DO NOTHING).
THEOREM ImplementsSinkHolds ==
  ASSUME EveryTableIsIdempotent PROVE Spec => ImplementsSink
<1>1. Init => SinkInv /\ Sink!SinkInit
  BY InitInv, StatusInit
<1>2. Inv /\ SinkInv /\ [Next]_vars => SinkInv'
  BY SinkStep
<1>3. Inv /\ SinkInv /\ [Next]_vars => [Sink!SinkNext]_([r \in Rows |-> StatusOf(r)])
  BY StatusStep
<1>4. QED
  BY Invariance, <1>1, <1>2, <1>3, PTL DEF Spec, ImplementsSink, Sink!Spec
===============================================================================
