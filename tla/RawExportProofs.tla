--------------------------- MODULE RawExportProofs ----------------------------
(****************************************************************************)
(* Proofs about RawExport, for any number of batches and any sizes of the   *)
(* records and of the buffer: what the exporter has received is in its file *)
(* once and in order, and its lines end, whatever ends the exporter.        *)
(****************************************************************************)
EXTENDS RawExport, SequenceTheorems, TLAPS

------------------------------------------------------------------------------
(* Batches in sequences and sets *)

Elems(s) == {s[i] : i \in 1 .. Len(s)}

Increasing(s) == \A i, j \in 1 .. Len(s) : i < j => s[i] < s[j]

Precedes(A, B) == \A a \in A, b \in B : a < b

LEMMA BatchesAreNumbers == Batch \subseteq Nat \ {0} /\ 0 \notin Batch /\ MaxBatches \in Nat
BY SizeAssumption DEF Batch

LEMMA ElemsType ==
  ASSUME NEW s \in Seq(Batch)
  PROVE  Elems(s) \subseteq Batch
BY LenProperties DEF Elems

LEMMA HeadComesFirst ==
  ASSUME NEW s \in Seq(Batch), s # <<>>, Increasing(s)
  PROVE  /\ Head(s) \in Batch /\ Tail(s) \in Seq(Batch)
         /\ Elems(s) = {Head(s)} \union Elems(Tail(s))
         /\ Precedes({Head(s)}, Elems(Tail(s)))
         /\ Increasing(Tail(s))
<1>1. Len(s) \in Nat /\ Len(s) # 0
  BY LenProperties, EmptySeq
<1>2. /\ Head(s) \in Batch /\ Tail(s) \in Seq(Batch) /\ Len(Tail(s)) = Len(s) - 1
      /\ \A i \in 1 .. Len(Tail(s)) : Tail(s)[i] = s[i + 1]
  BY HeadTailProperties
<1>3. Head(s) = s[1]
  BY <1>1
<1> DEFINE t == Tail(s)
           l == Len(s)
<1>4. \A i \in 1 .. l - 1 : t[i] = s[i + 1]
  BY <1>2
<1>5. Len(t) = l - 1 /\ l \in Nat \ {0}
  BY <1>1, <1>2
<1>6. \A i, j \in 1 .. l : i < j => s[i] < s[j]
  BY DEF Increasing
<1> HIDE DEF t, l
<1>7. ASSUME NEW i \in 1 .. l - 1, NEW j \in 1 .. l - 1, i < j PROVE t[i] < t[j]
  <2>1. i + 1 \in 1 .. l /\ j + 1 \in 1 .. l /\ i + 1 < j + 1
    BY <1>5, <1>7
  <2> QED BY <1>4, <1>6, <2>1
<1>8. ASSUME NEW i \in 1 .. l - 1 PROVE s[1] < t[i]
  <2>1. 1 \in 1 .. l /\ i + 1 \in 1 .. l /\ 1 < i + 1
    BY <1>5
  <2> QED BY <1>4, <1>6, <2>1
<1>9. {s[i] : i \in 1 .. l} = {s[1]} \union {t[i] : i \in 1 .. l - 1}
  <2>1. ASSUME NEW i \in 1 .. l PROVE s[i] \in {s[1]} \union {t[k] : k \in 1 .. l - 1}
    <3>1. i = 1 \/ (i - 1 \in 1 .. l - 1 /\ (i - 1) + 1 = i)
      BY <1>5
    <3> QED BY <1>4, <3>1
  <2>2. ASSUME NEW i \in 1 .. l - 1 PROVE t[i] \in {s[k] : k \in 1 .. l}
    <3>1. i + 1 \in 1 .. l
      BY <1>5
    <3> QED BY <1>4, <3>1
  <2>3. s[1] \in {s[k] : k \in 1 .. l}
    BY <1>5
  <2> QED BY <2>1, <2>2, <2>3
<1> QED BY <1>2, <1>3, <1>5, <1>7, <1>8, <1>9 DEF t, l, Elems, Increasing, Precedes

LEMMA AppendComesLast ==
  ASSUME NEW s \in Seq(Batch), NEW b \in Batch, Increasing(s), Precedes(Elems(s), {b})
  PROVE  /\ Append(s, b) \in Seq(Batch)
         /\ Elems(Append(s, b)) = Elems(s) \union {b}
         /\ Increasing(Append(s, b))
<1> DEFINE t == Append(s, b)
           l == Len(s)
<1>1. /\ t \in Seq(Batch) /\ Len(t) = l + 1 /\ l \in Nat
      /\ \A i \in 1 .. l : t[i] = s[i]
      /\ t[l + 1] = b
  BY AppendProperties, LenProperties
<1>2. /\ \A i, j \in 1 .. l : i < j => s[i] < s[j]
      /\ \A i \in 1 .. l : s[i] < b
  BY DEF Increasing, Precedes, Elems
<1>3. Elems(s) = {s[i] : i \in 1 .. l}
  BY DEF Elems
<1> HIDE DEF t, l
<1>4. \A i \in 1 .. l + 1 : i \in 1 .. l \/ i = l + 1
  BY <1>1
<1>5. 1 .. l \subseteq 1 .. l + 1 /\ l + 1 \in 1 .. l + 1
  BY <1>1
<1>6. ASSUME NEW i \in 1 .. l + 1, NEW j \in 1 .. l + 1, i < j PROVE t[i] < t[j]
  <2>1. i \in 1 .. l
    BY <1>1, <1>6
  <2> QED BY <1>1, <1>2, <1>4, <1>6, <2>1
<1>7. {t[i] : i \in 1 .. l + 1} = Elems(s) \union {b}
  BY <1>1, <1>3, <1>4, <1>5
<1> QED BY <1>1, <1>6, <1>7 DEF t, Elems, Increasing

LEMMA PrefixKeeps ==
  ASSUME NEW s \in Seq(Batch), NEW k \in 0 .. Len(s), Increasing(s)
  PROVE  /\ SubSeq(s, 1, k) \in Seq(Batch)
         /\ Elems(SubSeq(s, 1, k)) \subseteq Elems(s)
         /\ Increasing(SubSeq(s, 1, k))
<1>1. Len(s) \in Nat /\ \A i \in 1 .. Len(s) : s[i] \in Batch
  BY LenProperties
<1>2. k \in Int /\ 1 \in Int /\ \A i \in 1 .. k : s[i] \in Batch
  BY <1>1
<1>3. /\ SubSeq(s, 1, k) \in Seq(Batch)
      /\ Len(SubSeq(s, 1, k)) = IF 1 <= k THEN k - 1 + 1 ELSE 0
      /\ \A i \in 1 .. k - 1 + 1 : SubSeq(s, 1, k)[i] = s[1 + i - 1]
  BY <1>2, SubSeqProperties
<1>4. Len(SubSeq(s, 1, k)) = k
  BY <1>1, <1>3
<1>5. ASSUME NEW i \in 1 .. k PROVE SubSeq(s, 1, k)[i] = s[i] /\ i \in 1 .. Len(s)
  <2>1. i \in 1 .. k - 1 + 1 /\ 1 + i - 1 = i /\ i \in 1 .. Len(s)
    BY <1>1
  <2> QED BY <1>3, <2>1
<1> QED BY <1>3, <1>4, <1>5 DEF Elems, Increasing

LEMMA EmptyIsEmpty == <<>> \in Seq(Batch) /\ Elems(<<>>) = {} /\ Increasing(<<>>)
BY EmptySeq DEF Elems, Increasing

------------------------------------------------------------------------------
(* The inductive invariant.  The writer sees the buffer and the file as one   *)
(* stream of tokens; a batch moves from the wire over the channel and the     *)
(* writer's hands into the stream, or is cut, and never overtakes another.    *)

Stream(o) == o.file \o o.buffer

HeldBy(w) == IF w.at = "record" THEN {w.record.n} ELSE {}

\* The records that will stay without a newline.
Settled(tokens, w) == Glued(tokens) \ (IF w.at = "newline" THEN {Len(tokens)} ELSE {})

Flow(written, held, queued, sent, dropped, n) ==
  /\ \A a \in written \union held \union queued \union sent \union dropped :
       a \in Batch /\ a <= n
  /\ Precedes(written, held \union queued \union sent)
  /\ Precedes(held, queued \union sent)
  /\ Precedes(queued, sent)
  /\ Precedes(dropped, held \union queued \union sent)
  /\ dropped \intersect written = {}

Lines(tokens, w) ==
  /\ InOrder(tokens)
  /\ Stray(tokens) = {}
  /\ w.at = "newline" => tokens # <<>> /\ IsRecord(tokens[Len(tokens)])

GoodState(tokens, w, queue, sent, got, dropped, n) ==
  /\ Flow(Numbers(tokens), HeldBy(w), Elems(queue), Elems(sent), dropped, n)
  /\ got = Numbers(tokens) \union HeldBy(w) \union Elems(queue) \union dropped
  /\ Increasing(queue) /\ Increasing(sent)
  /\ Lines(tokens, w)

Good == GoodState(Stream(out), writer, channel, wire, received, cut, collected)

AtMostOne(S) == \A x, y \in S : x = y

Phase ==
  /\ poller = connected
  /\ writer.at # "off" => main \in {"select", "draining"}
  /\ main \in {"draining", "flushing", "done"} => ~connected
  /\ main \in {"flushing", "done"} => channel = <<>>
  /\ main = "done" => out.buffer = <<>>

DamageState(settled, dropped, at, sig) ==
  /\ at \in Early \union {"select"} => dropped = {} /\ settled = {}
  /\ dropped # {} \/ settled # {} => sig
  /\ AtMostOne(dropped) /\ AtMostOne(settled)
  /\ dropped = {} \/ settled = {}

HalfLines == Settled(Stream(out), writer)

Damage == DamageState(HalfLines, cut, main, signalled)

IInv == TypeOK /\ Good /\ Phase /\ Damage

------------------------------------------------------------------------------
(* A token more in the stream *)

LEMMA TokenKinds ==
  /\ Newline \in Token /\ ~IsRecord(Newline) /\ Newline.n = 0 /\ Newline.size = 1
  /\ \A r \in Record : r \in Token /\ IsRecord(r) /\ r.n \in Batch /\ r.size \in 1 .. MaxSize
  /\ \A t \in Token : t.size \in Nat
BY BatchesAreNumbers, SizeAssumption DEF Token, Record, Newline, IsRecord

LEMMA Appended ==
  ASSUME NEW s \in Seq(Token), NEW t \in Token
  PROVE  /\ Append(s, t) \in Seq(Token) /\ Append(s, t) # <<>>
         /\ Len(s) \in Nat /\ Len(Append(s, t)) = Len(s) + 1
         /\ DOMAIN s = 1 .. Len(s) /\ DOMAIN Append(s, t) = 1 .. Len(s) + 1
         /\ \A i \in 1 .. Len(s) : Append(s, t)[i] = s[i]
         /\ Append(s, t)[Len(s) + 1] = t
<1>1. Append(s, t) \in Seq(Token) /\ Len(Append(s, t)) = Len(s) + 1
  BY AppendProperties
<1>2. Len(s) \in Nat /\ DOMAIN s = 1 .. Len(s)
  BY LenProperties
<1>3. DOMAIN Append(s, t) = 1 .. Len(Append(s, t))
  BY <1>1, LenProperties
<1>4. Append(s, t) # <<>>
  BY AppendProperties
<1> QED BY <1>1, <1>2, <1>3, <1>4, AppendProperties

LEMMA NumbersAppend ==
  ASSUME NEW s \in Seq(Token), NEW t \in Token
  PROVE  Numbers(Append(s, t)) = Numbers(s) \union (IF IsRecord(t) THEN {t.n} ELSE {})
<1> DEFINE u == Append(s, t)
           l == Len(s)
<1>1. /\ l \in Nat /\ DOMAIN s = 1 .. l /\ DOMAIN u = 1 .. l + 1
      /\ \A i \in 1 .. l : u[i] = s[i]
      /\ u[l + 1] = t
  BY Appended
<1> HIDE DEF u, l
<1>2. \A i : i \in 1 .. l + 1 <=> i \in 1 .. l \/ i = l + 1
  BY <1>1
<1>3. ASSUME NEW b PROVE b \in Numbers(u) <=>
        b \in Numbers(s) \/ (IsRecord(t) /\ b = t.n)
  BY <1>1, <1>2 DEF Numbers
<1>4. Numbers(u) = Numbers(s) \union (IF IsRecord(t) THEN {t.n} ELSE {})
  BY <1>3
<1> QED BY <1>4 DEF u

LEMMA InOrderAppend ==
  ASSUME NEW s \in Seq(Token), NEW t \in Token, InOrder(s),
         IsRecord(t) => Precedes(Numbers(s), {t.n})
  PROVE  InOrder(Append(s, t))
<1> DEFINE u == Append(s, t)
           l == Len(s)
<1>1. /\ l \in Nat /\ DOMAIN s = 1 .. l /\ DOMAIN u = 1 .. l + 1
      /\ \A i \in 1 .. l : u[i] = s[i]
      /\ u[l + 1] = t
  BY Appended
<1>2. ASSUME NEW i \in 1 .. l, IsRecord(s[i]), IsRecord(t) PROVE s[i].n < t.n
  BY <1>1, <1>2 DEF Numbers, Precedes
<1> HIDE DEF u, l
<1>3. ASSUME NEW i \in 1 .. l + 1, NEW j \in 1 .. l + 1, i < j,
             IsRecord(u[i]), IsRecord(u[j])
      PROVE  u[i].n < u[j].n
  <2>1. i \in 1 .. l /\ (j \in 1 .. l \/ j = l + 1)
    BY <1>1, <1>3
  <2>2. CASE j \in 1 .. l
    <3>1. s[i].n < s[j].n
      BY <1>1, <1>3, <2>1, <2>2 DEF InOrder
    <3> QED BY <1>1, <2>1, <2>2, <3>1
  <2>3. CASE j = l + 1
    BY <1>1, <1>2, <1>3, <2>1, <2>3
  <2> QED BY <2>1, <2>2, <2>3
<1>4. InOrder(u)
  BY <1>1, <1>3 DEF InOrder
<1> QED BY <1>4 DEF u

LEMMA RecordAppend ==
  ASSUME NEW s \in Seq(Token), NEW r \in Record
  PROVE  /\ Stray(Append(s, r)) = Stray(s)
         /\ Glued(Append(s, r)) = Glued(s) \union {Len(s) + 1}
         /\ Len(s) + 1 \notin Glued(s)
<1> DEFINE u == Append(s, r)
           l == Len(s)
<1>1. /\ l \in Nat /\ DOMAIN s = 1 .. l /\ DOMAIN u = 1 .. l + 1 /\ Len(u) = l + 1
      /\ \A i \in 1 .. l : u[i] = s[i]
      /\ u[l + 1] = r /\ IsRecord(r)
  BY Appended, TokenKinds
<1>2. Len(s) = l
  OBVIOUS
<1> HIDE DEF u, l
<1>3. \A i \in 1 .. l + 1 : i \in 1 .. l \/ i = l + 1
  BY <1>1
<1>4. \A i \in 1 .. l : i \in 1 .. l + 1 /\ i # l + 1
                         /\ (i = l \/ i + 1 \in 1 .. l) /\ (i = 1 \/ i - 1 \in 1 .. l)
  BY <1>1
<1>5. l + 1 \in 1 .. l + 1
  BY <1>1
<1>6. Stray(u) = Stray(s)
  <2>1. ASSUME NEW i \in 1 .. l PROVE i \in Stray(u) <=> i \in Stray(s)
    BY <1>1, <1>4 DEF Stray
  <2>2. l + 1 \notin Stray(u)
    BY <1>1 DEF Stray
  <2>3. Stray(u) \subseteq 1 .. l + 1 /\ Stray(s) \subseteq 1 .. l
    BY <1>1 DEF Stray
  <2> QED BY <1>3, <2>1, <2>2, <2>3
<1>7. Glued(u) = Glued(s) \union {l + 1}
  <2>1. ASSUME NEW i \in 1 .. l PROVE i \in Glued(u) <=> i \in Glued(s)
    <3>1. CASE i = l
      BY <1>1, <1>2, <1>4, <3>1 DEF Glued
    <3>2. CASE i # l
      BY <1>1, <1>2, <1>4, <3>2 DEF Glued
    <3> QED BY <3>1, <3>2
  <2>2. l + 1 \in Glued(u)
    BY <1>1, <1>5 DEF Glued
  <2>3. Glued(u) \subseteq 1 .. l + 1 /\ Glued(s) \subseteq 1 .. l
    BY <1>1 DEF Glued
  <2> QED BY <1>3, <2>1, <2>2, <2>3
<1>8. l + 1 \notin Glued(s)
  BY <1>1 DEF Glued
<1> QED BY <1>2, <1>6, <1>7, <1>8 DEF u

LEMMA NewlineAppend ==
  ASSUME NEW s \in Seq(Token), s # <<>>, IsRecord(s[Len(s)])
  PROVE  /\ Stray(Append(s, Newline)) = Stray(s)
         /\ Glued(Append(s, Newline)) = Glued(s) \ {Len(s)}
<1> DEFINE u == Append(s, Newline)
           l == Len(s)
<1>1. /\ l \in Nat /\ DOMAIN s = 1 .. l /\ DOMAIN u = 1 .. l + 1 /\ Len(u) = l + 1
      /\ \A i \in 1 .. l : u[i] = s[i]
      /\ u[l + 1] = Newline /\ ~IsRecord(Newline)
  BY Appended, TokenKinds
<1>2. l # 0 /\ IsRecord(s[l]) /\ Len(s) = l
  BY EmptySeq
<1> HIDE DEF u, l
<1>3. \A i \in 1 .. l + 1 : i \in 1 .. l \/ i = l + 1
  BY <1>1
<1>4. \A i \in 1 .. l : i \in 1 .. l + 1 /\ i # l + 1
                         /\ (i = l \/ i + 1 \in 1 .. l) /\ (i = 1 \/ i - 1 \in 1 .. l)
  BY <1>1
<1>5. l \in 1 .. l /\ l + 1 # 1 /\ (l + 1) - 1 = l
  BY <1>1, <1>2
<1>6. Stray(u) = Stray(s)
  <2>1. ASSUME NEW i \in 1 .. l PROVE i \in Stray(u) <=> i \in Stray(s)
    BY <1>1, <1>4 DEF Stray
  <2>2. l + 1 \notin Stray(u)
    BY <1>1, <1>2, <1>5 DEF Stray
  <2>3. Stray(u) \subseteq 1 .. l + 1 /\ Stray(s) \subseteq 1 .. l
    BY <1>1 DEF Stray
  <2> QED BY <1>3, <2>1, <2>2, <2>3
<1>7. Glued(u) = Glued(s) \ {l}
  <2>1. ASSUME NEW i \in 1 .. l PROVE i \in Glued(u) <=> i \in Glued(s) /\ i # l
    <3>1. CASE i = l
      BY <1>1, <1>2, <1>4, <3>1 DEF Glued
    <3>2. CASE i # l
      BY <1>1, <1>2, <1>4, <3>2 DEF Glued
    <3> QED BY <3>1, <3>2
  <2>2. l + 1 \notin Glued(u)
    BY <1>1 DEF Glued
  <2>3. Glued(u) \subseteq 1 .. l + 1 /\ Glued(s) \subseteq 1 .. l
    BY <1>1 DEF Glued
  <2> QED BY <1>3, <2>1, <2>2, <2>3
<1> QED BY <1>2, <1>6, <1>7 DEF u

------------------------------------------------------------------------------
(* What the writer does to the stream *)

OutType == [buffer : Seq(Token), used : 0 .. BufCap, file : Seq(Token), busy : BOOLEAN]

LEMMA StreamType ==
  ASSUME NEW o \in OutType
  PROVE  Stream(o) \in Seq(Token) /\ o.buffer \in Seq(Token) /\ o.file \in Seq(Token)
BY ConcatProperties DEF OutType, Stream

LEMMA AppendToConcat ==
  ASSUME NEW a \in Seq(Token), NEW b \in Seq(Token), NEW t \in Token
  PROVE  a \o Append(b, t) = Append(a \o b, t)
<1>1. Append(b, t) \in Seq(Token) /\ a \o b \in Seq(Token) /\ <<t>> \in Seq(Token)
  BY AppendProperties, ConcatProperties
<1>2. Append(b, t) = b \o <<t>> /\ Append(a \o b, t) = (a \o b) \o <<t>>
  BY <1>1, AppendIsConcat
<1>3. a \o (b \o <<t>>) = (a \o b) \o <<t>>
  BY <1>1, ConcatAssociative
<1> QED BY <1>2, <1>3

LEMMA HandedOverKeeps ==
  ASSUME NEW o \in OutType
  PROVE  /\ HandedOver(o) \in OutType
         /\ Stream(HandedOver(o)) = Stream(o)
         /\ HandedOver(o).buffer = <<>>
<1>1. /\ Stream(o) \in Seq(Token)
      /\ <<>> \in Seq(Token)
  BY StreamType, EmptySeq
<1>2. HandedOver(o) =
        [buffer |-> <<>>, used |-> 0, file |-> Stream(o), busy |-> TRUE]
  BY DEF HandedOver, Stream
<1>3. HandedOver(o) \in OutType
  BY <1>1, <1>2, SizeAssumption DEF OutType
<1>4. Stream(o) \o <<>> = Stream(o)
  BY <1>1, ConcatEmptySeq
<1>5. HandedOver(o).file = Stream(o) /\ HandedOver(o).buffer = <<>>
  BY <1>2
<1>6. Stream(HandedOver(o)) = HandedOver(o).file \o HandedOver(o).buffer
  BY DEF Stream
<1> QED BY <1>3, <1>4, <1>5, <1>6

LEMMA WrittenAppends ==
  ASSUME NEW o \in OutType, NEW t \in Token, Ready(o, t)
  PROVE  Written(o, t) \in OutType /\ Stream(Written(o, t)) = Append(Stream(o), t)
<1>1. /\ o.buffer \in Seq(Token) /\ o.file \in Seq(Token) /\ Stream(o) \in Seq(Token)
      /\ o.used \in 0 .. BufCap /\ t.size \in Nat /\ BufCap \in Nat
  BY StreamType, TokenKinds, SizeAssumption DEF OutType
<1>2. CASE Large(t)
  <2>1. o.buffer = <<>> /\ Append(o.file, t) \in Seq(Token)
    BY <1>1, <1>2, AppendProperties DEF Ready
  <2>2. Written(o, t) = [o EXCEPT !.file = Append(o.file, t), !.busy = TRUE]
    BY <1>2 DEF Written
  <2>3. Written(o, t) \in OutType
    BY <2>1, <2>2 DEF OutType
  <2>4. Written(o, t).file = Append(o.file, t) /\ Written(o, t).buffer = <<>>
    BY <2>1, <2>2 DEF OutType
  <2>5. Stream(Written(o, t)) = Append(o.file, t)
    BY <2>1, <2>4, ConcatEmptySeq DEF Stream
  <2>6. Stream(o) = o.file
    BY <1>1, <2>1, ConcatEmptySeq DEF Stream
  <2> QED BY <2>3, <2>5, <2>6
<1>3. CASE ~Large(t) /\ Room(o, t)
  <2>1. Append(o.buffer, t) \in Seq(Token) /\ o.used + t.size \in 0 .. BufCap
    BY <1>1, <1>3, AppendProperties DEF Room
  <2>2. Written(o, t) = [o EXCEPT !.buffer = Append(o.buffer, t), !.used = o.used + t.size]
    BY <1>3 DEF Written
  <2>3. Written(o, t) \in OutType
    BY <2>1, <2>2 DEF OutType
  <2>4. Written(o, t).file = o.file /\ Written(o, t).buffer = Append(o.buffer, t)
    BY <2>2 DEF OutType
  <2> QED BY <1>1, <2>3, <2>4, AppendToConcat DEF Stream
<1>4. CASE ~Large(t) /\ ~Room(o, t)
  <2> DEFINE h == HandedOver(o)
  <2>1. h \in OutType /\ Stream(h) = Stream(o) /\ h.buffer = <<>> /\ h.file \in Seq(Token)
    BY HandedOverKeeps, StreamType
  <2>2. Written(o, t) = [h EXCEPT !.buffer = <<t>>, !.used = t.size]
    BY <1>4 DEF Written
  <2>3. <<t>> \in Seq(Token) /\ t.size \in 0 .. BufCap
    BY <1>1, <1>4 DEF Large
  <2> HIDE DEF h
  <2>4. Written(o, t) \in OutType
    BY <2>1, <2>2, <2>3 DEF OutType
  <2>5. Written(o, t).file = h.file /\ Written(o, t).buffer = <<t>>
    BY <2>1, <2>2 DEF OutType
  <2>6. h.file = Stream(o)
    BY <2>1, ConcatEmptySeq DEF Stream
  <2>7. Append(Stream(o), t) = Stream(o) \o <<t>>
    BY <1>1, AppendIsConcat
  <2> QED BY <2>4, <2>5, <2>6, <2>7 DEF Stream
<1> QED BY <1>2, <1>3, <1>4

\* The three ways a record can go.
Waits(r) ==
  /\ writer' = [at |-> "record", record |-> r]
  /\ Stream(out') = Stream(out)

EndsAtNewline(r) ==
  /\ writer' = [at |-> "newline", record |-> r]
  /\ Stream(out') = Append(Stream(out), r)

WholeLine(r) ==
  /\ writer' = Receiving
  /\ Stream(out') = Append(Append(Stream(out), r), Newline)

LEMMA WriteRecordAppends ==
  ASSUME NEW r \in Record, out \in OutType, WriteRecord(r)
  PROVE  /\ out' \in OutType
         /\ Waits(r) \/ EndsAtNewline(r) \/ WholeLine(r)
<1> DEFINE o == Written(out, r)
<1>1. r \in Token /\ Newline \in Token
  BY TokenKinds
<1>2. CASE /\ ~Ready(out, r)
           /\ writer' = [at |-> "record", record |-> r]
           /\ out' = IF out.busy THEN out ELSE HandedOver(out)
  BY <1>2, HandedOverKeeps DEF Waits
<1>3. CASE /\ Ready(out, r) /\ ~Ready(o, Newline)
           /\ writer' = [at |-> "newline", record |-> r]
           /\ out' = o
  BY <1>1, <1>3, WrittenAppends DEF EndsAtNewline
<1>4. CASE /\ Ready(out, r) /\ Ready(o, Newline)
           /\ writer' = Receiving
           /\ out' = Written(o, Newline)
  <2>1. o \in OutType /\ Stream(o) = Append(Stream(out), r)
    BY <1>1, <1>4, WrittenAppends
  <2> HIDE DEF o
  <2>2. Written(o, Newline) \in OutType
        /\ Stream(Written(o, Newline)) = Append(Stream(o), Newline)
    BY <1>1, <1>4, <2>1, WrittenAppends
  <2> QED BY <1>4, <2>1, <2>2 DEF WholeLine
<1> QED BY <1>2, <1>3, <1>4 DEF WriteRecord

------------------------------------------------------------------------------
(* What moves along the way of a batch keeps Flow *)

LEMMA FlowNumbers ==
  ASSUME NEW N, NEW H, NEW Q, NEW V, NEW D, NEW n, Flow(N, H, Q, V, D, n),
         NEW a \in N \union H \union Q \union V \union D
  PROVE  a \in Batch /\ a \in Nat /\ a <= n /\ ~(a < a)
<1>1. a \in Batch /\ a <= n
  BY DEF Flow
<1>2. a \in Nat
  BY <1>1, BatchesAreNumbers
<1>3. ~(a < a)
  BY <1>2
<1> QED BY <1>1, <1>2, <1>3

LEMMA FlowCollect ==
  ASSUME NEW N, NEW H, NEW Q, NEW V, NEW D, NEW n \in Nat,
         Flow(N, H, Q, V, D, n), n < MaxBatches
  PROVE  /\ Flow(N, H, Q, V, D, n + 1)
         /\ Flow(N, H, Q, V \union {n + 1}, D, n + 1)
         /\ Precedes(V, {n + 1}) /\ n + 1 \in Batch
<1>1. ASSUME NEW a \in N \union H \union Q \union V \union D
      PROVE  a \in Nat /\ a < n + 1 /\ a <= n + 1
  BY FlowNumbers
<1>2. n + 1 \in Batch
  BY SizeAssumption DEF Batch
<1>3. Precedes(V, {n + 1}) /\ Precedes(N \union H \union Q \union D, {n + 1})
  BY <1>1 DEF Precedes
<1>4. Flow(N, H, Q, V, D, n + 1)
  BY <1>1 DEF Flow
<1>5. Flow(N, H, Q, V \union {n + 1}, D, n + 1)
  <2>1. \A a \in N \union H \union Q \union (V \union {n + 1}) \union D :
          a \in Batch /\ a <= n + 1
    BY <1>1, <1>2 DEF Flow
  <2>2. /\ Precedes(N, H \union Q \union (V \union {n + 1}))
        /\ Precedes(H, Q \union (V \union {n + 1}))
        /\ Precedes(Q, V \union {n + 1})
        /\ Precedes(D, H \union Q \union (V \union {n + 1}))
    BY <1>3 DEF Flow, Precedes
  <2> QED BY <2>1, <2>2 DEF Flow
<1> QED BY <1>2, <1>3, <1>4, <1>5

LEMMA FlowLoses ==
  ASSUME NEW N, NEW H, NEW Q, NEW V, NEW D, NEW n, NEW W,
         Flow(N, H, Q, V, D, n), W \subseteq V
  PROVE  Flow(N, H, Q, W, D, n)
BY DEF Flow, Precedes

LEMMA FlowReceive ==
  ASSUME NEW N, NEW H, NEW Q, NEW V, NEW D, NEW n, NEW b, NEW W,
         Flow(N, H, Q, V, D, n), V = {b} \union W, Precedes({b}, W)
  PROVE  Flow(N, H, Q \union {b}, W, D, n) /\ Precedes(Q, {b})
BY DEF Flow, Precedes

LEMMA FlowTake ==
  ASSUME NEW N, NEW Q, NEW V, NEW D, NEW n, NEW b, NEW W,
         Flow(N, {}, Q, V, D, n), Q = {b} \union W, Precedes({b}, W)
  PROVE  Flow(N, {b}, W, V, D, n)
BY DEF Flow, Precedes

LEMMA FlowWrite ==
  ASSUME NEW N, NEW Q, NEW V, NEW D, NEW n, NEW b, Flow(N, {b}, Q, V, D, n)
  PROVE  Flow(N \union {b}, {}, Q, V, D, n) /\ Precedes(N, {b}) /\ b \notin D
<1>1. ~(b < b)
  BY FlowNumbers
<1>2. Precedes(D, {b}) /\ Precedes(N, {b})
  BY DEF Flow, Precedes
<1>3. b \notin D
  BY <1>1, <1>2 DEF Precedes
<1>4. Flow(N \union {b}, {}, Q, V, D, n)
  <2>1. /\ \A a \in (N \union {b}) \union {} \union Q \union V \union D : a \in Batch /\ a <= n
        /\ D \intersect (N \union {b}) = {}
    BY <1>3 DEF Flow
  <2>2. /\ Precedes(N \union {b}, {} \union Q \union V) /\ Precedes({}, Q \union V)
        /\ Precedes(Q, V) /\ Precedes(D, {} \union Q \union V)
    BY DEF Flow, Precedes
  <2> QED BY <2>1, <2>2 DEF Flow
<1> QED BY <1>2, <1>3, <1>4

LEMMA FlowCut ==
  ASSUME NEW N, NEW H, NEW Q, NEW V, NEW D, NEW n, Flow(N, H, Q, V, D, n)
  PROVE  Flow(N, {}, Q, V, D \union H, n)
<1>1. \A b \in H : ~(b < b)
  BY FlowNumbers
<1>2. Precedes(N, H)
  BY DEF Flow, Precedes
<1>3. H \intersect N = {}
  BY <1>1, <1>2 DEF Precedes
<1>4. /\ \A a \in N \union {} \union Q \union V \union (D \union H) : a \in Batch /\ a <= n
      /\ (D \union H) \intersect N = {}
  BY <1>3 DEF Flow
<1>5. /\ Precedes(N, {} \union Q \union V) /\ Precedes({}, Q \union V)
      /\ Precedes(Q, V) /\ Precedes(D \union H, {} \union Q \union V)
  BY DEF Flow, Precedes
<1> QED BY <1>4, <1>5 DEF Flow

------------------------------------------------------------------------------
(* Lines *)

LEMMA LineBegins ==
  ASSUME NEW s \in Seq(Token), NEW r \in Record, NEW w,
         InOrder(s), Stray(s) = {}, Precedes(Numbers(s), {r.n})
  PROVE  LET t == Append(s, r)
         IN  /\ t \in Seq(Token) /\ t # <<>> /\ IsRecord(t[Len(t)])
             /\ Lines(t, w)
             /\ Numbers(t) = Numbers(s) \union {r.n}
             /\ Glued(t) \ {Len(t)} = Glued(s)
<1> DEFINE t == Append(s, r)
<1>1. r \in Token /\ IsRecord(r)
  BY TokenKinds
<1>2. t \in Seq(Token) /\ t # <<>> /\ Len(t) = Len(s) + 1 /\ t[Len(t)] = r
  BY <1>1, Appended
<1>3. InOrder(t) /\ Numbers(t) = Numbers(s) \union {r.n}
  BY <1>1, InOrderAppend, NumbersAppend
<1>4. Stray(t) = {} /\ Glued(t) \ {Len(t)} = Glued(s)
  BY <1>2, RecordAppend
<1> HIDE DEF t
<1>5. Lines(t, w)
  BY <1>1, <1>2, <1>3, <1>4 DEF Lines
<1>6. IsRecord(t[Len(t)])
  BY <1>1, <1>2
<1> QED BY <1>2, <1>3, <1>4, <1>5, <1>6 DEF t

LEMMA LineEnds ==
  ASSUME NEW s \in Seq(Token), NEW w, s # <<>>, IsRecord(s[Len(s)]),
         InOrder(s), Stray(s) = {}, w.at # "newline"
  PROVE  LET t == Append(s, Newline)
         IN  /\ t \in Seq(Token)
             /\ Lines(t, w)
             /\ Numbers(t) = Numbers(s)
             /\ Glued(t) = Glued(s) \ {Len(s)}
<1> DEFINE t == Append(s, Newline)
<1>1. Newline \in Token /\ ~IsRecord(Newline)
  BY TokenKinds
<1>2. t \in Seq(Token)
  BY <1>1, Appended
<1>3. InOrder(t)
  BY <1>1, InOrderAppend
<1>4. Numbers(t) = Numbers(s)
  BY <1>1, NumbersAppend
<1>5. Stray(t) = {} /\ Glued(t) = Glued(s) \ {Len(s)}
  BY NewlineAppend
<1> HIDE DEF t
<1> QED BY <1>2, <1>3, <1>4, <1>5 DEF Lines, t

------------------------------------------------------------------------------
(* Types *)

LEMMA WriterInHand ==
  ASSUME TypeOK, writer.at \in {"record", "newline"}
  PROVE  writer.record \in Record
BY DEF TypeOK

LEMMA OutIsTyped == ASSUME TypeOK PROVE out \in OutType
BY DEF TypeOK, OutType

LEMMA InitTypeOK == ASSUME Init PROVE TypeOK
<1>1. <<>> \in Seq(Batch) /\ <<>> \in Seq(Token) /\ 0 \in 0 .. MaxBatches /\ 0 \in 0 .. BufCap
  BY EmptySeq, SizeAssumption
<1>2. Off \in [at : {"off", "recv"}]
  BY DEF Off
<1>3. [buffer |-> <<>>, used |-> 0, file |-> <<>>, busy |-> FALSE] \in
        [buffer : Seq(Token), used : 0 .. BufCap, file : Seq(Token), busy : BOOLEAN]
  BY <1>1
<1>4. out \in [buffer : Seq(Token), used : 0 .. BufCap, file : Seq(Token), busy : BOOLEAN]
  BY <1>3 DEF Init
<1> QED BY <1>1, <1>2, <1>4 DEF Init, TypeOK, Early

LEMMA WriterTypes ==
  ASSUME TypeOK, NEW r \in Record, WriteRecord(r)
  PROVE  /\ out' \in OutType
         /\ writer' \in [at : {"off", "recv"}] \union
                        [at : {"record", "newline"}, record : Record]
<1>1. out' \in OutType /\ (Waits(r) \/ EndsAtNewline(r) \/ WholeLine(r))
  BY OutIsTyped, WriteRecordAppends
<1> QED BY <1>1 DEF Waits, EndsAtNewline, WholeLine, Receiving

LEMMA NextTypeOK == ASSUME TypeOK, [Next]_vars PROVE TypeOK'
<1> USE DEF TypeOK
<1>1. CASE ServerRegisters
  BY <1>1 DEF ServerRegisters, rpc, history
<1>2. CASE SubscriptionDropped
  BY <1>2 DEF SubscriptionDropped, rpc, history
<1>3. CASE Collect
  <2>1. collected' \in 0 .. MaxBatches /\ collected' \in Batch
    BY <1>3, SizeAssumption DEF Collect, Batch
  <2>2. wire' \in Seq(Batch)
    BY <1>3, <2>1, AppendProperties DEF Collect
  <2> QED BY <1>3, <2>1, <2>2 DEF Collect, history
<1>4. CASE ServerStops
  <2>1. ASSUME NEW k \in 0 .. Len(wire) PROVE SubSeq(wire, 1, k) \in Seq(Batch)
    <3>1. Len(wire) \in Nat /\ \A i \in 1 .. Len(wire) : wire[i] \in Batch
      BY LenProperties
    <3>2. k \in Int /\ 1 \in Int /\ \A i \in 1 .. k : wire[i] \in Batch
      BY <3>1
    <3> QED BY <3>2, SubSeqProperties
  <2>2. wire' \in Seq(Batch)
    BY <1>4, <2>1 DEF ServerStops
  <2> QED BY <1>4, <2>2 DEF ServerStops, history
<1>5. CASE Bootstrapped
  BY <1>5 DEF Bootstrapped, Early, rpc, history
<1>6. CASE Registered
  BY <1>6 DEF Registered, Early, server, rpc, history
<1>7. CASE StartFails
  BY <1>7, EmptySeq DEF StartFails, Exit, Off, server, history
<1>8. CASE Opened
  BY <1>8 DEF Opened, Receiving, server, rpc, history
<1>9. CASE Disconnected
  BY <1>9, EmptySeq DEF Disconnected, Receiving, server, history
<1>10. CASE Flush
  <2>1. out' \in OutType
    BY <1>10, OutIsTyped, HandedOverKeeps DEF Flush
  <2> QED BY <1>10, <2>1 DEF Flush, OutType, server, rpc, history
<1>11. CASE TakeRecord
  <2>1. Head(channel) \in Batch /\ Tail(channel) \in Seq(Batch)
    BY <1>11, HeadTailProperties DEF TakeRecord
  <2>2. PICK size \in 1 .. MaxSize : WriteRecord([n |-> Head(channel), size |-> size])
    BY <1>11 DEF TakeRecord
  <2>3. [n |-> Head(channel), size |-> size] \in Record
    BY <2>1 DEF Record
  <2>4. /\ out' \in OutType
        /\ writer' \in [at : {"off", "recv"}] \union
                       [at : {"record", "newline"}, record : Record]
    BY <2>2, <2>3, WriterTypes
  <2> QED BY <1>11, <2>1, <2>4 DEF TakeRecord, OutType, server, rpc, history
<1>12. CASE ContinueRecord
  <2>1. /\ out' \in OutType
        /\ writer' \in [at : {"off", "recv"}] \union
                       [at : {"record", "newline"}, record : Record]
    BY <1>12, WriterInHand, WriterTypes DEF ContinueRecord
  <2> QED BY <1>12, <2>1 DEF ContinueRecord, OutType, server, rpc, history
<1>13. CASE ContinueNewline
  <2>1. Ready(out, Newline) /\ Newline \in Token
    BY <1>13, TokenKinds, SizeAssumption DEF ContinueNewline, Ready, Large
  <2>2. out' \in OutType
    BY <1>13, <2>1, OutIsTyped, WrittenAppends DEF ContinueNewline
  <2> QED BY <1>13, <2>2 DEF ContinueNewline, Receiving, OutType, server, rpc, history
<1>14. CASE WriterReturns
  BY <1>14 DEF WriterReturns, Off, server, rpc, history
<1>15. CASE Receive
  <2>1. Head(wire) \in Batch /\ Tail(wire) \in Seq(Batch)
    BY <1>15, HeadTailProperties DEF Receive
  <2>2. channel' \in Seq(Batch)
    BY <1>15, <2>1, AppendProperties DEF Receive
  <2> QED BY <1>15, <2>1, <2>2 DEF Receive, server
<1>16. CASE ConnectionLost
  BY <1>16, EmptySeq DEF ConnectionLost, server, history
<1>17. CASE FileWritten
  <2>1. out' \in OutType
    BY <1>17, OutIsTyped DEF FileWritten, OutType
  <2> QED BY <1>17, <2>1 DEF FileWritten, OutType, server, rpc, history
<1>18. CASE Killed
  BY <1>18, EmptySeq DEF Killed, Exit, Off, server, history
<1>19. CASE Terminated
  <2>1. cut' \subseteq Batch
    BY <1>19, WriterInHand DEF Terminated, Record
  <2> QED BY <1>19, <2>1 DEF Terminated, Off, server, rpc
<1>20. CASE UNCHANGED vars
  BY <1>20 DEF vars, server, rpc, history
<1> QED BY <1>1, <1>2, <1>3, <1>4, <1>5, <1>6, <1>7, <1>8, <1>9, <1>10, <1>11, <1>12, <1>13,
           <1>14, <1>15, <1>16, <1>17, <1>18, <1>19, <1>20
           DEF Next, MainStep, WriterStep

\* Every batch, record and token is one, and the buffer never holds more than
\* its capacity.
THEOREM TypeCorrect == Spec => []TypeOK
<1>1. Init => TypeOK
  BY InitTypeOK
<1>2. TypeOK /\ [Next]_vars => TypeOK'
  BY NextTypeOK
<1> QED BY <1>1, <1>2, PTL DEF Spec

------------------------------------------------------------------------------
(* Good is preserved *)

\* A writer that holds nothing, before and after.
LEMMA WriterStarts ==
  ASSUME NEW s, NEW w, NEW x, NEW q, NEW v, NEW g, NEW d, NEW n,
         GoodState(s, w, q, v, g, d, n),
         w.at \in {"off", "recv"}, x \in {Off, Receiving}
  PROVE  GoodState(s, x, q, v, g, d, n) /\ Settled(s, x) = Settled(s, w)
BY DEF GoodState, HeldBy, Lines, Settled, Off, Receiving

LEMMA WireShrinks ==
  ASSUME NEW s, NEW w, NEW q, NEW v, NEW g, NEW d, NEW n, NEW u,
         GoodState(s, w, q, v, g, d, n), Increasing(u), Elems(u) \subseteq Elems(v)
  PROVE  GoodState(s, w, q, u, g, d, n)
BY FlowLoses DEF GoodState

LEMMA WireEmpties ==
  ASSUME NEW s, NEW w, NEW q, NEW v, NEW g, NEW d, NEW n,
         GoodState(s, w, q, v, g, d, n)
  PROVE  GoodState(s, w, q, <<>>, g, d, n)
BY WireShrinks, EmptyIsEmpty

LEMMA CollectGood == ASSUME TypeOK, Good, Collect PROVE Good'
<1> DEFINE N == Numbers(Stream(out))
           n == collected
<1>1. /\ n \in Nat /\ n < MaxBatches /\ wire \in Seq(Batch) /\ Increasing(wire)
      /\ Flow(N, HeldBy(writer), Elems(channel), Elems(wire), cut, n)
  BY SizeAssumption DEF TypeOK, Collect, Good, GoodState
<1> HIDE DEF N, n
<1>2. /\ Flow(N, HeldBy(writer), Elems(channel), Elems(wire), cut, n + 1)
      /\ Flow(N, HeldBy(writer), Elems(channel), Elems(wire) \union {n + 1}, cut, n + 1)
      /\ Precedes(Elems(wire), {n + 1}) /\ n + 1 \in Batch
  BY <1>1, FlowCollect
<1>3. Elems(Append(wire, n + 1)) = Elems(wire) \union {n + 1} /\ Increasing(Append(wire, n + 1))
  BY <1>1, <1>2, AppendComesLast
<1>4. /\ wire' = wire \/ wire' = Append(wire, n + 1)
      /\ collected' = n + 1
      /\ UNCHANGED <<out, writer, channel, received, cut>>
  BY DEF Collect, n, history
<1>5. /\ Flow(N, HeldBy(writer), Elems(channel), Elems(wire'), cut, n + 1)
      /\ Increasing(wire')
  BY <1>1, <1>2, <1>3, <1>4
<1> QED BY <1>4, <1>5 DEF Good, GoodState, N

LEMMA ReceiveGood == ASSUME TypeOK, Good, Receive PROVE Good'
<1> DEFINE N == Numbers(Stream(out))
           b == Head(wire)
<1>1. /\ wire \in Seq(Batch) /\ wire # <<>> /\ Increasing(wire)
      /\ channel \in Seq(Batch) /\ Increasing(channel)
      /\ Flow(N, HeldBy(writer), Elems(channel), Elems(wire), cut, collected)
      /\ received = N \union HeldBy(writer) \union Elems(channel) \union cut
  BY DEF TypeOK, Receive, Good, GoodState
<1>2. /\ b \in Batch /\ Elems(wire) = {b} \union Elems(Tail(wire))
      /\ Precedes({b}, Elems(Tail(wire))) /\ Increasing(Tail(wire))
  BY <1>1, HeadComesFirst
<1>3. /\ wire' = Tail(wire) /\ channel' = Append(channel, b)
      /\ received' = received \union {b}
      /\ UNCHANGED <<out, writer, cut, collected>>
  BY DEF Receive, server
<1> HIDE DEF N, b
<1>4. /\ Flow(N, HeldBy(writer), Elems(channel) \union {b}, Elems(Tail(wire)), cut, collected)
      /\ Precedes(Elems(channel), {b})
  BY <1>1, <1>2, FlowReceive
<1>5. Elems(channel') = Elems(channel) \union {b} /\ Increasing(channel')
  BY <1>1, <1>2, <1>3, <1>4, AppendComesLast
<1>6. received' = N \union HeldBy(writer) \union Elems(channel') \union cut
  BY <1>1, <1>3, <1>5
<1>7. Lines(Stream(out), writer)
  BY DEF Good, GoodState
<1> QED BY <1>2, <1>3, <1>4, <1>5, <1>6, <1>7 DEF Good, GoodState, N

\* The writer has the record in its hands, and nothing is half written.
LEMMA WriteGood ==
  ASSUME TypeOK, NEW r \in Record, WriteRecord(r),
         UNCHANGED <<wire, received, cut, collected>>,
         Flow(Numbers(Stream(out)), {r.n}, Elems(channel'), Elems(wire), cut, collected),
         received = Numbers(Stream(out)) \union {r.n} \union Elems(channel') \union cut,
         Increasing(channel'), Increasing(wire),
         InOrder(Stream(out)), Stray(Stream(out)) = {}
  PROVE  Good' /\ HalfLines' = Glued(Stream(out))
<1> DEFINE s == Stream(out)
           t == Append(s, r)
           u == Append(t, Newline)
<1>1. s \in Seq(Token) /\ (Waits(r) \/ EndsAtNewline(r) \/ WholeLine(r))
  BY OutIsTyped, StreamType, WriteRecordAppends
<1>2. /\ Flow(Numbers(s) \union {r.n}, {}, Elems(channel'), Elems(wire), cut, collected)
      /\ Precedes(Numbers(s), {r.n})
  BY FlowWrite
<1>3. /\ t \in Seq(Token) /\ t # <<>> /\ IsRecord(t[Len(t)])
      /\ \A w : Lines(t, w)
      /\ Numbers(t) = Numbers(s) \union {r.n}
      /\ Glued(t) \ {Len(t)} = Glued(s)
  BY <1>1, <1>2, LineBegins
<1>4. InOrder(t) /\ Stray(t) = {}
  BY <1>3 DEF Lines
<1>5. /\ Lines(u, Receiving)
      /\ Numbers(u) = Numbers(s) \union {r.n}
      /\ Glued(u) = Glued(s)
  <2> HIDE DEF s, t
  <2>1. Receiving.at # "newline"
    BY DEF Receiving
  <2> QED BY <1>3, <1>4, <2>1, LineEnds
<1> HIDE DEF s, t, u
<1>6. CASE Waits(r)
  <2>1. Stream(out') = s /\ writer'.at = "record" /\ writer'.record = r
    BY <1>6 DEF Waits, s
  <2>2. Lines(s, writer') /\ HeldBy(writer') = {r.n} /\ Settled(s, writer') = Glued(s)
    BY <2>1 DEF Lines, HeldBy, Settled, s
  <2> QED BY <2>1, <2>2 DEF Good, GoodState, HalfLines, s
<1>7. CASE EndsAtNewline(r)
  <2>1. Stream(out') = t /\ writer'.at = "newline"
    BY <1>7 DEF EndsAtNewline, s, t
  <2>2. HeldBy(writer') = {} /\ Settled(t, writer') = Glued(s)
    BY <1>3, <2>1 DEF HeldBy, Settled
  <2>3. received = Numbers(t) \union {} \union Elems(channel') \union cut
    BY <1>3 DEF s
  <2> QED BY <1>2, <1>3, <2>1, <2>2, <2>3 DEF Good, GoodState, HalfLines, s
<1>8. CASE WholeLine(r)
  <2>1. Stream(out') = u /\ writer' = Receiving
    BY <1>8 DEF WholeLine, s, t, u
  <2>2. HeldBy(writer') = {} /\ Settled(u, writer') = Glued(s)
    BY <1>5, <2>1 DEF HeldBy, Settled, Receiving
  <2>3. received = Numbers(u) \union {} \union Elems(channel') \union cut
    BY <1>5 DEF s
  <2> QED BY <1>2, <1>5, <2>1, <2>2, <2>3 DEF Good, GoodState, HalfLines, s
<1> QED BY <1>1, <1>6, <1>7, <1>8

LEMMA TakeGood == ASSUME TypeOK, Good, TakeRecord PROVE Good' /\ HalfLines' = HalfLines
<1> DEFINE N == Numbers(Stream(out))
           b == Head(channel)
<1>1. PICK size \in 1 .. MaxSize : WriteRecord([n |-> b, size |-> size])
  BY DEF TakeRecord
<1> DEFINE r == [n |-> b, size |-> size]
<1>2. /\ channel \in Seq(Batch) /\ channel # <<>> /\ channel' = Tail(channel)
      /\ writer.at = "recv" /\ UNCHANGED <<wire, received, cut, collected>>
  BY DEF TypeOK, TakeRecord, server, rpc, history
<1>3. HeldBy(writer) = {} /\ HalfLines = Glued(Stream(out))
  BY <1>2 DEF HeldBy, HalfLines, Settled
<1>4. /\ Flow(N, {}, Elems(channel), Elems(wire), cut, collected)
      /\ received = N \union Elems(channel) \union cut
      /\ Increasing(channel) /\ Increasing(wire)
      /\ InOrder(Stream(out)) /\ Stray(Stream(out)) = {}
  BY <1>3 DEF Good, GoodState, Lines
<1>5. /\ b \in Batch /\ Elems(channel) = {b} \union Elems(channel')
      /\ Precedes({b}, Elems(channel')) /\ Increasing(channel')
  BY <1>2, <1>4, HeadComesFirst
<1>6. r \in Record /\ r.n = b
  BY <1>5 DEF Record
<1>7. WriteRecord(r)
  BY <1>1
<1> HIDE DEF N, b, r
<1>8. Flow(N, {b}, Elems(channel'), Elems(wire), cut, collected)
  BY <1>4, <1>5, FlowTake
<1>9. received = N \union {r.n} \union Elems(channel') \union cut
  BY <1>4, <1>5, <1>6
<1>10. Good' /\ HalfLines' = Glued(Stream(out))
  BY <1>2, <1>4, <1>5, <1>6, <1>7, <1>8, <1>9, WriteGood DEF N
<1> QED BY <1>3, <1>10

LEMMA ContinueGood == ASSUME TypeOK, Good, ContinueRecord PROVE Good' /\ HalfLines' = HalfLines
<1> DEFINE r == writer.record
<1>1. /\ writer.at = "record" /\ WriteRecord(r)
      /\ UNCHANGED <<channel, wire, received, cut, collected>>
  BY DEF ContinueRecord, server, rpc, history
<1>2. r \in Record
  BY <1>1, WriterInHand
<1>3. HeldBy(writer) = {r.n} /\ HalfLines = Glued(Stream(out))
  BY <1>1 DEF HeldBy, HalfLines, Settled
<1> HIDE DEF r
<1>4. /\ Flow(Numbers(Stream(out)), {r.n}, Elems(channel'), Elems(wire), cut, collected)
      /\ received = Numbers(Stream(out)) \union {r.n} \union Elems(channel') \union cut
      /\ Increasing(channel') /\ Increasing(wire)
      /\ InOrder(Stream(out)) /\ Stray(Stream(out)) = {}
  BY <1>1, <1>3 DEF Good, GoodState, Lines
<1>5. Good' /\ HalfLines' = Glued(Stream(out))
  BY <1>1, <1>2, <1>4, WriteGood
<1> QED BY <1>3, <1>5

LEMMA NewlineGood == ASSUME TypeOK, Good, ContinueNewline PROVE Good' /\ HalfLines' = HalfLines
<1> DEFINE s == Stream(out)
           t == Append(s, Newline)
<1>1. /\ writer.at = "newline" /\ writer' = Receiving /\ out' = Written(out, Newline)
      /\ UNCHANGED <<channel, wire, received, cut, collected>>
  BY DEF ContinueNewline, server, rpc, history
<1>2. Ready(out, Newline) /\ Newline \in Token
  BY TokenKinds, SizeAssumption DEF ContinueNewline, Ready, Large
<1>3. s \in Seq(Token) /\ Stream(out') = t
  BY <1>1, <1>2, OutIsTyped, StreamType, WrittenAppends
<1>4. s # <<>> /\ IsRecord(s[Len(s)]) /\ InOrder(s) /\ Stray(s) = {}
  BY <1>1 DEF Good, GoodState, Lines
<1>5. Receiving.at = "recv"
  BY DEF Receiving
<1> HIDE DEF s
<1>6. Lines(t, Receiving) /\ Numbers(t) = Numbers(s) /\ Glued(t) = Glued(s) \ {Len(s)}
  BY <1>3, <1>4, <1>5, LineEnds
<1> HIDE DEF t
<1>7. HeldBy(writer) = {} /\ HeldBy(writer') = {}
  BY <1>1, <1>5 DEF HeldBy
<1>8. HalfLines = Glued(s) \ {Len(s)} /\ HalfLines' = Glued(t)
  BY <1>1, <1>3, <1>5 DEF HalfLines, Settled, s
<1>9. Good'
  BY <1>1, <1>3, <1>6, <1>7 DEF Good, GoodState, s
<1> QED BY <1>6, <1>8, <1>9

LEMMA TerminatedGood ==
  ASSUME TypeOK, Good, Terminated, HalfLines = {}, cut = {}
  PROVE  /\ Good'
         /\ AtMostOne(cut') /\ AtMostOne(HalfLines')
         /\ cut' = {} \/ HalfLines' = {}
<1>1. /\ cut' = cut \union HeldBy(writer) /\ writer' = Off
      /\ UNCHANGED <<out, channel, wire, received, collected>>
  BY DEF Terminated, HeldBy, server, rpc
<1>2. HeldBy(writer') = {} /\ writer'.at # "newline"
  BY <1>1 DEF HeldBy, Off
<1>3. Good'
  <2>1. Flow(Numbers(Stream(out)), {}, Elems(channel), Elems(wire), cut', collected)
    BY <1>1, FlowCut DEF Good, GoodState
  <2>2. Lines(Stream(out), writer')
    BY <1>2 DEF Good, GoodState, Lines
  <2> QED BY <1>1, <1>2, <2>1, <2>2 DEF Good, GoodState
<1>4. HalfLines' = Glued(Stream(out))
  BY <1>1, <1>2 DEF HalfLines, Settled
<1>5. CASE writer.at = "newline"
  <2>1. cut' = {}
    BY <1>1, <1>5 DEF HeldBy
  <2>2. Glued(Stream(out)) \subseteq {Len(Stream(out))}
    BY <1>5 DEF HalfLines, Settled
  <2> QED BY <1>3, <1>4, <2>1, <2>2 DEF AtMostOne
<1>6. CASE writer.at # "newline"
  <2>1. HalfLines' = {}
    BY <1>4, <1>6 DEF HalfLines, Settled
  <2>2. AtMostOne(cut')
    BY <1>1 DEF HeldBy, AtMostOne
  <2> QED BY <1>3, <2>1, <2>2 DEF AtMostOne
<1> QED BY <1>5, <1>6

\* The file is handed the buffer, or gets on.
LEMMA FileGood ==
  ASSUME Good, Stream(out') = Stream(out),
         UNCHANGED <<writer, channel, wire, received, cut, collected>>
  PROVE  Good' /\ HalfLines' = HalfLines
BY DEF Good, HalfLines

LEMMA StreamIsKept ==
  ASSUME TypeOK, FileWritten \/ Flush
  PROVE  Stream(out') = Stream(out)
<1>1. CASE FileWritten
  BY <1>1 DEF FileWritten, Stream, TypeOK
<1>2. CASE Flush
  BY <1>2, OutIsTyped, HandedOverKeeps DEF Flush
<1> QED BY <1>1, <1>2

\* Only the signal damages a line.
LEMMA GoodNext ==
  ASSUME TypeOK, Good, Phase, Next, ~Terminated
  PROVE  Good' /\ HalfLines' = HalfLines /\ cut' = cut
<1>1. CASE ServerRegisters \/ SubscriptionDropped \/ Bootstrapped \/ Registered
  <2>1. UNCHANGED <<out, writer, channel, wire, received, cut, collected>>
    BY <1>1 DEF ServerRegisters, SubscriptionDropped, Bootstrapped, Registered,
                server, rpc, history
  <2> QED BY <2>1, FileGood
<1>2. CASE Collect
  <2>1. Good'
    BY <1>2, CollectGood
  <2> QED BY <1>2, <2>1 DEF Collect, HalfLines, history
<1>3. CASE Receive
  <2>1. Good'
    BY <1>3, ReceiveGood
  <2> QED BY <1>3, <2>1 DEF Receive, HalfLines
<1>4. CASE ServerStops
  <2>1. PICK k \in 0 .. Len(wire) : wire' = SubSeq(wire, 1, k)
    BY <1>4 DEF ServerStops
  <2>2. UNCHANGED <<out, writer, channel, received, cut, collected>>
    BY <1>4 DEF ServerStops, history
  <2>3. Increasing(wire') /\ Elems(wire') \subseteq Elems(wire)
    BY <2>1, PrefixKeeps DEF TypeOK, Good, GoodState
  <2> QED BY <2>2, <2>3, WireShrinks DEF Good, HalfLines
<1>5. CASE ConnectionLost
  <2>1. wire' = <<>> /\ UNCHANGED <<out, writer, channel, received, cut, collected>>
    BY <1>5 DEF ConnectionLost, server, history
  <2> QED BY <2>1, WireEmpties DEF Good, HalfLines
<1>6. CASE StartFails \/ Killed \/ Opened \/ Disconnected \/ WriterReturns
  <2>1. /\ writer' \in {Off, Receiving}
        /\ wire' \in {wire, <<>>}
        /\ UNCHANGED <<out, channel, received, cut, collected>>
    BY <1>6 DEF StartFails, Killed, Opened, Disconnected, WriterReturns, Exit,
                server, rpc, history
  <2>2. writer.at \in {"off", "recv"}
    <3>1. main \in Early \union {"disconnecting"} \/ writer.at = "recv"
      BY <1>6 DEF StartFails, Killed, Opened, Disconnected, WriterReturns, Early
    <3> QED BY <3>1 DEF Phase, Early
  <2>3. /\ GoodState(Stream(out), writer', channel, wire, received, cut, collected)
        /\ Settled(Stream(out), writer') = Settled(Stream(out), writer)
    BY <2>1, <2>2, WriterStarts DEF Good
  <2>4. GoodState(Stream(out), writer', channel, wire', received, cut, collected)
    BY <2>1, <2>3, WireEmpties
  <2> QED BY <2>1, <2>3, <2>4 DEF Good, HalfLines
<1>7. CASE TakeRecord
  BY <1>7, TakeGood DEF TakeRecord, history
<1>8. CASE ContinueRecord
  BY <1>8, ContinueGood DEF ContinueRecord, history
<1>9. CASE ContinueNewline
  BY <1>9, NewlineGood DEF ContinueNewline, history
<1>10. CASE FileWritten \/ Flush
  <2>1. UNCHANGED <<writer, channel, wire, received, cut, collected>>
    BY <1>10 DEF FileWritten, Flush, server, rpc, history
  <2> QED BY <1>10, <2>1, StreamIsKept, FileGood
<1> QED BY <1>1, <1>2, <1>3, <1>4, <1>5, <1>6, <1>7, <1>8, <1>9, <1>10
        DEF Next, MainStep, WriterStep

------------------------------------------------------------------------------
(* The invariant and the theorems *)

LEMMA PhaseNext == ASSUME TypeOK, Phase, [Next]_vars PROVE Phase'
<1> USE DEF Phase
<1>1. CASE ServerRegisters \/ SubscriptionDropped \/ Collect \/ ServerStops
  BY <1>1 DEF ServerRegisters, SubscriptionDropped, Collect, ServerStops, rpc, history
<1>2. CASE Bootstrapped \/ Registered \/ Opened
  BY <1>2 DEF Bootstrapped, Registered, Opened, Early, server, rpc, history
<1>3. CASE StartFails \/ Killed
  <2>1. /\ main' = "exited" /\ connected' = FALSE /\ poller' = FALSE
        /\ writer' = Off
    BY <1>3 DEF StartFails, Killed, Exit
  <2>2. Off.at = "off"
    BY DEF Off
  <2>3. poller' = connected'
    BY <2>1
  <2> QED BY <2>1, <2>2, <2>3
<1>4. CASE Disconnected
  BY <1>4 DEF Disconnected, Receiving, server, history
<1>5. CASE Flush
  BY <1>5 DEF Flush, server, rpc, history
<1>6. CASE TakeRecord \/ ContinueRecord \/ ContinueNewline
  <2>1. writer.at # "off" /\ UNCHANGED <<poller, connected, main>>
    BY <1>6 DEF TakeRecord, ContinueRecord, ContinueNewline, rpc
  <2>2. main \in {"select", "draining"}
    BY <2>1
  <2> QED BY <2>1, <2>2
<1>7. CASE WriterReturns
  BY <1>7 DEF WriterReturns, Off, server, rpc, history
<1>8. CASE Receive
  BY <1>8 DEF Receive, server
<1>9. CASE ConnectionLost
  BY <1>9 DEF ConnectionLost, server, history
<1>10. CASE FileWritten
  BY <1>10 DEF FileWritten, TypeOK, server, rpc, history
<1>11. CASE Terminated
  BY <1>11 DEF Terminated, Off, server, rpc
<1>12. CASE UNCHANGED vars
  BY <1>12 DEF vars, server, rpc, history
<1> QED BY <1>1, <1>2, <1>3, <1>4, <1>5, <1>6, <1>7, <1>8, <1>9, <1>10, <1>11, <1>12
        DEF Next, MainStep, WriterStep

\* Nothing but Terminated leaves the select with a line half done.
LEMMA MainStays ==
  ASSUME Phase, Next, ~Terminated, main' \in Early \union {"select"}
  PROVE  main \in Early \union {"select"}
<1>1. CASE ServerRegisters \/ SubscriptionDropped \/ Collect \/ ServerStops \/ TakeRecord
           \/ ContinueRecord \/ ContinueNewline \/ Receive \/ ConnectionLost \/ FileWritten
  BY <1>1 DEF ServerRegisters, SubscriptionDropped, Collect, ServerStops, TakeRecord,
              ContinueRecord, ContinueNewline, Receive, ConnectionLost, FileWritten, rpc
<1>2. CASE Bootstrapped \/ Registered \/ Opened
  BY <1>2 DEF Bootstrapped, Registered, Opened, Early
<1>3. CASE StartFails \/ Killed \/ Disconnected \/ Flush \/ WriterReturns
  BY <1>3 DEF StartFails, Killed, Disconnected, Flush, WriterReturns, Exit, Early
<1> QED BY <1>1, <1>2, <1>3 DEF Next, MainStep, WriterStep

LEMMA DamageNext ==
  ASSUME TypeOK, Good, Phase, Damage, Next
  PROVE  Good' /\ Damage'
<1>1. CASE Terminated
  <2>1. HalfLines = {} /\ cut = {}
    BY <1>1 DEF Terminated, Damage, DamageState
  <2>2. /\ Good'
        /\ AtMostOne(cut') /\ AtMostOne(HalfLines')
        /\ cut' = {} \/ HalfLines' = {}
    BY <1>1, <2>1, TerminatedGood
  <2>3. signalled' /\ main' \notin Early \union {"select"}
    BY <1>1 DEF Terminated, Early
  <2> QED BY <2>2, <2>3 DEF Damage, DamageState
<1>2. CASE ~Terminated
  <2>1. Good' /\ HalfLines' = HalfLines /\ cut' = cut
    BY <1>2, GoodNext
  <2>2. main' \in Early \union {"select"} => main \in Early \union {"select"}
    BY <1>2, MainStays
  <2>3. signalled => signalled'
    <3>1. CASE \/ ServerRegisters \/ SubscriptionDropped \/ Collect \/ ServerStops
               \/ Receive \/ ConnectionLost \/ FileWritten \/ Killed
      BY <3>1 DEF ServerRegisters, SubscriptionDropped, Collect, ServerStops, Receive,
                  ConnectionLost, FileWritten, Killed
    <3>2. CASE MainStep
      BY <3>2 DEF MainStep, Bootstrapped, Registered, StartFails, Opened, Disconnected, Flush
    <3>3. CASE WriterStep
      BY <3>3 DEF WriterStep, TakeRecord, ContinueRecord, ContinueNewline, WriterReturns
    <3> QED BY <1>2, <3>1, <3>2, <3>3 DEF Next
  <2> QED BY <2>1, <2>2, <2>3 DEF Damage, DamageState
<1> QED BY <1>1, <1>2

LEMMA InitIInv == ASSUME Init PROVE IInv
<1>1. TypeOK
  BY InitTypeOK
<1>2. /\ Stream(out) = <<>> /\ writer = Off /\ channel = <<>> /\ wire = <<>>
      /\ received = {} /\ cut = {}
  BY EmptySeq, ConcatEmptySeq DEF Init, Stream
<1>3. DOMAIN <<>> = {}
  BY EmptySeq, LenProperties
<1>4. Numbers(<<>>) = {} /\ Glued(<<>>) = {} /\ InOrder(<<>>) /\ Stray(<<>>) = {}
  BY <1>3 DEF Numbers, Glued, InOrder, Stray
<1>5. HeldBy(Off) = {} /\ Lines(<<>>, Off)
  BY <1>4 DEF HeldBy, Lines, Off
<1>6. Flow({}, {}, {}, {}, {}, collected)
  BY DEF Flow, Precedes
<1>7. Good
  BY <1>2, <1>4, <1>5, <1>6, EmptyIsEmpty DEF Good, GoodState
<1>8. HalfLines = {}
  BY <1>2, <1>4 DEF HalfLines, Settled
<1>9. Damage
  BY <1>2, <1>8 DEF Damage, DamageState, AtMostOne
<1>10. Phase
  BY DEF Init, Phase, Off
<1> QED BY <1>1, <1>7, <1>9, <1>10 DEF IInv

LEMMA NextIInv == ASSUME IInv, [Next]_vars PROVE IInv'
<1>1. TypeOK' /\ Phase'
  BY NextTypeOK, PhaseNext DEF IInv
<1>2. CASE Next
  BY <1>1, <1>2, DamageNext DEF IInv
<1>3. CASE UNCHANGED vars
  BY <1>1, <1>3 DEF IInv, Good, Damage, HalfLines, vars, server, rpc, history
<1> QED BY <1>2, <1>3

LEMMA Invariance == Spec => []IInv
<1>1. Init => IInv
  BY InitIInv
<1>2. IInv /\ [Next]_vars => IInv'
  BY NextIInv
<1> QED BY <1>1, <1>2, PTL DEF Spec

\* At the end nothing is under way and the stream is the file.
LEMMA FileAtEnd ==
  ASSUME IInv, main = "done"
  PROVE  /\ Stream(out) = out.file
         /\ HeldBy(writer) = {} /\ Elems(channel) = {}
         /\ HalfLines = Glued(out.file)
<1>1. out.buffer = <<>> /\ channel = <<>> /\ writer.at = "off"
  BY DEF IInv, Phase
<1>2. Stream(out) = out.file
  BY <1>1, ConcatEmptySeq DEF IInv, TypeOK, Stream
<1> QED BY <1>1, <1>2, EmptyIsEmpty DEF HeldBy, HalfLines, Settled

\* The exporter's file holds what entered the channel, in order and once,
\* however sizes, waits and the end of the connection interleave; at most one
\* record is missing, and only after a signal.
THEOREM ReceivedIsWrittenAlways == Spec => []ReceivedIsWritten
<1>1. IInv => ReceivedIsWritten
  <2> SUFFICES ASSUME IInv, main = "done"
               PROVE  /\ Numbers(out.file) = received \ cut
                      /\ InOrder(out.file)
                      /\ \A m, n \in cut : m = n
                      /\ cut # {} => signalled
    BY DEF ReceivedIsWritten
  <2>1. /\ Stream(out) = out.file
        /\ HeldBy(writer) = {} /\ Elems(channel) = {}
    BY FileAtEnd
  <2>2. /\ received = Numbers(out.file) \union cut
        /\ cut \intersect Numbers(out.file) = {}
        /\ InOrder(out.file)
    BY <2>1 DEF IInv, Good, GoodState, Flow, Lines
  <2>3. AtMostOne(cut) /\ (cut # {} => signalled)
    BY DEF IInv, Damage, DamageState
  <2> QED BY <2>2, <2>3 DEF AtMostOne
<1> QED BY <1>1, Invariance, PTL

\* Every line of the file is a record and its newline, but for one that a
\* signal cut between the two, and then no record was lost as well.
THEOREM LinesEndAlways == Spec => []LinesEnd
<1>1. IInv => LinesEnd
  <2> SUFFICES ASSUME IInv, main = "done"
               PROVE  /\ Stray(out.file) = {}
                      /\ \A i, j \in Glued(out.file) : i = j
                      /\ Glued(out.file) # {} => signalled /\ cut = {}
    BY DEF LinesEnd
  <2>1. Stream(out) = out.file /\ HalfLines = Glued(out.file)
    BY FileAtEnd
  <2>2. Stray(out.file) = {}
    BY <2>1 DEF IInv, Good, GoodState, Lines
  <2>3. /\ AtMostOne(HalfLines)
        /\ HalfLines # {} => signalled /\ cut = {}
    BY DEF IInv, Damage, DamageState
  <2> QED BY <2>1, <2>2, <2>3 DEF AtMostOne
<1> QED BY <1>1, Invariance, PTL

==============================================================================
