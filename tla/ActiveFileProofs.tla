---------------------------- MODULE ActiveFileProofs ----------------------------
(* Proofs about ActiveFile, for any entries, any capacity of the buffer and  *)
(* any split of a flush or of a write into system calls, as long as no write *)
(* that bypasses the buffer fails in the middle (the run ShortWrite.cfg      *)
(* shows what happens then).  File and buffer are read as one stream, which  *)
(* a flush leaves as it is and a write extends.  The scan is the solution of *)
(* its own equation; what it finds follows from how the stream is laid out,  *)
(* for entries that the format can hold (EntriesFit).                        *)
EXTENDS ActiveFile, SequenceTheorems, NaturalsInduction, FiniteSetTheorems, TLAPS

-----------------------------------------------------------------------------
(* Sequences of any elements.                                                *)

IsSeq(s) == s \in Seq(ToSet(s))

\* Every sequence is one over its own elements.
LEMMA SeqIsSeq ==
    ASSUME NEW S, NEW s \in Seq(S)
    PROVE  IsSeq(s)
<1>1. s \in [1..Len(s) -> S] /\ DOMAIN s = 1..Len(s) /\ Len(s) \in Nat
  BY LenProperties
<1>2. s \in [1..Len(s) -> ToSet(s)]
  BY <1>1 DEF ToSet
<1> QED
  BY <1>1, <1>2 DEF IsSeq

\* The length and the elements of a sequence.
LEMMA IsSeqLen ==
    ASSUME NEW s, IsSeq(s)
    PROVE  /\ Len(s) \in Nat /\ DOMAIN s = 1..Len(s)
           /\ \A i \in 1..Len(s) : s[i] \in ToSet(s)
           /\ s = <<>> <=> Len(s) = 0
BY LenProperties, EmptySeq DEF IsSeq

\* Two sequences, one after the other.
LEMMA ConcatIsSeq ==
    ASSUME NEW s, NEW t, IsSeq(s), IsSeq(t)
    PROVE  /\ IsSeq(s \o t)
           /\ Len(s \o t) = Len(s) + Len(t)
           /\ \A i \in 1..Len(s) + Len(t) : (s \o t)[i] = IF i <= Len(s) THEN s[i] ELSE t[i - Len(s)]
<1> DEFINE S == ToSet(s) \cup ToSet(t)
<1>1. s \in Seq(S) /\ t \in Seq(S)
  BY SeqMonotonic DEF IsSeq
<1> HIDE DEF S
<1>2. s \o t \in Seq(S)
  BY <1>1, ConcatProperties
<1>3. IsSeq(s \o t)
  BY <1>2, SeqIsSeq
<1> QED
  BY <1>1, <1>3, ConcatProperties

\* A part of a sequence.
LEMMA SubSeqIsSeq ==
    ASSUME NEW s, IsSeq(s), NEW m \in 1..Len(s) + 1, NEW n \in m - 1..Len(s)
    PROVE  /\ IsSeq(SubSeq(s, m, n))
           /\ Len(SubSeq(s, m, n)) = n - m + 1
           /\ \A i \in 1..n - m + 1 : SubSeq(s, m, n)[i] = s[m + i - 1]
<1>1. Len(s) \in Nat /\ \A i \in 1..Len(s) : s[i] \in ToSet(s)
  BY IsSeqLen
<1>2. m \in Int /\ n \in Int /\ \A i \in m..n : s[i] \in ToSet(s)
  BY <1>1
<1>3. /\ SubSeq(s, m, n) \in Seq(ToSet(s))
      /\ Len(SubSeq(s, m, n)) = IF m <= n THEN n - m + 1 ELSE 0
      /\ \A i \in 1..n - m + 1 : SubSeq(s, m, n)[i] = s[m + i - 1]
  BY <1>2, SubSeqProperties
<1>4. IsSeq(SubSeq(s, m, n))
  BY <1>3, SeqIsSeq
<1> QED
  BY <1>1, <1>3, <1>4

\* A part with the cells of v is v.
LEMMA SubSeqIs ==
    ASSUME NEW s, NEW v, IsSeq(s), IsSeq(v), NEW p \in Nat, p + Len(v) <= Len(s),
           \A j \in 1..Len(v) : s[p + j] = v[j]
    PROVE  SubSeq(s, p + 1, p + Len(v)) = v
<1>1. Len(s) \in Nat /\ Len(v) \in Nat
  BY IsSeqLen
<1>2. p + 1 \in 1..Len(s) + 1 /\ p + Len(v) \in (p + 1) - 1..Len(s)
  BY <1>1
<1> DEFINE u == SubSeq(s, p + 1, p + Len(v))
<1>3. /\ IsSeq(u) /\ Len(u) = (p + Len(v)) - (p + 1) + 1
      /\ \A i \in 1..(p + Len(v)) - (p + 1) + 1 : u[i] = s[(p + 1) + i - 1]
  BY <1>2, SubSeqIsSeq
<1>4. Len(u) = Len(v) /\ \A i \in 1..Len(v) : u[i] = v[i]
  BY <1>1, <1>3
<1> HIDE DEF u
<1> DEFINE S == ToSet(u) \cup ToSet(v)
<1>5. u \in Seq(S) /\ v \in Seq(S)
  BY <1>3, SeqMonotonic DEF IsSeq
<1> HIDE DEF S
<1>6. u = v
  BY <1>4, <1>5, SeqEqual
<1> QED
  BY <1>6 DEF u

\* One cell is a sequence.
LEMMA OneIsSeq ==
    ASSUME NEW x
    PROVE  IsSeq(<<x>>) /\ Len(<<x>>) = 1
<1>1. <<x>> \in Seq({x}) /\ Len(<<x>>) = 1
  OBVIOUS
<1> QED
  BY <1>1, SeqIsSeq

\* Two cells are a sequence.
LEMMA ThreeIsSeq ==
    ASSUME NEW x, NEW y, NEW z
    PROVE  /\ IsSeq(<<x, y, z>>) /\ Len(<<x, y, z>>) = 3
           /\ <<x, y, z>>[1] = x /\ <<x, y, z>>[2] = y /\ <<x, y, z>>[3] = z
<1>1. <<x, y, z>> \in Seq({x, y, z}) /\ Len(<<x, y, z>>) = 3
  OBVIOUS
<1> QED
  BY <1>1, SeqIsSeq

-----------------------------------------------------------------------------
(* An encoded entry ends with its value.                                     *)

EndsWith(cells, v) ==
    /\ Len(v) < Len(cells)
    /\ \A j \in 1..Len(v) : cells[Len(cells) - Len(v) + j] = v[j]

\* A sequence stays the end of whatever is put before it.
LEMMA ConcatEndsWith ==
    ASSUME NEW c, NEW s, NEW v, IsSeq(c), IsSeq(s), IsSeq(v), Len(c) = 1
    PROVE  IsSeq(c \o (s \o v)) /\ EndsWith(c \o (s \o v), v)
<1> DEFINE t   == s \o v
           all == c \o t
<1>1. Len(s) \in Nat /\ Len(v) \in Nat
  BY IsSeqLen
<1>2. /\ IsSeq(t) /\ Len(t) = Len(s) + Len(v)
      /\ \A i \in 1..Len(s) + Len(v) : t[i] = IF i <= Len(s) THEN s[i] ELSE v[i - Len(s)]
  BY ConcatIsSeq
<1> HIDE DEF t
<1>3. /\ IsSeq(all) /\ Len(all) = Len(c) + Len(t)
      /\ \A i \in 1..Len(c) + Len(t) : all[i] = IF i <= Len(c) THEN c[i] ELSE t[i - Len(c)]
  BY <1>2, ConcatIsSeq
<1> HIDE DEF all
<1>4. Len(all) = 1 + Len(s) + Len(v)
  BY <1>1, <1>2, <1>3
<1>5. ASSUME NEW j \in 1..Len(v)
      PROVE  all[Len(all) - Len(v) + j] = v[j]
  <2>1. Len(all) - Len(v) + j = 1 + Len(s) + j
    BY <1>1, <1>4
  <2>2. all[1 + Len(s) + j] = t[Len(s) + j]
    <3>1. /\ 1 + Len(s) + j \in 1..Len(c) + Len(t) /\ ~(1 + Len(s) + j <= Len(c))
          /\ (1 + Len(s) + j) - Len(c) = Len(s) + j
      BY <1>1, <1>2
    <3> QED
      BY <1>3, <3>1
  <2>3. t[Len(s) + j] = v[j]
    BY <1>1, <1>2
  <2> QED
    BY <2>1, <2>2, <2>3
<1>6. Len(v) < Len(all)
  BY <1>1, <1>4
<1> QED
  BY <1>3, <1>5, <1>6 DEF EndsWith, t, all

\* The encoding of an entry ends with its value (format/entry.rs).
LEMMA EncodeEndsWithValue ==
    ASSUME NEW e \in Entries
    PROVE  /\ IsSeq(EncodeEntry(e)) /\ IsSeq(e.value)
           /\ EndsWith(EncodeEntry(e), e.value)
<1> DEFINE words == <<Number(e.tstamp), Number(EncodeKeySize(Len(e.key), e.tomb)),
                      Number(Len(e.value) % Base)>>
           head  == words \o e.key
           crc   == <<Crc(head \o e.value)>>
<1>1. IsSeq(e.key) /\ IsSeq(e.value)
  BY ActiveFileAssumption DEF IsSeq
<1>2. IsSeq(words) /\ IsSeq(crc) /\ Len(crc) = 1
  BY OneIsSeq, ThreeIsSeq
<1>3. EncodeEntry(e) = crc \o (head \o e.value)
  BY DEF EncodeEntry
<1> HIDE DEF words, crc
<1>4. IsSeq(head)
  BY <1>1, <1>2, ConcatIsSeq
<1> HIDE DEF head
<1> QED
  BY <1>1, <1>2, <1>3, <1>4, ConcatEndsWith

-----------------------------------------------------------------------------
(* File and buffer as one stream.                                            *)

Total(f, b)     == Len(f) + Len(b)
CellAt(f, b, i) == IF i <= Len(f) THEN f[i] ELSE b[i - Len(f)]

\* The stream has v after its first p cells.
Holds(f, b, p, v) ==
    /\ p + Len(v) <= Total(f, b)
    /\ \A j \in 1..Len(v) : CellAt(f, b, p + j) = v[j]

\* What was in the stream is still there.
Extends(f, b, ff, bb) ==
    /\ Total(f, b) <= Total(ff, bb)
    /\ \A i \in 1..Total(f, b) : CellAt(ff, bb, i) = CellAt(f, b, i)

\* Then every value in it is.
LEMMA HoldsStays ==
    ASSUME NEW f, NEW b, NEW ff, NEW bb, IsSeq(f), IsSeq(b), IsSeq(ff), IsSeq(bb),
           Extends(f, b, ff, bb), NEW p \in Nat, NEW v, IsSeq(v), Holds(f, b, p, v)
    PROVE  Holds(ff, bb, p, v)
<1>1. Total(f, b) \in Nat /\ Total(ff, bb) \in Nat /\ Len(v) \in Nat
  BY IsSeqLen DEF Total
<1>2. \A j \in 1..Len(v) : p + j \in 1..Total(f, b)
  BY <1>1 DEF Holds
<1> QED
  BY <1>1, <1>2 DEF Holds, Extends

\* One system call of flush_buf, and a write, to the buffer or past an empty one.
Moves(f, b, n, ff, bb)  == ff = f \o SubSeq(b, 1, n) /\ bb = SubSeq(b, n + 1, Len(b))
Writes(f, b, c, ff, bb) == \/ ff = f /\ bb = b \o c
                           \/ b = <<>> /\ bb = b /\ ff = f \o c

\* A flush leaves the stream as it is.
LEMMA FlushLeavesStream ==
    ASSUME NEW f, NEW b, IsSeq(f), IsSeq(b), NEW n \in 1..Len(b),
           NEW ff, NEW bb, Moves(f, b, n, ff, bb)
    PROVE  /\ IsSeq(ff) /\ IsSeq(bb) /\ Len(ff) = Len(f) + n /\ Len(bb) = Len(b) - n
           /\ Total(ff, bb) = Total(f, b) /\ Extends(f, b, ff, bb)
<1> DEFINE h == SubSeq(b, 1, n)
<1>1. Len(f) \in Nat /\ Len(b) \in Nat
  BY IsSeqLen
<1>2. /\ IsSeq(h) /\ Len(h) = n /\ \A i \in 1..n : h[i] = b[i]
  <2>1. 1 \in 1..Len(b) + 1 /\ n \in 1 - 1..Len(b)
    BY <1>1
  <2>2. /\ IsSeq(h) /\ Len(h) = n - 1 + 1 /\ \A i \in 1..n - 1 + 1 : h[i] = b[1 + i - 1]
    BY <2>1, SubSeqIsSeq
  <2> HIDE DEF h
  <2> QED
    BY <1>1, <2>2
<1>3. /\ IsSeq(bb) /\ Len(bb) = Len(b) - n /\ \A i \in 1..Len(b) - n : bb[i] = b[n + i]
  <2>1. n + 1 \in 1..Len(b) + 1 /\ Len(b) \in (n + 1) - 1..Len(b)
    BY <1>1
  <2>2. /\ IsSeq(bb) /\ Len(bb) = Len(b) - (n + 1) + 1
        /\ \A i \in 1..Len(b) - (n + 1) + 1 : bb[i] = b[(n + 1) + i - 1]
    BY <2>1, SubSeqIsSeq DEF Moves
  <2> QED
    BY <1>1, <2>2
<1>4. ff = f \o h
  BY DEF Moves
<1> HIDE DEF h
<1>5. /\ IsSeq(ff) /\ Len(ff) = Len(f) + Len(h)
      /\ \A i \in 1..Len(f) + Len(h) : ff[i] = IF i <= Len(f) THEN f[i] ELSE h[i - Len(f)]
  BY <1>2, <1>4, ConcatIsSeq
<1>6. ASSUME NEW i \in 1..Total(f, b)
      PROVE  CellAt(ff, bb, i) = CellAt(f, b, i)
  <2>1. i \in 1..Len(f) + Len(b) /\ Len(ff) = Len(f) + n
    BY <1>2, <1>5 DEF Total
  <2>2. CASE i <= Len(f)
    <3>1. ff[i] = f[i] /\ i <= Len(ff)
      BY <1>1, <1>2, <1>5, <2>1, <2>2
    <3> QED
      BY <2>2, <3>1 DEF CellAt
  <2>3. CASE ~(i <= Len(f)) /\ i <= Len(f) + n
    <3>1. i - Len(f) \in 1..n /\ i \in 1..Len(f) + Len(h) /\ i <= Len(ff)
      BY <1>1, <1>2, <2>1, <2>3
    <3>2. ff[i] = b[i - Len(f)]
      BY <1>2, <1>5, <2>3, <3>1
    <3> QED
      BY <2>3, <3>1, <3>2 DEF CellAt
  <2>4. CASE ~(i <= Len(f) + n)
    <3>1. /\ i - Len(ff) \in 1..Len(b) - n /\ ~(i <= Len(ff)) /\ ~(i <= Len(f))
          /\ n + (i - Len(ff)) = i - Len(f)
      BY <1>1, <2>1, <2>4
    <3>2. bb[i - Len(ff)] = b[i - Len(f)]
      BY <1>3, <3>1
    <3> QED
      BY <3>1, <3>2 DEF CellAt
  <2> QED
    BY <2>2, <2>3, <2>4
<1>7. Total(ff, bb) = Total(f, b) /\ Total(f, b) \in Nat
  <2>1. Len(ff) = Len(f) + n /\ Len(bb) = Len(b) - n
    BY <1>2, <1>3, <1>5
  <2> QED
    BY <1>1, <2>1 DEF Total
<1> QED
  BY <1>1, <1>2, <1>3, <1>5, <1>6, <1>7 DEF Extends

\* A write extends it.
LEMMA WriteExtendsStream ==
    ASSUME NEW f, NEW b, NEW c, IsSeq(f), IsSeq(b), IsSeq(c), NEW ff, NEW bb,
           Writes(f, b, c, ff, bb)
    PROVE  /\ IsSeq(ff) /\ IsSeq(bb)
           /\ bb = b \/ Len(bb) = Len(b) + Len(c)
           /\ Len(f) <= Len(ff)
           /\ Total(ff, bb) = Total(f, b) + Len(c) /\ Extends(f, b, ff, bb)
           /\ \A j \in 1..Len(c) : CellAt(ff, bb, Total(f, b) + j) = c[j]
<1>1. Len(f) \in Nat /\ Len(b) \in Nat /\ Len(c) \in Nat
  BY IsSeqLen
<1>2. CASE ff = f /\ bb = b \o c
  <2>1. /\ IsSeq(bb) /\ Len(bb) = Len(b) + Len(c)
        /\ \A i \in 1..Len(b) + Len(c) : bb[i] = IF i <= Len(b) THEN b[i] ELSE c[i - Len(b)]
    BY <1>2, ConcatIsSeq
  <2>2. Total(ff, bb) = Total(f, b) + Len(c) /\ Total(f, b) <= Total(ff, bb)
    BY <1>1, <1>2, <2>1 DEF Total
  <2>3. ASSUME NEW i \in 1..Total(f, b)
        PROVE  CellAt(ff, bb, i) = CellAt(f, b, i)
    <3>1. i \in 1..Len(f) + Len(b)
      BY DEF Total
    <3>2. CASE i <= Len(f)
      BY <1>2, <3>2 DEF CellAt
    <3>3. CASE ~(i <= Len(f))
      <4>1. i - Len(f) \in 1..Len(b) + Len(c) /\ i - Len(f) <= Len(b)
        BY <1>1, <3>1, <3>3
      <4> QED
        BY <1>2, <2>1, <3>3, <4>1 DEF CellAt
    <3> QED
      BY <3>2, <3>3
  <2>4. ASSUME NEW j \in 1..Len(c)
        PROVE  CellAt(ff, bb, Total(f, b) + j) = c[j]
    <3>1. /\ ~(Total(f, b) + j <= Len(f)) /\ (Total(f, b) + j) - Len(f) = Len(b) + j
          /\ Len(b) + j \in 1..Len(b) + Len(c) /\ ~(Len(b) + j <= Len(b))
          /\ (Len(b) + j) - Len(b) = j
      BY <1>1 DEF Total
    <3> QED
      BY <1>2, <2>1, <3>1 DEF CellAt
  <2> QED
    BY <1>1, <1>2, <2>1, <2>2, <2>3, <2>4 DEF Extends
<1>3. CASE b = <<>> /\ bb = b /\ ff = f \o c
  <2>1. /\ IsSeq(ff) /\ Len(ff) = Len(f) + Len(c)
        /\ \A i \in 1..Len(f) + Len(c) : ff[i] = IF i <= Len(f) THEN f[i] ELSE c[i - Len(f)]
    BY <1>3, ConcatIsSeq
  <2>2. Len(b) = 0
    BY <1>3, IsSeqLen
  <2>3. Total(ff, bb) = Total(f, b) + Len(c) /\ Total(f, b) = Len(f)
    BY <1>1, <1>3, <2>1, <2>2 DEF Total
  <2>4. ASSUME NEW i \in 1..Total(f, b)
        PROVE  CellAt(ff, bb, i) = CellAt(f, b, i)
    <3>1. i \in 1..Len(f) + Len(c) /\ i <= Len(f) /\ i <= Len(ff)
      BY <1>1, <2>1, <2>3
    <3> QED
      BY <2>1, <3>1 DEF CellAt
  <2>5. ASSUME NEW j \in 1..Len(c)
        PROVE  CellAt(ff, bb, Total(f, b) + j) = c[j]
    <3>1. /\ Len(f) + j <= Len(ff) /\ Len(f) + j \in 1..Len(f) + Len(c)
          /\ ~(Len(f) + j <= Len(f)) /\ (Len(f) + j) - Len(f) = j
      BY <1>1, <2>1
    <3> QED
      BY <2>1, <2>3, <3>1 DEF CellAt
  <2>6. Total(f, b) <= Total(ff, bb) /\ Len(f) <= Len(ff)
    BY <1>1, <2>1, <2>3
  <2> QED
    BY <1>3, <2>1, <2>3, <2>4, <2>5, <2>6 DEF Extends
<1> QED
  BY <1>2, <1>3 DEF Writes

-----------------------------------------------------------------------------
(* The inductive invariant.                                                  *)

Appended == [entry : Entries, value_pos : Nat]

ControlInv ==
    /\ user \in {"engine", "merge"}
    /\ pc \in {"idle", "write", "flush", "flushed", "drop", "closed"}
    /\ op \in {"none", "append", "append_buffered", "flush_only", "sync", "sync_handle"}
    /\ op = "flush_only" => user = "merge"
    /\ pc = "flush" /\ op = "append" => appended # <<>>
    /\ pc = "flushed" => buffer = <<>>
    /\ Len(buffer) <= Capacity
    /\ faults \in 0..MaxFaults

\* Every value that was accepted is in the stream where append said.
StreamInv ==
    /\ IsSeq(file) /\ IsSeq(buffer) /\ offset \in Nat
    /\ appended \in Seq(Appended)
    /\ \A i \in DOMAIN appended :
          Holds(file, buffer, appended[i].value_pos, appended[i].entry.value)

\* What was published is past the buffer.
PublishedInv ==
    /\ published \subseteq DOMAIN appended
    /\ \A i \in published :
          appended[i].value_pos + Len(appended[i].entry.value) <= Len(file)

\* The offset is the end of the stream, but for what the write in progress added: the first
\* k cells of its entry, past the buffer.
Written(enc) == Len(enc) - Len(todo.cells)

WriteInv ==
    /\ todo = [cells |-> todo.cells, entry |-> todo.entry]
    /\ pc # "write" => offset = Total(file, buffer)
    /\ pc = "write" =>
          /\ todo.entry \in Entries /\ IsSeq(todo.cells)
          /\ Len(todo.cells) \in 1..Len(EncodeEntry(todo.entry))
          /\ Total(file, buffer) = offset + Written(EncodeEntry(todo.entry))
          /\ \A j \in 1..Written(EncodeEntry(todo.entry)) :
                CellAt(file, buffer, offset + j) = EncodeEntry(todo.entry)[j]
          /\ \A j \in 1..Len(todo.cells) :
                todo.cells[j] = EncodeEntry(todo.entry)[Written(EncodeEntry(todo.entry)) + j]
          /\ Written(EncodeEntry(todo.entry)) > 0 => buffer = <<>>

SyncInv ==
    /\ synced \in 0..Len(file) /\ acked \in 0..offset /\ acked <= synced
    /\ fd # None => fd \in 0..offset /\ fd <= Len(file)

IInv == ControlInv /\ StreamInv /\ PublishedInv /\ WriteInv /\ SyncInv

\* What the run checks follows from it.
LEMMA IInvImplies == IInv => OffsetsAreRight /\ PublishedIsReadable
<1> SUFFICES ASSUME IInv PROVE OffsetsAreRight /\ PublishedIsReadable
  OBVIOUS
<1>1. Len(file) \in Nat /\ Len(buffer) \in Nat
  BY IsSeqLen DEF IInv, StreamInv
<1>2. TypeOK
  BY <1>1 DEF TypeOK, IInv, ControlInv, StreamInv, PublishedInv, SyncInv, Appended, None
<1>3. OffsetIsLength /\ SyncCoversAppended
  BY DEF OffsetIsLength, SyncCoversAppended, IInv, WriteInv, SyncInv, Total
<1>4. ASSUME NEW i \in published
      PROVE  /\ appended[i].value_pos + Len(appended[i].entry.value) <= Len(file)
             /\ SubSeq(file, appended[i].value_pos + 1,
                       appended[i].value_pos + Len(appended[i].entry.value))
                   = appended[i].entry.value
  <2> DEFINE v == appended[i].entry.value
             p == appended[i].value_pos
  <2>1. /\ i \in DOMAIN appended /\ appended[i] \in Appended
        /\ p + Len(v) <= Len(file) /\ Holds(file, buffer, p, v) /\ IsSeq(file)
    BY DEF IInv, StreamInv, PublishedInv
  <2>2. p \in Nat /\ IsSeq(v)
    BY <2>1, EncodeEndsWithValue DEF Appended
  <2> HIDE DEF v, p
  <2>3. Len(v) \in Nat
    BY <2>2, IsSeqLen
  <2>4. \A j \in 1..Len(v) : file[p + j] = v[j]
    <3> TAKE j \in 1..Len(v)
    <3>1. p + j <= Len(file)
      BY <1>1, <2>1, <2>2, <2>3
    <3> QED
      BY <2>1, <3>1 DEF Holds, CellAt
  <2>5. SubSeq(file, p + 1, p + Len(v)) = v
    BY <2>1, <2>2, <2>4, SubSeqIs
  <2> QED
    BY <2>1, <2>5 DEF v, p
<1>5. PublishedIsReadable
  BY <1>4 DEF PublishedIsReadable
<1> QED
  BY <1>2, <1>3, <1>5 DEF OffsetsAreRight

\* The file and its buffer are empty at first.
LEMMA InitOK == Init => IInv
<1> SUFFICES ASSUME Init PROVE IInv
  OBVIOUS
<1>1. IsSeq(<<>>) /\ Len(<<>>) = 0 /\ Capacity \in Nat /\ MaxFaults \in Nat
  BY SeqIsSeq, EmptySeq, ActiveFileAssumption
<1>2. ControlInv
  BY <1>1 DEF Init, ControlInv
<1>3. StreamInv /\ PublishedInv
  BY <1>1 DEF Init, StreamInv, PublishedInv
<1>4. WriteInv /\ SyncInv
  BY <1>1 DEF Init, WriteInv, SyncInv, NoEntry, Total, None
<1> QED
  BY <1>2, <1>3, <1>4 DEF IInv

-----------------------------------------------------------------------------
(* Steps that leave the stream alone.                                        *)

\* The same file, buffer and offset, and the same entries, published or not.
StreamStays == UNCHANGED <<file, buffer, offset, appended>>

\* A step that leaves stream and claims alone keeps the invariants about them.
LEMMA StreamStaysOK ==
    ASSUME IInv, StreamStays
    PROVE  StreamInv' /\ (UNCHANGED published => PublishedInv')
BY DEF IInv, StreamStays, StreamInv, PublishedInv

\* A call begins with the whole entry before it, the tracked offset at the end of the stream.
LEMMA StartWriteOK ==
    ASSUME IInv, NEW e \in Entries, StartWrite(e)
    PROVE  IInv'
<1>1. /\ pc = "idle" /\ pc' = "write" /\ op' \in {"append", "append_buffered"}
      /\ todo' = [cells |-> EncodeEntry(e), entry |-> e]
      /\ UNCHANGED <<user, file, buffer, offset, synced, hint, appended, published, fd, acked,
                     faults>>
  BY DEF StartWrite, fileVars, histVars
<1>2. StreamInv' /\ PublishedInv'
  BY <1>1, StreamStaysOK DEF StreamStays
<1>3. ControlInv' /\ SyncInv'
  BY <1>1 DEF IInv, ControlInv, SyncInv
<1>4. WriteInv'
  <2> DEFINE enc == EncodeEntry(e)
  <2>1. IsSeq(enc) /\ Len(enc) \in Nat /\ Len(enc) >= 1
    <3>1. IsSeq(enc) /\ IsSeq(e.value) /\ Len(e.value) < Len(enc)
      BY EncodeEndsWithValue DEF EndsWith
    <3> HIDE DEF enc
    <3>2. Len(enc) \in Nat /\ Len(e.value) \in Nat
      BY <3>1, IsSeqLen
    <3> QED
      BY <3>1, <3>2
  <2>2. todo'.cells = enc /\ todo'.entry = e /\ EncodeEntry(todo'.entry) = enc
    BY <1>1
  <2> HIDE DEF enc
  <2>3. Written(enc)' = 0 /\ Total(file, buffer) = offset /\ offset \in Nat
    BY <1>1, <2>1, <2>2 DEF Written, IInv, WriteInv, StreamInv
  <2>4. todo' = [cells |-> todo'.cells, entry |-> todo'.entry]
    BY <1>1
  <2>5. /\ todo'.entry \in Entries /\ IsSeq(todo'.cells) /\ Len(todo'.cells) \in 1..Len(enc)
        /\ Total(file', buffer') = offset' + Written(enc)'
        /\ \A j \in 1..Written(enc)' : CellAt(file', buffer', offset' + j) = enc[j]
        /\ \A j \in 1..Len(todo'.cells) : todo'.cells[j] = enc[Written(enc)' + j]
        /\ ~(Written(enc)' > 0)
    BY <1>1, <2>1, <2>2, <2>3
  <2> QED
    BY <1>1, <2>2, <2>4, <2>5 DEF WriteInv, Written
<1> QED
  BY <1>2, <1>3, <1>4 DEF IInv

\* What is left of the entry is shorter than the entry, and nothing is buffered beside it.
LEMMA WrittenIsNat ==
    ASSUME IInv, pc = "write"
    PROVE  /\ Written(EncodeEntry(todo.entry)) \in Nat
           /\ buffer # <<>> => offset = Total(file, buffer)
<1> DEFINE enc == EncodeEntry(todo.entry)
<1>1. /\ IsSeq(enc) /\ Len(todo.cells) \in 1..Len(enc) /\ offset \in Nat
      /\ Total(file, buffer) = offset + Written(enc) /\ (Written(enc) > 0 => buffer = <<>>)
  BY EncodeEndsWithValue DEF IInv, WriteInv, StreamInv
<1> HIDE DEF enc
<1>2. Len(enc) \in Nat
  BY <1>1, IsSeqLen
<1>3. Written(enc) \in Nat
  BY <1>1, <1>2 DEF Written
<1> QED
  BY <1>1, <1>3 DEF enc

\* A call that flushes begins, its flush ends, a handle is cloned, a call fails or a writer is
\* dropped: no cell moves.
QuietStep ==
    \/ \E call \in {"sync", "sync_handle", "flush_only"} : StartFlush(call)
    \/ SyncFlushed \/ HandleCloned \/ Dropped
    \/ \E kind \in FaultKinds : Fails(kind)

\* Steps that neither write nor sync.
LEMMA QuietStepOK ==
    ASSUME IInv, "direct" \notin FaultKinds, QuietStep
    PROVE  IInv'
<1>1. /\ UNCHANGED <<user, file, buffer, offset, appended, published, synced, acked>>
      /\ pc' \in {"idle", "flush", "flushed", "drop", "closed"}
      /\ pc = "write" => buffer # <<>>
  BY DEF QuietStep, StartFlush, FirstStep, SyncFlushed, HandleCloned, Dropped, Fails,
         fileVars, histVars, callVars, Return, MustFlushFirst, Direct
<1>2. /\ op' \in {op, "none", "sync", "sync_handle", "flush_only"}
      /\ op' = "flush_only" => user = "merge"
      /\ pc' = "flush" => op' # "append"
      /\ pc' = "flushed" => buffer = <<>>
  BY DEF QuietStep, StartFlush, FirstStep, SyncFlushed, HandleCloned, Dropped, Fails,
         fileVars, histVars, callVars, Return, IInv, ControlInv
<1>3. faults' = faults \/ (faults' = faults + 1 /\ faults < MaxFaults)
  BY DEF QuietStep, StartFlush, SyncFlushed, HandleCloned, Dropped, Fails,
         fileVars, histVars, callVars
<1>4. fd' = fd \/ (fd' = offset /\ pc = "flush" /\ buffer = <<>>)
  BY DEF QuietStep, StartFlush, SyncFlushed, HandleCloned, Dropped, Fails,
         fileVars, histVars, callVars
<1>5. todo' = todo \/ todo' = NoEntry
  BY DEF QuietStep, StartFlush, SyncFlushed, HandleCloned, Dropped, Fails,
         fileVars, histVars, callVars
<1>6. StreamInv' /\ PublishedInv'
  BY <1>1, StreamStaysOK DEF StreamStays
<1>7. ControlInv'
  <2>1. faults' \in 0..MaxFaults
    BY <1>3, ActiveFileAssumption DEF IInv, ControlInv
  <2> QED
    BY <1>1, <1>2, <2>1 DEF IInv, ControlInv
<1>8. offset = Total(file, buffer) /\ offset \in Nat
  BY <1>1, WrittenIsNat DEF IInv, WriteInv, StreamInv
<1>9. WriteInv'
  BY <1>1, <1>5, <1>8 DEF IInv, WriteInv, NoEntry
<1>10. SyncInv'
  <2>1. CASE fd' = fd
    BY <1>1, <2>1 DEF IInv, SyncInv
  <2>2. CASE fd' = offset /\ pc = "flush" /\ buffer = <<>>
    <3>1. Len(file) \in Nat /\ Len(buffer) = 0
      BY <2>2, IsSeqLen DEF IInv, StreamInv
    <3>2. fd' \in 0..offset /\ fd' <= Len(file)
      BY <1>8, <2>2, <3>1 DEF Total
    <3> QED
      BY <1>1, <3>2 DEF IInv, SyncInv
  <2> QED
    BY <1>4, <2>1, <2>2
<1> QED
  BY <1>6, <1>7, <1>9, <1>10 DEF IInv

\* The fsync of a clone ends, beside whatever call is in progress.
LEMMA SyncDataOfHandleOK ==
    ASSUME IInv, SyncDataOfHandle
    PROVE  IInv'
<1>1. /\ UNCHANGED <<user, file, buffer, offset, hint, pc, op, todo, appended, published>>
      /\ fd # None /\ fd' = None
      /\ \/ synced' = Len(file) /\ acked' = (IF fd > acked THEN fd ELSE acked) /\ faults' = faults
         \/ UNCHANGED <<synced, acked>> /\ faults' = faults + 1 /\ faults < MaxFaults
  BY DEF SyncDataOfHandle, callVars
<1>2. StreamInv' /\ PublishedInv'
  BY <1>1, StreamStaysOK DEF StreamStays
<1>3. WriteInv'
  BY <1>1 DEF IInv, WriteInv, Written
<1>4. ControlInv'
  <2>1. faults' \in 0..MaxFaults
    BY <1>1, ActiveFileAssumption DEF IInv, ControlInv
  <2> QED
    BY <1>1, <2>1 DEF IInv, ControlInv
<1>5. SyncInv'
  <2>1. Len(file) \in Nat
    BY IsSeqLen DEF IInv, StreamInv
  <2>2. /\ fd \in 0..offset /\ fd <= Len(file) /\ offset \in Nat
        /\ synced \in 0..Len(file) /\ acked \in 0..offset /\ acked <= synced
    BY <1>1 DEF IInv, SyncInv, StreamInv
  <2>3. synced' \in 0..Len(file) /\ acked' \in 0..offset /\ acked' <= synced'
    BY <1>1, <2>1, <2>2
  <2> QED
    BY <1>1, <2>3 DEF SyncInv
<1> QED
  BY <1>2, <1>3, <1>4, <1>5 DEF IInv

-----------------------------------------------------------------------------
(* Steps after the flush.                                                    *)

\* An append or a flush returns, or an fsync does, when nothing is buffered: the stream is the
\* file, and whatever was accepted may be published.
LEMMA PublishOK ==
    ASSUME IInv, FlushReturns \/ SyncData
    PROVE  IInv'
<1>1. /\ UNCHANGED <<user, file, buffer, offset, todo, appended, fd, faults>>
      /\ pc \in {"flush", "flushed"} /\ buffer = <<>>
      /\ pc' \in {"idle", "closed"} /\ op' = "none"
  BY DEF FlushReturns, SyncData, fileVars, Return, IInv, ControlInv
<1>2. \/ published' = published
      \/ published' = published \cup {Len(appended)} /\ appended # <<>>
      \/ published' = DOMAIN appended
  BY DEF FlushReturns, SyncData, Published, IInv, ControlInv
<1>3. UNCHANGED <<synced, acked>> \/ (synced' = Len(file) /\ acked' = offset)
  BY DEF FlushReturns, SyncData, fileVars
<1>4. Len(file) \in Nat /\ Total(file, buffer) = Len(file) /\ offset = Len(file)
  <2>1. Len(file) \in Nat /\ Len(buffer) = 0
    BY <1>1, IsSeqLen DEF IInv, StreamInv
  <2> QED
    BY <1>1, <2>1 DEF IInv, WriteInv, Total
<1>5. StreamInv'
  BY <1>1, StreamStaysOK DEF StreamStays
<1>6. PublishedInv'
  <2>1. published' \subseteq DOMAIN appended
    <3>1. appended # <<>> => Len(appended) \in DOMAIN appended
      BY DEF IInv, StreamInv
    <3> QED
      BY <1>2, <3>1 DEF IInv, PublishedInv
  <2>2. \A i \in DOMAIN appended :
           appended[i].value_pos + Len(appended[i].entry.value) <= Len(file)
    BY <1>4 DEF IInv, StreamInv, Holds
  <2> QED
    BY <1>1, <2>1, <2>2 DEF PublishedInv
<1>7. ControlInv' /\ WriteInv'
  BY <1>1 DEF IInv, ControlInv, WriteInv
<1>8. SyncInv'
  BY <1>1, <1>3, <1>4 DEF IInv, SyncInv
<1> QED
  BY <1>5, <1>6, <1>7, <1>8 DEF IInv

-----------------------------------------------------------------------------
(* Steps that move cells.                                                    *)

\* The stream goes on; the values in it stay.
LEMMA StreamGrows ==
    ASSUME IInv, IsSeq(file'), IsSeq(buffer'), Extends(file, buffer, file', buffer'),
           NEW i \in DOMAIN appended
    PROVE  Holds(file', buffer', appended[i].value_pos, appended[i].entry.value)
<1>1. /\ appended[i] \in Appended /\ IsSeq(file) /\ IsSeq(buffer)
      /\ Holds(file, buffer, appended[i].value_pos, appended[i].entry.value)
  BY DEF IInv, StreamInv
<1>2. appended[i].value_pos \in Nat /\ IsSeq(appended[i].entry.value)
  BY <1>1, EncodeEndsWithValue DEF Appended
<1> QED
  BY <1>1, <1>2, HoldsStays

\* So does what was published, and what was synced.
LEMMA FileGrows ==
    ASSUME IInv, Len(file') \in Nat, Len(file) <= Len(file'), offset <= offset', offset' \in Nat,
           UNCHANGED <<synced, acked, fd>>
    PROVE  /\ SyncInv'
           /\ \A i \in published :
                 appended[i].value_pos + Len(appended[i].entry.value) <= Len(file')
<1>1. Len(file) \in Nat /\ offset \in Nat
  BY IsSeqLen DEF IInv, StreamInv
<1>2. SyncInv'
  BY <1>1 DEF IInv, SyncInv
<1>3. ASSUME NEW i \in published
      PROVE  appended[i].value_pos + Len(appended[i].entry.value) <= Len(file')
  <2>1. /\ appended[i] \in Appended
        /\ appended[i].value_pos + Len(appended[i].entry.value) <= Len(file)
    BY DEF IInv, StreamInv, PublishedInv
  <2>2. appended[i].value_pos \in Nat /\ Len(appended[i].entry.value) \in Nat
    BY <2>1, EncodeEndsWithValue, IsSeqLen DEF Appended
  <2> DEFINE from == appended[i].value_pos
             size == Len(appended[i].entry.value)
  <2>3. from \in Nat /\ size \in Nat /\ from + size <= Len(file)
    BY <2>1, <2>2
  <2> HIDE DEF from, size
  <2>4. from + size <= Len(file')
    BY <1>1, <2>3
  <2> QED
    BY <2>4 DEF from, size
<1> QED
  BY <1>2, <1>3

\* One write call of BufWriter's flush.
LEMMA FlushSomeOK ==
    ASSUME IInv, NEW n \in 1..Len(buffer), FlushSome(n)
    PROVE  IInv'
<1>1. /\ Moves(file, buffer, n, file', buffer')
      /\ UNCHANGED <<user, offset, synced, hint, pc, op, todo, appended, published, fd, acked,
                     faults>>
      /\ pc = "write" => MustFlushFirst
      /\ pc # "flushed"
  BY DEF FlushSome, Moves, callVars, histVars, MustFlushFirst
<1>2. IsSeq(file) /\ IsSeq(buffer)
  BY DEF IInv, StreamInv
<1>3. /\ IsSeq(file') /\ IsSeq(buffer') /\ Len(file') = Len(file) + n
      /\ Len(buffer') = Len(buffer) - n
      /\ Total(file', buffer') = Total(file, buffer) /\ Extends(file, buffer, file', buffer')
  BY <1>1, <1>2, FlushLeavesStream
<1>4. Len(file) \in Nat /\ Len(file') \in Nat /\ Len(buffer) \in Nat
  BY <1>2, <1>3, IsSeqLen
<1>5. StreamInv'
  BY <1>1, <1>3, StreamGrows DEF StreamInv, IInv
<1>6. PublishedInv' /\ SyncInv'
  BY <1>1, <1>3, <1>4, FileGrows DEF PublishedInv, IInv, StreamInv
<1>7. ControlInv'
  <2>1. Len(buffer') <= Capacity
    BY <1>3, <1>4, ActiveFileAssumption DEF IInv, ControlInv
  <2> QED
    BY <1>1, <2>1 DEF IInv, ControlInv
<1>8. WriteInv'
  <2>1. CASE pc # "write"
    BY <1>1, <1>3, <2>1 DEF IInv, WriteInv
  <2>2. CASE pc = "write"
    <3>1. Written(EncodeEntry(todo.entry)) = 0
      BY <1>1, <2>2, WrittenIsNat DEF MustFlushFirst, IInv, WriteInv
    <3> DEFINE enc == EncodeEntry(todo.entry)
    <3>2. /\ todo = [cells |-> todo.cells, entry |-> todo.entry]
          /\ todo.entry \in Entries /\ IsSeq(todo.cells) /\ Len(todo.cells) \in 1..Len(enc)
          /\ Total(file, buffer) = offset + Written(enc) /\ Written(enc) = 0
          /\ \A j \in 1..Len(todo.cells) : todo.cells[j] = enc[Written(enc) + j]
      BY <2>2, <3>1 DEF IInv, WriteInv
    <3>3. Written(enc)' = Written(enc) /\ EncodeEntry(todo'.entry) = enc
      BY <1>1 DEF Written
    <3> HIDE DEF enc
    <3> QED
      BY <1>1, <1>3, <2>2, <3>2, <3>3 DEF WriteInv, Written
  <2> QED
    BY <2>1, <2>2
<1> QED
  BY <1>5, <1>6, <1>7, <1>8 DEF IInv

\* The write in progress: the entry, what it has left, and where the stream stands.
LEMMA WriteFacts ==
    ASSUME IInv, pc = "write", NEW enc, enc = EncodeEntry(todo.entry)
    PROVE  /\ todo = [cells |-> todo.cells, entry |-> todo.entry]
           /\ todo.entry \in Entries /\ IsSeq(todo.cells) /\ IsSeq(enc)
           /\ Len(enc) \in Nat /\ Len(todo.cells) \in 1..Len(enc) /\ offset \in Nat
           /\ Written(enc) \in Nat /\ Written(enc) = Len(enc) - Len(todo.cells)
           /\ Total(file, buffer) = offset + Written(enc)
           /\ \A j \in 1..Written(enc) : CellAt(file, buffer, offset + j) = enc[j]
           /\ \A j \in 1..Len(todo.cells) : todo.cells[j] = enc[Written(enc) + j]
           /\ IsSeq(file) /\ IsSeq(buffer)
<1>1. /\ todo = [cells |-> todo.cells, entry |-> todo.entry]
      /\ todo.entry \in Entries /\ IsSeq(todo.cells) /\ Len(todo.cells) \in 1..Len(enc)
      /\ Total(file, buffer) = offset + Written(enc) /\ offset \in Nat
      /\ \A j \in 1..Written(enc) : CellAt(file, buffer, offset + j) = enc[j]
      /\ \A j \in 1..Len(todo.cells) : todo.cells[j] = enc[Written(enc) + j]
      /\ IsSeq(file) /\ IsSeq(buffer)
  BY DEF IInv, WriteInv, StreamInv
<1>2. IsSeq(enc)
  BY <1>1, EncodeEndsWithValue
<1>3. Len(enc) \in Nat
  BY <1>2, IsSeqLen
<1>4. Written(enc) \in Nat /\ Written(enc) = Len(enc) - Len(todo.cells)
  BY WrittenIsNat DEF Written
<1> QED
  BY <1>1, <1>2, <1>3, <1>4

\* The first cells of s, at least one.
StartOf(c, s) == IsSeq(c) /\ Len(c) \in 1..Len(s) /\ \A j \in 1..Len(c) : c[j] = s[j]

\* A part c of what is left goes to the stream: so much more of the entry is in it.
LEMMA PartWritten ==
    ASSUME IInv, pc = "write", NEW enc, enc = EncodeEntry(todo.entry),
           NEW c, StartOf(c, todo.cells), Writes(file, buffer, c, file', buffer')
    PROVE  /\ IsSeq(file') /\ IsSeq(buffer') /\ Len(file) <= Len(file')
           /\ Extends(file, buffer, file', buffer')
           /\ Total(file', buffer') = offset + (Written(enc) + Len(c))
           /\ \A j \in 1..Written(enc) + Len(c) : CellAt(file', buffer', offset + j) = enc[j]
<1> DEFINE k == Written(enc)
           t == Total(file, buffer)
           d == todo.cells
<1>1. /\ Len(enc) \in Nat /\ Len(d) \in 1..Len(enc) /\ offset \in Nat
      /\ k \in Nat /\ k = Len(enc) - Len(d) /\ t = offset + k
  BY WriteFacts
<1>2. /\ \A j \in 1..k : CellAt(file, buffer, offset + j) = enc[j]
      /\ \A j \in 1..Len(d) : d[j] = enc[k + j]
      /\ IsSeq(file) /\ IsSeq(buffer)
  BY WriteFacts
<1>0. IsSeq(c) /\ Len(c) \in 1..Len(d) /\ \A j \in 1..Len(c) : c[j] = d[j]
  BY DEF StartOf
<1>3. /\ IsSeq(file') /\ IsSeq(buffer') /\ Len(file) <= Len(file')
      /\ Total(file', buffer') = t + Len(c)
      /\ Extends(file, buffer, file', buffer')
      /\ \A j \in 1..Len(c) : CellAt(file', buffer', t + j) = c[j]
  <2>1. IsSeq(file) /\ IsSeq(buffer)
    BY <1>2
  <2> QED
    BY <1>0, <2>1, WriteExtendsStream
<1>4. \A i \in 1..t : CellAt(file', buffer', i) = CellAt(file, buffer, i)
  BY <1>3 DEF Extends
<1> HIDE DEF k, t, d
<1>5. Total(file', buffer') = offset + (k + Len(c))
  BY <1>1, <1>0, <1>3
<1>6. ASSUME NEW j \in 1..k + Len(c)
      PROVE  CellAt(file', buffer', offset + j) = enc[j]
  <2>1. CASE j <= k
    <3>1. offset + j \in 1..t /\ j \in 1..k
      BY <1>1, <2>1
    <3> QED
      BY <1>2, <1>4, <3>1
  <2>2. CASE ~(j <= k)
    <3>1. /\ j - k \in 1..Len(c) /\ t + (j - k) = offset + j
          /\ j - k \in 1..Len(d) /\ k + (j - k) = j
      BY <1>1, <1>0, <2>2
    <3>2. CellAt(file', buffer', offset + j) = c[j - k]
      BY <1>3, <3>1
    <3>3. c[j - k] = d[j - k] /\ d[j - k] = enc[j]
      BY <1>2, <1>0, <3>1
    <3> QED
      BY <3>2, <3>3
  <2> QED
    BY <2>1, <2>2
<1> QED
  BY <1>3, <1>5, <1>6 DEF k

\* A stream that has the whole entry has its value where ValuePos says.
LEMMA ValueIsThere ==
    ASSUME NEW f, NEW b, NEW p \in Nat, NEW e \in Entries, NEW enc, enc = EncodeEntry(e),
           Total(f, b) = p + Len(enc),
           \A j \in 1..Len(enc) : CellAt(f, b, p + j) = enc[j]
    PROVE  /\ Len(enc) - Len(e.value) \in Nat
           /\ Holds(f, b, p + (Len(enc) - Len(e.value)), e.value)
<1>1. IsSeq(enc) /\ IsSeq(e.value) /\ EndsWith(enc, e.value)
  BY EncodeEndsWithValue
<1> DEFINE v == e.value
<1>2. Len(enc) \in Nat /\ Len(v) \in Nat /\ Len(v) < Len(enc)
  BY <1>1, IsSeqLen DEF EndsWith
<1>3. \A j \in 1..Len(v) : enc[Len(enc) - Len(v) + j] = v[j]
  BY <1>1 DEF EndsWith
<1> HIDE DEF v
<1>4. ASSUME NEW j \in 1..Len(v)
      PROVE  CellAt(f, b, (p + (Len(enc) - Len(v))) + j) = v[j]
  <2>1. /\ Len(enc) - Len(v) + j \in 1..Len(enc)
        /\ (p + (Len(enc) - Len(v))) + j = p + (Len(enc) - Len(v) + j)
    BY <1>2
  <2> QED
    BY <1>3, <2>1
<1>5. (p + (Len(enc) - Len(v))) + Len(v) <= Total(f, b) /\ Len(enc) - Len(v) \in Nat
  BY <1>2
<1> QED
  BY <1>4, <1>5 DEF Holds, v

\* The last part is written: the entry is accepted, and its value is where append says.
LEMMA AcceptedOK ==
    ASSUME IInv, pc = "write", Writes(file, buffer, todo.cells, file', buffer'), Accepted,
           Len(buffer') <= Capacity, UNCHANGED <<user, synced, op, published, fd, acked, faults>>
    PROVE  IInv'
<1> DEFINE enc == EncodeEntry(todo.entry)
           e   == todo.entry
           new == [entry |-> e, value_pos |-> offset + (Len(enc) - Len(e.value))]
<1>1. /\ offset' = offset + Len(enc) /\ appended' = Append(appended, new) /\ todo' = NoEntry
      /\ pc' \in {"flush", "idle"}
  BY DEF Accepted, OffsetAfter, ValuePos
<1>2. /\ e \in Entries /\ IsSeq(todo.cells) /\ Len(enc) \in Nat /\ offset \in Nat
      /\ Len(todo.cells) \in 1..Len(enc) /\ Written(enc) + Len(todo.cells) = Len(enc)
  BY WriteFacts
<1>3. /\ IsSeq(file') /\ IsSeq(buffer') /\ Len(file) <= Len(file')
      /\ Extends(file, buffer, file', buffer')
      /\ Total(file', buffer') = offset + (Written(enc) + Len(todo.cells))
      /\ \A j \in 1..Written(enc) + Len(todo.cells) :
            CellAt(file', buffer', offset + j) = enc[j]
  <2>1. StartOf(todo.cells, todo.cells)
    BY <1>2, IsSeqLen DEF StartOf
  <2> QED
    BY <2>1, PartWritten
<1>4. /\ Len(enc) - Len(e.value) \in Nat
      /\ Holds(file', buffer', offset + (Len(enc) - Len(e.value)), e.value)
  BY <1>2, <1>3, ValueIsThere
<1>5. new \in Appended /\ new.entry = e /\ new.value_pos = offset + (Len(enc) - Len(e.value))
  BY <1>2, <1>4 DEF Appended
<1> HIDE DEF new
<1>6. /\ appended \in Seq(Appended) /\ appended' \in Seq(Appended) /\ appended' # <<>>
      /\ Len(appended') = Len(appended) + 1 /\ appended'[Len(appended) + 1] = new
      /\ \A i \in 1..Len(appended) : appended'[i] = appended[i]
      /\ Len(appended) \in Nat /\ DOMAIN appended = 1..Len(appended)
      /\ DOMAIN appended' = 1..Len(appended) + 1
  <2>1. appended \in Seq(Appended)
    BY DEF IInv, StreamInv
  <2>2. appended' \in Seq(Appended) /\ Len(appended') = Len(appended) + 1
    BY <1>1, <1>5, <2>1, AppendProperties
  <2> QED
    BY <1>1, <1>5, <2>1, <2>2, AppendProperties, LenProperties
<1>7. offset' \in Nat /\ offset <= offset' /\ Len(file') \in Nat
  BY <1>1, <1>2, <1>3, IsSeqLen
<1>8. StreamInv'
  <2>1. ASSUME NEW i \in DOMAIN appended'
        PROVE  Holds(file', buffer', appended'[i].value_pos, appended'[i].entry.value)
    <3>1. CASE i \in DOMAIN appended
      <4>1. Holds(file', buffer', appended[i].value_pos, appended[i].entry.value)
        BY <1>3, <3>1, StreamGrows
      <4> QED
        BY <1>6, <3>1, <4>1
    <3>2. CASE i = Len(appended) + 1
      BY <1>4, <1>5, <1>6, <3>2
    <3> QED
      BY <1>6, <3>1, <3>2
  <2> QED
    BY <1>3, <1>6, <1>7, <2>1 DEF StreamInv
<1>9. SyncInv' /\ \A i \in published :
                     appended[i].value_pos + Len(appended[i].entry.value) <= Len(file')
  BY <1>3, <1>7, FileGrows
<1>10. PublishedInv'
  <2>1. published \subseteq DOMAIN appended
    BY DEF IInv, PublishedInv
  <2>2. \A i \in published : appended'[i] = appended[i] /\ i \in DOMAIN appended'
    BY <1>6, <2>1
  <2> QED
    BY <1>9, <2>2 DEF PublishedInv
<1>11. ControlInv'
  BY <1>1, <1>6 DEF IInv, ControlInv
<1>12. WriteInv'
  <2>1. Total(file', buffer') = offset'
    BY <1>1, <1>2, <1>3
  <2>2. todo' = [cells |-> todo'.cells, entry |-> todo'.entry]
    BY <1>1 DEF NoEntry
  <2> QED
    BY <1>1, <2>1, <2>2 DEF WriteInv
<1> QED
  BY <1>8, <1>9, <1>10, <1>11, <1>12 DEF IInv

\* write_all to a buffer with room.
LEMMA CopyToBufferOK ==
    ASSUME IInv, CopyToBuffer
    PROVE  IInv'
<1>1. /\ pc = "write" /\ Accepted /\ Writes(file, buffer, todo.cells, file', buffer')
      /\ buffer' = buffer \o todo.cells /\ Len(todo.cells) <= Capacity - Len(buffer)
      /\ UNCHANGED <<user, synced, op, published, fd, acked, faults>>
  BY DEF CopyToBuffer, Writes, Spare
<1>2. IsSeq(todo.cells) /\ IsSeq(buffer)
  BY <1>1, WriteFacts
<1>3. Len(buffer') <= Capacity
  <2>1. Len(buffer') = Len(buffer) + Len(todo.cells)
    BY <1>1, <1>2, ConcatIsSeq
  <2>2. Len(buffer) \in Nat /\ Len(todo.cells) \in Nat
    BY <1>2, IsSeqLen
  <2> QED
    BY <1>1, <2>1, <2>2, ActiveFileAssumption
<1> QED
  BY <1>1, <1>3, AcceptedOK

\* A write past the empty buffer: of all that is left, or of a part.
LEMMA DirectWriteOK ==
    ASSUME IInv, NEW n \in 1..Len(todo.cells), DirectWrite(n)
    PROVE  IInv'
<1> DEFINE c    == SubSeq(todo.cells, 1, n)
           rest == SubSeq(todo.cells, n + 1, Len(todo.cells))
           enc  == EncodeEntry(todo.entry)
<1>1. /\ pc = "write" /\ buffer = <<>> /\ buffer' = buffer /\ file' = file \o c
      /\ UNCHANGED <<user, synced, op, published, fd, acked, faults>>
      /\ \/ n = Len(todo.cells) /\ Accepted
         \/ /\ n # Len(todo.cells) /\ todo' = [todo EXCEPT !.cells = rest]
            /\ UNCHANGED <<offset, appended, hint, pc>>
  BY DEF DirectWrite, Direct
<1>2. /\ todo = [cells |-> todo.cells, entry |-> todo.entry]
      /\ todo.entry \in Entries /\ IsSeq(todo.cells) /\ Len(enc) \in Nat
      /\ Len(todo.cells) \in 1..Len(enc) /\ offset \in Nat
      /\ Written(enc) = Len(enc) - Len(todo.cells) /\ Written(enc) \in Nat
      /\ \A j \in 1..Len(todo.cells) : todo.cells[j] = enc[Written(enc) + j]
  BY <1>1, WriteFacts
<1>3. Len(todo.cells) \in Nat /\ Len(buffer) <= Capacity
  BY <1>2, IsSeqLen DEF IInv, ControlInv
<1>4. CASE n = Len(todo.cells) /\ Accepted
  <2>1. c = todo.cells
    BY <1>2, <1>4, SubSeqFull DEF IsSeq
  <2>2. Writes(file, buffer, todo.cells, file', buffer')
    BY <1>1, <2>1 DEF Writes
  <2> QED
    BY <1>1, <1>3, <1>4, <2>2, AcceptedOK
<1>5. ASSUME n # Len(todo.cells), todo' = [todo EXCEPT !.cells = rest],
             UNCHANGED <<offset, appended, hint, pc>>
      PROVE  IInv'
  <2>1. IsSeq(c) /\ Len(c) = n /\ \A j \in 1..n : c[j] = todo.cells[j]
    <3>1. 1 \in 1..Len(todo.cells) + 1 /\ n \in 1 - 1..Len(todo.cells)
      BY <1>3
    <3>2. IsSeq(c) /\ Len(c) = n - 1 + 1 /\ \A i \in 1..n - 1 + 1 : c[i] = todo.cells[1 + i - 1]
      BY <1>2, <3>1, SubSeqIsSeq
    <3> HIDE DEF c
    <3> QED
      BY <1>3, <3>2
  <2>2. /\ IsSeq(rest) /\ Len(rest) = Len(todo.cells) - n
        /\ \A j \in 1..Len(todo.cells) - n : rest[j] = todo.cells[n + j]
    <3> DEFINE m == Len(todo.cells)
    <3>1. n + 1 \in 1..m + 1 /\ m \in (n + 1) - 1..m
      BY <1>3
    <3>2. IsSeq(rest) /\ Len(rest) = m - (n + 1) + 1
          /\ \A i \in 1..m - (n + 1) + 1 : rest[i] = todo.cells[(n + 1) + i - 1]
      BY <1>2, <3>1, SubSeqIsSeq
    <3> HIDE DEF rest
    <3> QED
      BY <1>3, <3>2
  <2>3. Writes(file, buffer, c, file', buffer')
    BY <1>1 DEF Writes
  <2>4. todo' = [cells |-> rest, entry |-> todo.entry]
    BY <1>2, <1>5
  <2> HIDE DEF c, rest
  <2>5. /\ IsSeq(file') /\ IsSeq(buffer') /\ Len(file) <= Len(file')
        /\ Extends(file, buffer, file', buffer')
        /\ Total(file', buffer') = offset + (Written(enc) + n)
        /\ \A j \in 1..Written(enc) + n : CellAt(file', buffer', offset + j) = enc[j]
    <3>1. StartOf(c, todo.cells)
      BY <2>1 DEF StartOf
    <3> QED
      BY <1>1, <1>2, <2>1, <2>3, <3>1, PartWritten
  <2>6. /\ todo'.cells = rest /\ todo'.entry = todo.entry
        /\ todo' = [cells |-> todo'.cells, entry |-> todo'.entry]
    BY <2>4
  <2>7. Len(enc) - Len(rest) = Written(enc) + n /\ Len(rest) \in 1..Len(enc)
    BY <1>2, <1>3, <1>5, <2>2
  <2>8. \A j \in 1..Len(rest) : rest[j] = enc[(Written(enc) + n) + j]
    <3> TAKE j \in 1..Len(rest)
    <3>1. n + j \in 1..Len(todo.cells) /\ Written(enc) + (n + j) = (Written(enc) + n) + j
      BY <1>2, <1>3, <2>2
    <3> QED
      BY <1>2, <2>2, <3>1
  <2> HIDE DEF enc
  <2>9. WriteInv'
    <3>1. EncodeEntry(todo'.entry) = enc /\ Len(enc) - Len(todo'.cells) = Written(enc) + n
      BY <2>6, <2>7 DEF enc
    <3>2. /\ todo'.entry \in Entries /\ IsSeq(todo'.cells) /\ Len(todo'.cells) \in 1..Len(enc)
          /\ Total(file', buffer') = offset' + (Len(enc) - Len(todo'.cells))
          /\ \A j \in 1..Len(enc) - Len(todo'.cells) :
                CellAt(file', buffer', offset' + j) = enc[j]
          /\ \A j \in 1..Len(todo'.cells) :
                todo'.cells[j] = enc[(Len(enc) - Len(todo'.cells)) + j]
          /\ buffer' = <<>>
      <4>1. todo'.entry \in Entries /\ IsSeq(todo'.cells) /\ Len(todo'.cells) \in 1..Len(enc)
        BY <1>2, <2>2, <2>6, <2>7
      <4>2. Total(file', buffer') = offset' + (Len(enc) - Len(todo'.cells))
        BY <1>5, <2>5, <3>1
      <4>3. \A j \in 1..Len(enc) - Len(todo'.cells) :
               CellAt(file', buffer', offset' + j) = enc[j]
        BY <1>5, <2>5, <3>1
      <4>4. \A j \in 1..Len(todo'.cells) :
               todo'.cells[j] = enc[(Len(enc) - Len(todo'.cells)) + j]
        BY <2>6, <2>8, <3>1
      <4>5. buffer' = <<>>
        BY <1>1
      <4> QED
        BY <4>1, <4>2, <4>3, <4>4, <4>5
    <3> QED
      BY <1>1, <1>5, <2>6, <3>1, <3>2 DEF WriteInv, Written
  <2>10. Len(file') \in Nat
    BY <2>5, IsSeqLen
  <2>11. StreamInv'
    BY <1>5, <2>5, StreamGrows DEF StreamInv, IInv
  <2>12. SyncInv' /\ PublishedInv'
    <3>1. offset' = offset /\ offset <= offset' /\ offset' \in Nat
      BY <1>2, <1>5
    <3> QED
      BY <1>1, <1>5, <2>5, <2>10, <3>1, FileGrows DEF PublishedInv, IInv
  <2>13. ControlInv'
    BY <1>1, <1>5 DEF IInv, ControlInv
  <2> QED
    BY <2>9, <2>11, <2>12, <2>13 DEF IInv
<1> QED
  BY <1>1, <1>4, <1>5

-----------------------------------------------------------------------------
(* What is read at one position.                                            *)

\* Cells that hold numbers.
Numbers(c) == IsSeq(c) /\ \A i \in 1..Len(c) : c[i].num \in 0..Base - 1

\* The part of c from a to b.
LEMMA TakeIs ==
    ASSUME NEW c, IsSeq(c), NEW p \in Nat, NEW n \in Nat, p + n <= Len(c)
    PROVE  /\ IsSeq(SubSeq(c, p + 1, p + n)) /\ Len(SubSeq(c, p + 1, p + n)) = n
           /\ \A i \in 1..n : SubSeq(c, p + 1, p + n)[i] = c[p + i]
<1>1. Len(c) \in Nat
  BY IsSeqLen
<1>2. p + 1 \in 1..Len(c) + 1 /\ p + n \in (p + 1) - 1..Len(c)
  BY <1>1
<1> DEFINE u == SubSeq(c, p + 1, p + n)
<1>3. /\ IsSeq(u) /\ Len(u) = (p + n) - (p + 1) + 1
      /\ \A i \in 1..(p + n) - (p + 1) + 1 : u[i] = c[(p + 1) + i - 1]
  BY <1>2, SubSeqIsSeq
<1> HIDE DEF u
<1>4. Len(u) = n /\ \A i \in 1..n : u[i] = c[p + i]
  BY <1>3
<1> QED
  BY <1>3, <1>4 DEF u

\* What read_up_to returns: the cells that are there.
LEMMA ReadUpToIs ==
    ASSUME NEW c, IsSeq(c), NEW p \in Nat, p <= Len(c), NEW n \in Nat
    PROVE  /\ IsSeq(ReadUpTo(c, p, n))
           /\ p + n <= Len(c) => Len(ReadUpTo(c, p, n)) = n
           /\ p + n > Len(c) => Len(ReadUpTo(c, p, n)) = Len(c) - p
           /\ \A i \in 1..Len(ReadUpTo(c, p, n)) : ReadUpTo(c, p, n)[i] = c[p + i]
           /\ ReadUpTo(c, p, n) = <<>> <=> Len(ReadUpTo(c, p, n)) = 0
<1> DEFINE k == IF p + n <= Len(c) THEN n ELSE Len(c) - p
           u == SubSeq(c, p + 1, p + k)
<1>1. Len(c) \in Nat
  BY IsSeqLen
<1>2. k \in Nat /\ p + k <= Len(c) /\ (p + n <= Len(c) => k = n) /\ (p + n > Len(c) => k = Len(c) - p)
  BY <1>1
<1>3. ReadUpTo(c, p, n) = u
  <2>1. (IF p + n <= Len(c) THEN p + n ELSE Len(c)) = p + k
    BY <1>1
  <2> QED
    BY <2>1 DEF ReadUpTo
<1> HIDE DEF k
<1>4. IsSeq(u) /\ Len(u) = k /\ \A i \in 1..k : u[i] = c[p + i]
  BY <1>1, <1>2, TakeIs
<1> HIDE DEF u
<1>5. u = <<>> <=> Len(u) = 0
  BY <1>4, IsSeqLen
<1> QED
  BY <1>2, <1>3, <1>4, <1>5

\* Two sequences of the same cells are the same.
LEMMA SameCells ==
    ASSUME NEW s, NEW t, IsSeq(s), IsSeq(t), Len(s) = Len(t), \A i \in 1..Len(s) : s[i] = t[i]
    PROVE  s = t
<1> DEFINE S == ToSet(s) \cup ToSet(t)
<1>1. s \in Seq(S) /\ t \in Seq(S)
  BY SeqMonotonic DEF IsSeq
<1> HIDE DEF S
<1> QED
  BY <1>1, SeqEqual

-----------------------------------------------------------------------------
(* What read_entry does at a position.                                       *)

\* The sizes of the header at p, and the cells that its CRC is about.
KszAt(c, p)  == KeySize(c[p + 3].num)
VszAt(c, p)  == c[p + 4].num
LenAt(c, p)  == HeaderSize + (KszAt(c, p) + VszAt(c, p))
RestAt(c, p) == SubSeq(c, p + 2, p + LenAt(c, p))

\* What is found in a whole entry at p.
FoundAt(c, p) ==
    [key       |-> SubSeq(c, p + HeaderSize + 1, p + HeaderSize + KszAt(c, p)),
     value     |-> SubSeq(c, p + HeaderSize + KszAt(c, p) + 1, p + LenAt(c, p)),
     tomb      |-> IsTomb(c[p + 3].num),
     tstamp    |-> c[p + 2].num,
     start     |-> p,
     value_pos |-> p + HeaderSize + KszAt(c, p)]

\* The base and the flag.
LEMMA BaseFacts ==
    /\ Base \in Nat /\ TombstoneBit \in Nat /\ TombstoneBit > 0 /\ Base = 2 * TombstoneBit
    /\ TombstoneBit < Base
BY FormatAssumption DEF TombstoneBit

LEMMA KeySizeIsNat ==
    ASSUME NEW n \in Nat
    PROVE  KeySize(n) \in Nat
BY BaseFacts DEF KeySize

LEMMA LenAtIsNat ==
    ASSUME NEW c, Numbers(c), NEW p \in Nat, p + HeaderSize <= Len(c)
    PROVE  /\ KszAt(c, p) \in Nat /\ VszAt(c, p) \in Nat /\ LenAt(c, p) \in Nat
           /\ LenAt(c, p) >= HeaderSize
<1>1. p + 3 \in 1..Len(c) /\ p + 4 \in 1..Len(c)
  BY IsSeqLen DEF Numbers, HeaderSize
<1>2. c[p + 3].num \in Nat /\ c[p + 4].num \in Nat
  BY <1>1, BaseFacts DEF Numbers
<1>3. KszAt(c, p) \in Nat /\ VszAt(c, p) \in Nat
  BY <1>2, KeySizeIsNat DEF KszAt, VszAt
<1> QED
  BY <1>3 DEF LenAt, HeaderSize

\* At the end of the file, or of what is left of a header.
LEMMA ReadNoHeader ==
    ASSUME NEW c, IsSeq(c), NEW p \in 0..Len(c), p + HeaderSize > Len(c)
    PROVE  ReadEntry(c, p) = IF p = Len(c) THEN [kind |-> "eof"] ELSE [kind |-> "truncated"]
<1> DEFINE h == ReadUpTo(c, p, HeaderSize)
<1>1. Len(c) \in Nat /\ HeaderSize \in Nat
  BY IsSeqLen DEF HeaderSize
<1>2. Len(h) = Len(c) - p /\ (h = <<>> <=> Len(c) - p = 0)
  <2>1. p \in Nat /\ p <= Len(c) /\ p + HeaderSize > Len(c)
    BY <1>1
  <2> QED
    BY <1>1, <2>1, ReadUpToIs
<1>3. ReadEntry(c, p) = IF h = <<>> THEN [kind |-> "eof"]
                        ELSE IF Len(h) \in 1..HeaderSize - 1 THEN [kind |-> "truncated"]
                        ELSE ReadEntry(c, p)
  BY DEF ReadEntry
<1> HIDE DEF h
<1>4. p # Len(c) => Len(h) \in 1..HeaderSize - 1
  BY <1>1, <1>2 DEF HeaderSize
<1> QED
  BY <1>1, <1>2, <1>3, <1>4

\* The header, when it is there.
LEMMA HeaderIs ==
    ASSUME NEW c, Numbers(c), NEW p \in Nat, p + HeaderSize <= Len(c),
           NEW h, h = ReadUpTo(c, p, HeaderSize)
    PROVE  /\ IsSeq(h) /\ Len(h) = HeaderSize /\ h # <<>> /\ ~(Len(h) \in 1..HeaderSize - 1)
           /\ h[1] = c[p + 1] /\ h[2] = c[p + 2] /\ h[3] = c[p + 3] /\ h[4] = c[p + 4]
<1>1. Len(c) \in Nat /\ HeaderSize \in Nat /\ IsSeq(c) /\ p <= Len(c)
  BY IsSeqLen DEF HeaderSize, Numbers
<1>2. IsSeq(h) /\ Len(h) = HeaderSize /\ \A i \in 1..HeaderSize : h[i] = c[p + i]
  <2>1. /\ IsSeq(h) /\ (p + HeaderSize <= Len(c) => Len(h) = HeaderSize)
        /\ \A i \in 1..Len(h) : h[i] = c[p + i]
    BY <1>1, ReadUpToIs
  <2> QED
    BY <2>1
<1> QED
  BY <1>2, IsSeqLen DEF HeaderSize

\* An entry of which the file has only a part.
LEMMA ReadTorn ==
    ASSUME NEW c, Numbers(c), NEW p \in Nat, p + HeaderSize <= Len(c), p + LenAt(c, p) > Len(c)
    PROVE  ReadEntry(c, p) = [kind |-> "truncated"]
<1> DEFINE h == ReadUpTo(c, p, HeaderSize)
           b == ReadUpTo(c, p + HeaderSize, KszAt(c, p) + VszAt(c, p))
<1>1. /\ IsSeq(h) /\ Len(h) = HeaderSize /\ h # <<>> /\ ~(Len(h) \in 1..HeaderSize - 1)
      /\ h[1] = c[p + 1] /\ h[2] = c[p + 2] /\ h[3] = c[p + 3] /\ h[4] = c[p + 4]
  BY HeaderIs
<1>2. /\ KszAt(c, p) \in Nat /\ VszAt(c, p) \in Nat /\ Len(c) \in Nat /\ IsSeq(c)
      /\ LenAt(c, p) = 4 + (KszAt(c, p) + VszAt(c, p)) /\ HeaderSize = 4
  BY LenAtIsNat, IsSeqLen DEF LenAt, HeaderSize, Numbers
<1>3. Len(b) < KszAt(c, p) + VszAt(c, p)
  <2> DEFINE q == p + HeaderSize
             n == KszAt(c, p) + VszAt(c, p)
  <2>1. q \in Nat /\ q <= Len(c) /\ n \in Nat /\ q + n > Len(c)
    BY <1>2
  <2>2. IsSeq(c)
    BY <1>2
  <2> HIDE DEF q, n
  <2>3. Len(ReadUpTo(c, q, n)) = Len(c) - q
    BY <2>1, <2>2, ReadUpToIs
  <2>4. Len(b) = Len(c) - q /\ q + n > Len(c)
    BY <2>1, <2>3 DEF q, n
  <2> QED
    BY <1>2, <2>1, <2>4 DEF n
<1>4. ReadEntry(c, p) = [kind |-> "truncated"]
  <2>1. KeySize(h[3].num) = KszAt(c, p) /\ h[4].num = VszAt(c, p)
    BY <1>1 DEF KszAt, VszAt
  <2> QED
    BY <1>1, <1>3, <2>1, Zenon DEF ReadEntry
<1> QED
  BY <1>4

\* A part of a part.
LEMMA PartOfPart ==
    ASSUME NEW c, IsSeq(c), NEW b, IsSeq(b), NEW q \in Nat, q + Len(b) <= Len(c),
           \A i \in 1..Len(b) : b[i] = c[q + i],
           NEW a \in Nat, NEW n \in Nat, a + n <= Len(b)
    PROVE  SubSeq(b, a + 1, a + n) = SubSeq(c, (q + a) + 1, (q + a) + n)
<1> DEFINE s == SubSeq(b, a + 1, a + n)
           t == SubSeq(c, (q + a) + 1, (q + a) + n)
<1>1. Len(b) \in Nat /\ Len(c) \in Nat
  BY IsSeqLen
<1>2. IsSeq(s) /\ Len(s) = n /\ \A i \in 1..n : s[i] = b[a + i]
  BY ONLY IsSeq(b), a \in Nat, n \in Nat, a + n <= Len(b), TakeIs
<1>3. IsSeq(t) /\ Len(t) = n /\ \A i \in 1..n : t[i] = c[(q + a) + i]
  <2> DEFINE d == q + a
             u == SubSeq(c, d + 1, d + n)
  <2>1. d \in Nat /\ d + n <= Len(c)
    BY <1>1
  <2> HIDE DEF d
  <2>2. IsSeq(u) /\ Len(u) = n /\ \A i \in 1..n : u[i] = c[d + i]
    BY ONLY IsSeq(c), n \in Nat, <2>1, TakeIs
  <2> QED
    BY ONLY <2>2 DEF d
<1> HIDE DEF s, t
<1>4. ASSUME NEW i \in 1..n
      PROVE  s[i] = t[i]
  <2>1. a + i \in 1..Len(b) /\ q + (a + i) = (q + a) + i
    BY <1>1
  <2> QED
    BY <1>2, <1>3, <2>1
<1>5. s = t
  BY <1>2, <1>3, <1>4, SameCells
<1> QED
  BY <1>5 DEF s, t

\* An entry that the file has to its end: whole, or skipped for its CRC.
LEMMA ReadWhole ==
    ASSUME NEW c, Numbers(c), NEW p \in Nat, p + HeaderSize <= Len(c), p + LenAt(c, p) <= Len(c)
    PROVE  ReadEntry(c, p) =
               IF c[p + 1] # Crc(RestAt(c, p))
               THEN [kind |-> "crc", len |-> LenAt(c, p)]
               ELSE [kind |-> "ok", len |-> LenAt(c, p), entry |-> FoundAt(c, p)]
<1> DEFINE h == ReadUpTo(c, p, HeaderSize)
           b == ReadUpTo(c, p + HeaderSize, KszAt(c, p) + VszAt(c, p))
           k == KszAt(c, p)
           v == VszAt(c, p)
<1>1. /\ IsSeq(h) /\ Len(h) = HeaderSize /\ h # <<>> /\ ~(Len(h) \in 1..HeaderSize - 1)
      /\ h[1] = c[p + 1] /\ h[2] = c[p + 2] /\ h[3] = c[p + 3] /\ h[4] = c[p + 4]
  BY HeaderIs
<1>2. /\ k \in Nat /\ v \in Nat /\ Len(c) \in Nat /\ IsSeq(c)
      /\ LenAt(c, p) = 4 + (k + v) /\ HeaderSize = 4
  BY LenAtIsNat, IsSeqLen DEF LenAt, HeaderSize, Numbers
<1>3. IsSeq(b) /\ Len(b) = k + v /\ \A i \in 1..k + v : b[i] = c[(p + HeaderSize) + i]
  <2> DEFINE q == p + HeaderSize
             n == k + v
  <2>1. q \in Nat /\ q <= Len(c) /\ n \in Nat /\ q + n <= Len(c) /\ IsSeq(c)
    BY <1>2
  <2>2. b = ReadUpTo(c, q, n)
    OBVIOUS
  <2> HIDE DEF q, n, b
  <2>3. IsSeq(b) /\ Len(b) = n /\ \A i \in 1..Len(b) : b[i] = c[q + i]
    BY <2>1, <2>2, ReadUpToIs
  <2> QED
    BY <2>3 DEF q, n
<1>4. KeySize(h[3].num) = k /\ h[4].num = v
  BY <1>1 DEF KszAt, VszAt
<1>5. Tail(h) \o b = RestAt(c, p)
  <2> HIDE DEF h
  <2> DEFINE t == Tail(h)
             r == t \o b
             u == SubSeq(c, (p + 1) + 1, (p + 1) + (3 + (k + v)))
  <2>1. t \in Seq(ToSet(h)) /\ Len(t) = Len(h) - 1 /\ \A i \in 1..Len(t) : t[i] = h[i + 1]
    BY <1>1, HeadTailProperties DEF IsSeq
  <2>2. IsSeq(t) /\ Len(t) = 3 /\ t[1] = c[p + 2] /\ t[2] = c[p + 3] /\ t[3] = c[p + 4]
    <3>1. IsSeq(t)
      BY <2>1, SeqIsSeq
    <3> HIDE DEF t
    <3>2. Len(t) = 3 /\ t[1] = h[2] /\ t[2] = h[3] /\ t[3] = h[4]
      BY <1>1, <1>2, <2>1
    <3> QED
      BY <1>1, <3>1, <3>2
  <2> HIDE DEF t, b
  <2>3. /\ IsSeq(r) /\ Len(r) = 3 + (k + v)
        /\ \A i \in 1..3 + (k + v) : r[i] = IF i <= 3 THEN t[i] ELSE b[i - 3]
    <3>1. IsSeq(b)
      BY <1>3
    <3>2. /\ IsSeq(r) /\ Len(r) = Len(t) + Len(b)
          /\ \A i \in 1..Len(t) + Len(b) : r[i] = IF i <= Len(t) THEN t[i] ELSE b[i - Len(t)]
      BY <2>2, <3>1, ConcatIsSeq
    <3> HIDE DEF r, k, v
    <3> QED
      BY <1>2, <1>3, <2>2, <3>2
  <2>4. IsSeq(u) /\ Len(u) = 3 + (k + v) /\ \A i \in 1..3 + (k + v) : u[i] = c[(p + 1) + i]
    <3>1. p + 1 \in Nat /\ 3 + (k + v) \in Nat /\ (p + 1) + (3 + (k + v)) <= Len(c) /\ IsSeq(c)
      BY <1>2
    <3> HIDE DEF k, v
    <3> QED
      BY <3>1, TakeIs
  <2>5. u = RestAt(c, p)
    <3>1. (p + 1) + 1 = p + 2 /\ (p + 1) + (3 + (k + v)) = p + LenAt(c, p)
      BY <1>2
    <3> QED
      BY <3>1 DEF RestAt
  <2> HIDE DEF r, u, k, v
  <2>6. ASSUME NEW i \in 1..3 + (k + v)
        PROVE  r[i] = u[i]
    <3>1. CASE i = 1
      <4>1. (p + 1) + i = p + 2
        BY <3>1
      <4> QED
        BY <1>2, <2>2, <2>3, <2>4, <3>1, <4>1
    <3>2. CASE i = 2
      <4>1. (p + 1) + i = p + 3
        BY <3>2
      <4> QED
        BY <1>2, <2>2, <2>3, <2>4, <3>2, <4>1
    <3>3. CASE i = 3
      <4>1. (p + 1) + i = p + 4
        BY <3>3
      <4> QED
        BY <1>2, <2>2, <2>3, <2>4, <3>3, <4>1
    <3>4. CASE i > 3
      <4>1. i - 3 \in 1..k + v /\ (p + HeaderSize) + (i - 3) = (p + 1) + i
        BY <1>2, <3>4
      <4>2. r[i] = b[i - 3]
        BY <2>3, <3>4
      <4>3. b[i - 3] = c[(p + 1) + i]
        BY <1>3, <4>1
      <4> QED
        BY <2>4, <4>2, <4>3
    <3> QED
      BY <1>2, <3>1, <3>2, <3>3, <3>4
  <2>7. r = u
    BY <2>3, <2>4, <2>6, SameCells
  <2> QED
    BY <2>5, <2>7 DEF r, t
<1>6. /\ SubSeq(b, 1, k) = SubSeq(c, p + HeaderSize + 1, p + HeaderSize + k)
      /\ SubSeq(b, k + 1, k + v) = SubSeq(c, p + HeaderSize + k + 1, p + LenAt(c, p))
  <2> DEFINE q == p + HeaderSize
  <2>1. IsSeq(c) /\ q \in Nat /\ q + (k + v) <= Len(c) /\ k \in Nat /\ v \in Nat
        /\ q + k + v = p + LenAt(c, p)
    BY <1>2
  <2>2. IsSeq(b) /\ Len(b) = k + v /\ \A i \in 1..k + v : b[i] = c[q + i]
    BY <1>3
  <2> HIDE DEF b, k, v, q
  <2>3. SubSeq(b, 0 + 1, 0 + k) = SubSeq(c, (q + 0) + 1, (q + 0) + k)
    <3>1. 0 \in Nat /\ 0 + k <= Len(b)
      BY <2>1, <2>2
    <3> QED
      BY <2>1, <2>2, <3>1, PartOfPart
  <2>4. SubSeq(b, k + 1, k + v) = SubSeq(c, (q + k) + 1, (q + k) + v)
    <3>1. k + v <= Len(b)
      BY <2>1, <2>2
    <3> QED
      BY <2>1, <2>2, <3>1, PartOfPart
  <2>5. 0 + 1 = 1 /\ 0 + k = k /\ q + 0 = q
    BY <2>1
  <2> QED
    BY <2>1, <2>3, <2>4, <2>5 DEF q
<1>7. ~(Len(b) < k + v)
  BY <1>2, <1>3
<1>8. ReadEntry(c, p) =
          IF h[1] # Crc(Tail(h) \o b)
          THEN [kind |-> "crc", len |-> HeaderSize + k + v]
          ELSE [kind  |-> "ok", len |-> HeaderSize + k + v,
                entry |-> [key |-> SubSeq(b, 1, k), value |-> SubSeq(b, k + 1, k + v),
                           tomb |-> IsTomb(h[3].num), tstamp |-> h[2].num, start |-> p,
                           value_pos |-> p + HeaderSize + k]]
  BY <1>1, <1>4, <1>7, Zenon DEF ReadEntry
<1>9. HeaderSize + k + v = LenAt(c, p)
  BY <1>2
<1> HIDE DEF b, h, v
<1> QED
  BY <1>1, <1>5, <1>6, <1>8, <1>9, Zenon DEF FoundAt

\* What the loop knows of what it read: it goes on only past an entry that the file has to
\* its end.
LEMMA ReadStep ==
    ASSUME NEW c, Numbers(c), NEW p \in 0..Len(c), SkipsCorrupt(ReadEntry(c, p))
    PROVE  /\ p + HeaderSize <= Len(c) /\ p + LenAt(c, p) <= Len(c)
           /\ ReadEntry(c, p).len = LenAt(c, p)
           /\ LenAt(c, p) \in Nat /\ LenAt(c, p) >= HeaderSize
<1>1. Len(c) \in Nat /\ p \in Nat /\ p <= Len(c) /\ HeaderSize \in Nat /\ IsSeq(c)
  BY IsSeqLen DEF HeaderSize, Numbers
<1>2. p + HeaderSize <= Len(c)
  <2>1. SUFFICES ASSUME p + HeaderSize > Len(c) PROVE FALSE
    BY <1>1
  <2>2. ReadEntry(c, p).kind \in {"eof", "truncated"}
    BY <1>1, <2>1, ReadNoHeader
  <2> QED
    BY <2>2 DEF SkipsCorrupt
<1>3. LenAt(c, p) \in Nat /\ LenAt(c, p) >= HeaderSize
  BY <1>1, <1>2, LenAtIsNat
<1>4. p + LenAt(c, p) <= Len(c)
  <2>1. SUFFICES ASSUME p + LenAt(c, p) > Len(c) PROVE FALSE
    BY <1>1, <1>3
  <2>2. ReadEntry(c, p).kind = "truncated"
    BY <1>1, <1>2, <2>1, ReadTorn
  <2> QED
    BY <2>2 DEF SkipsCorrupt
<1>5. ReadEntry(c, p).len = LenAt(c, p)
  BY <1>1, <1>2, <1>4, ReadWhole
<1> QED
  BY <1>2, <1>3, <1>4, <1>5

-----------------------------------------------------------------------------
(* The loop of scan_data_file, as an equation that has a solution.           *)

ScanBody(g, c, pos) ==
    LET r == ReadEntry(c, pos) IN
    (IF r.kind = "ok" THEN <<r.entry>> ELSE <<>>)
        \o (IF SkipsCorrupt(r) THEN g[pos + r.len] ELSE <<>>)

IsScan(g, c, low) == g = [pos \in low..Len(c) |-> ScanBody(g, c, pos)]

From(c) == CHOOSE g : IsScan(g, c, 0)

LEMMA ScanIsFrom ==
    ASSUME NEW c
    PROVE  Scan(c) = From(c)[0]
BY DEF Scan, From, IsScan, ScanBody

\* No set of numbers that has 0 and the successor of each of its numbers misses one.
NatLess == {d \in Nat \X Nat : d[1] < d[2]}

LEMMA NatSetInduction ==
    ASSUME NEW S, 0 \in S, \A n \in Nat : n \in S => n + 1 \in S
    PROVE  Nat \subseteq S
<1>1. SUFFICES ASSUME Nat \ S # {} PROVE FALSE
  OBVIOUS
<1>2. IsWellFoundedOn(NatLess, Nat)
  BY NatLessThanWellFounded DEF OpToRel, NatLess
<1>3. PICK m \in Nat \ S : \A y \in Nat \ S : <<y, m>> \notin NatLess
  <2>1. Nat \ S \subseteq Nat
    OBVIOUS
  <2> QED
    BY <1>1, <1>2, <2>1, WFMin
<1>4. m - 1 \in Nat /\ <<m - 1, m>> \in NatLess
  BY DEF NatLess
<1>5. (m - 1) + 1 \in S
  BY <1>3, <1>4
<1> QED
  BY <1>5

\* The body at pos looks only past what is read there.
LEMMA ScanBodyLocal ==
    ASSUME NEW c, Numbers(c), NEW pos \in 0..Len(c), NEW f, NEW g,
           \A q \in pos + 1..Len(c) : f[q] = g[q]
    PROVE  ScanBody(f, c, pos) = ScanBody(g, c, pos)
<1> DEFINE r == ReadEntry(c, pos)
<1>1. SkipsCorrupt(r) => f[pos + r.len] = g[pos + r.len]
  <2>1. SUFFICES ASSUME SkipsCorrupt(r) PROVE f[pos + r.len] = g[pos + r.len]
    OBVIOUS
  <2>2. r.len \in Nat /\ r.len >= 4 /\ pos + r.len <= Len(c) /\ Len(c) \in Nat
    BY <2>1, ReadStep, IsSeqLen DEF HeaderSize, Numbers
  <2> HIDE DEF r
  <2>3. pos + r.len \in pos + 1..Len(c)
    BY <2>2
  <2> QED
    BY <2>3
<1> HIDE DEF r
<1>2. (IF SkipsCorrupt(r) THEN f[pos + r.len] ELSE <<>>)
          = (IF SkipsCorrupt(r) THEN g[pos + r.len] ELSE <<>>)
  BY <1>1
<1> QED
  BY <1>2 DEF ScanBody, r

\* It gives a sequence if they are sequences there.
LEMMA ScanBodyIsSeq ==
    ASSUME NEW c, Numbers(c), NEW pos \in 0..Len(c), NEW g,
           \A q \in pos + 1..Len(c) : IsSeq(g[q])
    PROVE  IsSeq(ScanBody(g, c, pos))
<1> DEFINE r == ReadEntry(c, pos)
           a == IF r.kind = "ok" THEN <<r.entry>> ELSE <<>>
           b == IF SkipsCorrupt(r) THEN g[pos + r.len] ELSE <<>>
<1>1. IsSeq(<<>>)
  BY SeqIsSeq, EmptySeq
<1>2. IsSeq(a)
  BY <1>1, OneIsSeq
<1>3. IsSeq(b)
  <2>1. CASE ~SkipsCorrupt(r)
    BY <1>1, <2>1
  <2>2. CASE SkipsCorrupt(r)
    <3>1. r.len \in Nat /\ r.len >= 4 /\ pos + r.len <= Len(c) /\ Len(c) \in Nat
      BY <2>2, ReadStep, IsSeqLen DEF HeaderSize, Numbers
    <3> HIDE DEF r
    <3>2. pos + r.len \in pos + 1..Len(c)
      BY <3>1
    <3> QED
      BY <2>2, <3>2
  <2> QED
    BY <2>1, <2>2
<1>4. ScanBody(g, c, pos) = a \o b
  BY DEF ScanBody
<1> HIDE DEF a, b
<1> QED
  BY <1>2, <1>3, <1>4, ConcatIsSeq

\* The loop ends from everywhere.
LEMMA ScanExists ==
    ASSUME NEW c, Numbers(c)
    PROVE  \E g : IsScan(g, c, 0)
<1> DEFINE S == {n \in Nat : n <= Len(c) + 1 => \E g : IsScan(g, c, (Len(c) + 1) - n)}
<1>1. Len(c) \in Nat
  BY IsSeqLen DEF Numbers
<1>2. 0 \in S
  <2> DEFINE low == (Len(c) + 1) - 0
             g   == [pos \in low..Len(c) |-> <<>>]
  <2>1. low..Len(c) = {}
    BY <1>1
  <2>2. IsScan(g, c, low)
    BY <2>1 DEF IsScan
  <2> QED
    BY <2>2
<1>3. ASSUME NEW n \in Nat, n \in S
      PROVE  n + 1 \in S
  <2>1. SUFFICES ASSUME n + 1 <= Len(c) + 1
                 PROVE  \E g : IsScan(g, c, (Len(c) + 1) - (n + 1))
    OBVIOUS
  <2>2. PICK g : IsScan(g, c, (Len(c) + 1) - n)
    BY <1>1, <1>3, <2>1
  <2> DEFINE low == (Len(c) + 1) - (n + 1)
             f   == [pos \in low..Len(c) |-> IF pos = low THEN ScanBody(g, c, low) ELSE g[pos]]
  <2>3. low \in 0..Len(c) /\ (Len(c) + 1) - n = low + 1
    BY <1>1, <2>1
  <2>4. g = [pos \in low + 1..Len(c) |-> ScanBody(g, c, pos)]
    BY <2>2, <2>3 DEF IsScan
  <2> HIDE DEF low
  <2>5. ASSUME NEW pos \in low..Len(c)
        PROVE  f[pos] = ScanBody(f, c, pos)
    <3>1. \A q \in pos + 1..Len(c) : f[q] = g[q]
      BY <1>1, <2>3
    <3>2. pos \in 0..Len(c)
      BY <1>1, <2>3
    <3> HIDE DEF f
    <3>3. ScanBody(f, c, pos) = ScanBody(g, c, pos)
      BY <3>1, <3>2, ScanBodyLocal
    <3>4. f[pos] = ScanBody(g, c, pos)
      <4>1. CASE pos = low
        BY <4>1 DEF f
      <4>2. CASE pos # low
        <5>1. pos \in low + 1..Len(c)
          BY <1>1, <2>3, <4>2
        <5>2. g[pos] = ScanBody(g, c, pos)
          BY <2>4, <5>1, Zenon
        <5> QED
          BY <4>2, <5>2 DEF f
      <4> QED
        BY <4>1, <4>2
    <3> QED
      BY <3>3, <3>4
  <2>6. IsScan(f, c, low)
    <3>1. f = [pos \in low..Len(c) |-> f[pos]]
      OBVIOUS
    <3> HIDE DEF f
    <3> QED
      BY <2>5, <3>1, Zenon DEF IsScan
  <2> HIDE DEF f
  <2> QED
    BY <2>6 DEF low
<1> HIDE DEF S
<1>4. Nat \subseteq S
  BY <1>2, <1>3, NatSetInduction
<1>5. Len(c) + 1 \in S
  BY <1>1, <1>4
<1>6. PICK g : IsScan(g, c, (Len(c) + 1) - (Len(c) + 1))
  BY <1>1, <1>5 DEF S
<1>7. (Len(c) + 1) - (Len(c) + 1) = 0
  BY <1>1
<1> QED
  BY <1>6, <1>7

\* What the scan finds from a position on: what is read there, and what follows.
LEMMA FromIs ==
    ASSUME NEW c, Numbers(c), NEW pos \in 0..Len(c)
    PROVE  From(c)[pos] = ScanBody(From(c), c, pos) /\ IsSeq(From(c)[pos])
<1> DEFINE g == From(c)
           S == {n \in Nat : \A p \in 0..Len(c) : Len(c) - p < n => IsSeq(g[p])}
<1>1. IsScan(g, c, 0)
  BY ScanExists DEF From
<1> HIDE DEF g
<1>2. \A p \in 0..Len(c) : g[p] = ScanBody(g, c, p)
  <2>1. g = [p \in 0..Len(c) |-> ScanBody(g, c, p)]
    BY <1>1 DEF IsScan
  <2> QED
    BY <2>1, Zenon
<1>3. Len(c) \in Nat
  BY IsSeqLen DEF Numbers
<1>4. 0 \in S
  BY <1>3
<1>5. ASSUME NEW n \in Nat, n \in S
      PROVE  n + 1 \in S
  <2>1. ASSUME NEW p \in 0..Len(c), Len(c) - p < n + 1
        PROVE  IsSeq(g[p])
    <3>1. \A q \in p + 1..Len(c) : IsSeq(g[q])
      BY <1>3, <1>5, <2>1
    <3> QED
      BY <1>2, <3>1, ScanBodyIsSeq
  <2> QED
    BY <2>1
<1> HIDE DEF S
<1>6. Nat \subseteq S
  BY <1>4, <1>5, NatSetInduction
<1>7. IsSeq(g[pos])
  <2>1. Len(c) - pos + 1 \in S /\ Len(c) - pos < Len(c) - pos + 1
    BY <1>3, <1>6
  <2> QED
    BY <2>1 DEF S
<1> QED
  BY <1>2, <1>7 DEF g

-----------------------------------------------------------------------------
(* Entries that the format can hold.                                         *)

\* The sizes fit (KeyTooLong.cfg shows what becomes of a key that is too long), no key is
\* empty (put and delete reject it), and each cell holds a number.
Fits(e) ==
    /\ e.tomb \in BOOLEAN /\ e.tstamp \in 0..Base - 1
    /\ Len(e.key) \in 1..MaxKeyLen /\ Numbers(e.key)
    /\ Len(e.value) < Base /\ Numbers(e.value)

\* A size below the base is itself.
LEMMA ModBase ==
    ASSUME NEW n \in Nat, NEW b \in Nat, n < b
    PROVE  n % b = n
OBVIOUS

LEMMA ModFlag ==
    ASSUME NEW n \in Nat, NEW b \in Nat, n < b
    PROVE  (n + b) % b = n
OBVIOUS

\* A key's size and the flag come back from one word.
LEMMA KeySizeFacts ==
    ASSUME NEW k \in 1..MaxKeyLen, NEW tomb \in BOOLEAN, NEW w, w = EncodeKeySize(k, tomb)
    PROVE  /\ w \in 1..Base - 1 /\ KeySize(w) = k /\ IsTomb(w) = tomb
<1> DEFINE T == TombstoneBit
<1>1. Base \in Nat /\ T \in Nat /\ T > 0 /\ Base = 2 * T /\ k \in Nat /\ k >= 1 /\ k < T
  BY BaseFacts DEF MaxKeyLen
<1>2. k % Base = k
  BY <1>1, ModBase
<1>3. w = IF tomb THEN k + T ELSE k
  BY <1>1, <1>2 DEF EncodeKeySize
<1> HIDE DEF T
<1>4. k % T = k /\ (k + T) % T = k
  BY <1>1, ModBase, ModFlag
<1>5. w \in 1..Base - 1 /\ (w >= T <=> tomb)
  BY <1>1, <1>3
<1>6. KeySize(w) = k
  BY <1>3, <1>4 DEF KeySize, T
<1>7. IsTomb(w) = tomb
  BY <1>5 DEF IsTomb, T
<1> QED
  BY <1>5, <1>6, <1>7

\* A CRC holds a number too; two contents have the same CRC only if they are the same.
LEMMA CrcFacts ==
    ASSUME NEW s, NEW t
    PROVE  /\ Crc(s).num \in 0..Base - 1
           /\ s # <<>> /\ Crc(t) = Crc(s) => t = s
           /\ s # <<>> => \A n : Number(n) # Crc(s)
<1>1. Base > 0 /\ Base \in Nat /\ CrcNum \in 0..Base - 1
  BY FormatAssumption
<1>2. Crc(s).num \in 0..Base - 1
  BY <1>1 DEF Crc, Number
<1>3. ASSUME s # <<>>, Crc(t) = Crc(s)
      PROVE  t = s
  <2>1. Crc(s).covers = s /\ Crc(t).covers = t
    BY <1>3 DEF Crc, Number
  <2> QED
    BY <1>3, <2>1
<1>4. ASSUME s # <<>>, NEW n
      PROVE  Number(n) # Crc(s)
  <2>1. Number(n).covers = <<>> /\ Crc(s).covers = s
    BY <1>4 DEF Crc, Number
  <2> QED
    BY <1>4, <2>1
<1> QED
  BY <1>2, <1>3, <1>4

\* The cells of an encoded entry: the sizes say how long the key and the value are, and the
\* CRC is that of all that follows it.
LEMMA EncodeIs ==
    ASSUME NEW e \in Entries, Fits(e), NEW enc, enc = EncodeEntry(e)
    PROVE  /\ Numbers(enc) /\ Len(e.key) \in Nat /\ Len(e.value) \in Nat
           /\ Len(enc) = HeaderSize + (Len(e.key) + Len(e.value))
           /\ KeySize(enc[3].num) = Len(e.key) /\ IsTomb(enc[3].num) = e.tomb
           /\ enc[4].num = Len(e.value) /\ enc[2].num = e.tstamp
           /\ enc[1] = Crc(SubSeq(enc, 2, Len(enc)))
           /\ SubSeq(enc, HeaderSize + 1, HeaderSize + Len(e.key)) = e.key
           /\ SubSeq(enc, HeaderSize + Len(e.key) + 1, Len(enc)) = e.value
<1> DEFINE w    == EncodeKeySize(Len(e.key), e.tomb)
           hd   == <<Number(e.tstamp), Number(w), Number(Len(e.value) % Base)>>
           k    == e.key
           v    == e.value
           head == hd \o k
           rest == head \o v
           crc  == <<Crc(rest)>>
<1>1. IsSeq(k) /\ IsSeq(v) /\ Len(k) \in Nat /\ Len(v) \in Nat /\ HeaderSize = 4
  BY IsSeqLen DEF Fits, Numbers, HeaderSize
<1>2. Base \in Nat /\ Base > 0
  BY BaseFacts
<1>3. /\ w \in 1..Base - 1 /\ KeySize(w) = Len(k) /\ IsTomb(w) = e.tomb
      /\ Len(v) % Base = Len(v) /\ Len(v) \in 0..Base - 1
  <2>1. Len(k) \in 1..MaxKeyLen /\ e.tomb \in BOOLEAN /\ Len(v) < Base
    BY DEF Fits
  <2>2. w \in 1..Base - 1 /\ KeySize(w) = Len(k) /\ IsTomb(w) = e.tomb
    BY <2>1, KeySizeFacts, Zenon
  <2>3. Len(v) % Base = Len(v) /\ Len(v) \in 0..Base - 1
    <3> DEFINE n == Len(v)
    <3>1. n \in Nat /\ n < Base /\ Base \in Nat
      BY <1>1, <1>2, <2>1
    <3> HIDE DEF n
    <3>2. n % Base = n /\ n \in 0..Base - 1
      BY <3>1, ModBase
    <3> QED
      BY <3>2 DEF n
  <2> QED
    BY <2>2, <2>3
<1>4. /\ IsSeq(hd) /\ Len(hd) = 3
      /\ hd[1] = Number(e.tstamp) /\ hd[2] = Number(w) /\ hd[3] = Number(Len(v))
  BY <1>3, ThreeIsSeq
<1>5. EncodeEntry(e) = crc \o rest
  BY DEF EncodeEntry
<1>6. \A i \in 1..Len(k) : k[i].num \in 0..Base - 1
  BY DEF Fits, Numbers
<1>7. \A i \in 1..Len(v) : v[i].num \in 0..Base - 1
  BY DEF Fits, Numbers
<1> HIDE DEF w, hd, k, v
<1>8. /\ IsSeq(head) /\ Len(head) = 3 + Len(k)
      /\ \A i \in 1..3 + Len(k) : head[i] = IF i <= 3 THEN hd[i] ELSE k[i - 3]
  <2>1. /\ IsSeq(head) /\ Len(head) = Len(hd) + Len(k)
        /\ \A i \in 1..Len(hd) + Len(k) : head[i] = IF i <= Len(hd) THEN hd[i] ELSE k[i - Len(hd)]
    BY <1>1, <1>4, ConcatIsSeq
  <2> HIDE DEF head
  <2> QED
    BY <1>4, <2>1
<1> HIDE DEF head
<1>9. /\ IsSeq(rest) /\ Len(rest) = Len(head) + Len(v)
      /\ \A i \in 1..Len(head) + Len(v) :
            rest[i] = IF i <= Len(head) THEN head[i] ELSE v[i - Len(head)]
  BY <1>1, <1>8, ConcatIsSeq
<1> HIDE DEF rest
<1>10. IsSeq(crc) /\ Len(crc) = 1 /\ crc[1] = Crc(rest)
  BY OneIsSeq
<1> HIDE DEF crc
<1>11. /\ IsSeq(enc) /\ Len(enc) = 1 + Len(rest)
       /\ \A i \in 1..1 + Len(rest) : enc[i] = IF i <= 1 THEN crc[i] ELSE rest[i - 1]
  <2>1. /\ IsSeq(enc) /\ Len(enc) = Len(crc) + Len(rest)
        /\ \A i \in 1..Len(crc) + Len(rest) : enc[i] = IF i <= Len(crc) THEN crc[i] ELSE rest[i - Len(crc)]
    <3>1. IsSeq(crc) /\ IsSeq(rest) /\ enc = crc \o rest
      BY <1>5, <1>9, <1>10
    <3> QED
      BY ONLY <3>1, ConcatIsSeq
  <2> QED
    BY <1>10, <2>1
<1>12. Len(enc) = 4 + (Len(k) + Len(v)) /\ Len(rest) = 3 + (Len(k) + Len(v))
  BY <1>1, <1>8, <1>9, <1>11
<1>13. /\ enc[1] = Crc(rest) /\ enc[2] = Number(e.tstamp) /\ enc[3] = Number(w)
       /\ enc[4] = Number(Len(v))
       /\ \A i \in 1..Len(k) : enc[4 + i] = k[i]
       /\ \A i \in 1..Len(v) : enc[4 + Len(k) + i] = v[i]
  <2>1. enc[1] = crc[1] /\ enc[2] = rest[1] /\ enc[3] = rest[2] /\ enc[4] = rest[3]
    BY <1>1, <1>11, <1>12
  <2>2. rest[1] = hd[1] /\ rest[2] = hd[2] /\ rest[3] = hd[3]
    BY <1>1, <1>8, <1>9
  <2>3. ASSUME NEW i \in 1..Len(k) PROVE enc[4 + i] = k[i]
    <3>1. enc[4 + i] = rest[3 + i]
      BY <1>1, <1>11, <1>12
    <3>2. rest[3 + i] = head[3 + i]
      BY <1>1, <1>8, <1>9
    <3>3. head[3 + i] = k[i]
      BY <1>1, <1>8
    <3> QED
      BY <3>1, <3>2, <3>3
  <2>4. ASSUME NEW i \in 1..Len(v) PROVE enc[4 + Len(k) + i] = v[i]
    <3>1. enc[4 + Len(k) + i] = rest[3 + Len(k) + i]
      BY <1>1, <1>11, <1>12
    <3>2. rest[3 + Len(k) + i] = v[i]
      BY <1>1, <1>8, <1>9
    <3> QED
      BY <3>1, <3>2
  <2> QED
    BY <1>4, <1>10, <2>1, <2>2, <2>3, <2>4
<1>14. enc[2].num = e.tstamp /\ enc[3].num = w /\ enc[4].num = Len(v)
  BY <1>13 DEF Number
<1>15. SubSeq(enc, 2, Len(enc)) = rest
  <2> DEFINE u == SubSeq(enc, 1 + 1, 1 + Len(rest))
  <2>1. IsSeq(u) /\ Len(u) = Len(rest) /\ \A i \in 1..Len(rest) : u[i] = enc[1 + i]
    <3>1. Len(rest) \in Nat /\ 1 + Len(rest) <= Len(enc) /\ 1 \in Nat
      BY <1>1, <1>11, <1>12
    <3> QED
      BY <1>11, <3>1, TakeIs
  <2>2. 1 + 1 = 2 /\ 1 + Len(rest) = Len(enc)
    BY <1>11
  <2> HIDE DEF u
  <2>3. \A i \in 1..Len(rest) : u[i] = rest[i]
    <3> TAKE i \in 1..Len(rest)
    <3>1. enc[1 + i] = rest[i]
      BY <1>1, <1>11, <1>12
    <3> QED
      BY <2>1, <3>1
  <2>4. u = rest
    BY <1>9, <2>1, <2>3, SameCells
  <2> QED
    BY <2>2, <2>4 DEF u
<1>16. SubSeq(enc, 4 + 1, 4 + Len(k)) = k /\ SubSeq(enc, (4 + Len(k)) + 1, (4 + Len(k)) + Len(v)) = v
  <2>1. 4 \in Nat /\ 4 + Len(k) <= Len(enc) /\ 4 + Len(k) \in Nat
        /\ (4 + Len(k)) + Len(v) <= Len(enc)
    BY <1>1, <1>12
  <2>2. \A j \in 1..Len(v) : enc[(4 + Len(k)) + j] = v[j]
    BY <1>13
  <2> QED
    BY <1>1, <1>11, <1>13, <2>1, <2>2, SubSeqIs
<1>17. ASSUME NEW i \in 1..Len(enc)
       PROVE  enc[i].num \in 0..Base - 1
  <2>1. CASE i <= 4
    <3>1. i = 1 \/ i = 2 \/ i = 3 \/ i = 4
      BY <2>1
    <3>2. e.tstamp \in 0..Base - 1
      BY DEF Fits
    <3> QED
      BY <1>3, <3>2, <1>13, <1>14, <3>1, CrcFacts
  <2>2. CASE i > 4 /\ i <= 4 + Len(k)
    <3>1. i - 4 \in 1..Len(k) /\ 4 + (i - 4) = i
      BY <1>1, <2>2
    <3> QED
      BY <1>6, <1>13, <3>1 DEF k
  <2>3. CASE i > 4 + Len(k)
    <3>1. i - (4 + Len(k)) \in 1..Len(v) /\ 4 + Len(k) + (i - (4 + Len(k))) = i
      BY <1>1, <1>12, <2>3
    <3> QED
      BY <1>7, <1>13, <3>1 DEF v
  <2> QED
    BY <1>1, <2>1, <2>2, <2>3
<1>18. (4 + Len(k)) + Len(v) = Len(enc)
  BY <1>1, <1>12
<1> QED
  BY <1>1, <1>3, <1>11, <1>12, <1>13, <1>14, <1>15, <1>16, <1>17, <1>18 DEF Numbers, k, v

-----------------------------------------------------------------------------
(* An entry that is there, a part of one, and a rotten one.                 *)

\* The first n cells of enc are in c after p.
Has(c, p, enc, n) == p + n <= Len(c) /\ \A j \in 1..n : c[p + j] = enc[j]

\* With the sizes of an entry in place, the entry is as long as they say.
LEMMA SizesRead ==
    ASSUME NEW e \in Entries, Fits(e), NEW enc, enc = EncodeEntry(e),
           NEW c, NEW p \in Nat, c[p + 3] = enc[3], c[p + 4] = enc[4]
    PROVE  KszAt(c, p) = Len(e.key) /\ VszAt(c, p) = Len(e.value) /\ LenAt(c, p) = Len(enc)
<1>1. /\ KeySize(enc[3].num) = Len(e.key) /\ enc[4].num = Len(e.value)
      /\ Len(enc) = HeaderSize + (Len(e.key) + Len(e.value))
  BY EncodeIs
<1>2. KszAt(c, p) = Len(e.key) /\ VszAt(c, p) = Len(e.value)
  BY <1>1, Zenon DEF KszAt, VszAt
<1> QED
  BY <1>1, <1>2, Zenon DEF LenAt

\* No encoding is shorter than its header.
LEMMA EncodeLong ==
    ASSUME NEW e \in Entries, Fits(e), NEW enc, enc = EncodeEntry(e)
    PROVE  /\ IsSeq(enc) /\ Numbers(enc) /\ Len(enc) \in Nat /\ Len(enc) >= 4
           /\ enc[1] = Crc(SubSeq(enc, 2, Len(enc)))
<1> DEFINE k == Len(e.key)
           v == Len(e.value)
<1>1. /\ k \in Nat /\ v \in Nat /\ Len(enc) = 4 + (k + v) /\ IsSeq(enc) /\ Numbers(enc)
      /\ enc[1] = Crc(SubSeq(enc, 2, Len(enc)))
  BY EncodeIs DEF HeaderSize, Numbers
<1> HIDE DEF k, v
<1> QED
  BY <1>1

\* What is found for an entry whose encoding starts at p (scan_data_file, apply).
Found(e, p) ==
    [key |-> e.key, value |-> e.value, tomb |-> e.tomb, tstamp |-> e.tstamp, start |-> p,
     value_pos |-> p + (Len(EncodeEntry(e)) - Len(e.value))]

\* A whole entry is read as it was encoded.
LEMMA WholeRead ==
    ASSUME NEW e \in Entries, Fits(e), NEW enc, enc = EncodeEntry(e),
           NEW c, Numbers(c), NEW p \in Nat, Has(c, p, enc, Len(enc))
    PROVE  ReadEntry(c, p) = [kind |-> "ok", len |-> Len(enc), entry |-> Found(e, p)]
<1>1. /\ Numbers(enc) /\ Len(e.key) \in Nat /\ Len(e.value) \in Nat
      /\ Len(enc) = HeaderSize + (Len(e.key) + Len(e.value))
      /\ IsTomb(enc[3].num) = e.tomb /\ enc[2].num = e.tstamp
      /\ enc[1] = Crc(SubSeq(enc, 2, Len(enc)))
      /\ SubSeq(enc, HeaderSize + 1, HeaderSize + Len(e.key)) = e.key
      /\ SubSeq(enc, HeaderSize + Len(e.key) + 1, Len(enc)) = e.value
  BY EncodeIs
<1> DEFINE k == Len(e.key)
           v == Len(e.value)
<1>2. k \in Nat /\ v \in Nat /\ Len(enc) = 4 + (k + v) /\ HeaderSize = 4 /\ IsSeq(enc)
      /\ IsSeq(c) /\ p + Len(enc) <= Len(c) /\ Len(enc) \in Nat /\ Len(c) \in Nat
  BY <1>1, IsSeqLen DEF HeaderSize, Numbers, Has
<1>3. c[p + 1] = enc[1] /\ c[p + 2] = enc[2] /\ c[p + 3] = enc[3] /\ c[p + 4] = enc[4]
  <2>1. 1 \in 1..Len(enc) /\ 2 \in 1..Len(enc) /\ 3 \in 1..Len(enc) /\ 4 \in 1..Len(enc)
    BY EncodeLong
  <2> QED
    BY <2>1 DEF Has
<1>4. KszAt(c, p) = k /\ VszAt(c, p) = v /\ LenAt(c, p) = Len(enc)
  BY <1>3, SizesRead
<1>5. \A i \in 1..Len(enc) : enc[i] = c[p + i]
  BY DEF Has
<1>0. /\ SubSeq(enc, HeaderSize + 1, HeaderSize + k) = e.key
      /\ SubSeq(enc, HeaderSize + k + 1, Len(enc)) = e.value
  BY <1>1
<1> HIDE DEF k, v
<1>6. RestAt(c, p) = SubSeq(enc, 2, Len(enc))
  <2>1. 1 \in Nat /\ 3 + (k + v) \in Nat /\ 1 + (3 + (k + v)) <= Len(enc)
        /\ p + Len(enc) <= Len(c)
    BY <1>2
  <2>2. SubSeq(enc, 1 + 1, 1 + (3 + (k + v))) = SubSeq(c, (p + 1) + 1, (p + 1) + (3 + (k + v)))
    BY <1>2, <1>5, <2>1, PartOfPart
  <2>3. 1 + 1 = 2 /\ 1 + (3 + (k + v)) = Len(enc) /\ (p + 1) + 1 = p + 2
        /\ (p + 1) + (3 + (k + v)) = p + Len(enc)
    BY <1>2
  <2> QED
    BY <1>4, <2>2, <2>3 DEF RestAt
<1>7. SubSeq(c, p + HeaderSize + 1, p + HeaderSize + k) = e.key
  <2>1. HeaderSize \in Nat /\ HeaderSize + k <= Len(enc) /\ p + Len(enc) <= Len(c)
    BY <1>2
  <2>2. SubSeq(enc, HeaderSize + 1, HeaderSize + k)
            = SubSeq(c, (p + HeaderSize) + 1, (p + HeaderSize) + k)
    BY <1>2, <1>5, <2>1, PartOfPart
  <2> QED
    BY <1>0, <2>2
<1>8. SubSeq(c, p + HeaderSize + k + 1, p + Len(enc)) = e.value
  <2> DEFINE a == HeaderSize + k
  <2>1. a \in Nat /\ a + v <= Len(enc) /\ p + Len(enc) <= Len(c)
    BY <1>2
  <2>2. SubSeq(enc, a + 1, a + v) = SubSeq(c, (p + a) + 1, (p + a) + v)
    BY <1>2, <1>5, <2>1, PartOfPart
  <2>3. a + v = Len(enc) /\ p + a = p + HeaderSize + k /\ (p + a) + v = p + Len(enc)
    BY <1>2
  <2> QED
    BY <1>0, <2>2, <2>3
<1>9. FoundAt(c, p) = Found(e, p)
  <2>1. p + HeaderSize + k = p + (Len(enc) - v)
    BY <1>2
  <2>2. FoundAt(c, p) = [key |-> e.key, value |-> e.value, tomb |-> e.tomb,
                         tstamp |-> e.tstamp, start |-> p,
                         value_pos |-> p + HeaderSize + k]
    BY <1>1, <1>3, <1>4, <1>7, <1>8, Zenon DEF FoundAt
  <2> QED
    BY <2>1, <2>2, Zenon DEF Found, v
<1>10. p + HeaderSize <= Len(c) /\ p + LenAt(c, p) <= Len(c)
  BY <1>2, <1>4
<1>11. c[p + 1] = Crc(RestAt(c, p))
  BY <1>1, <1>3, <1>6
<1> QED
  BY <1>4, <1>9, <1>10, <1>11, ReadWhole, Zenon

\* An entry of which the file has only a part is not found, nor anything after it.
LEMMA TornRead ==
    ASSUME NEW e \in Entries, Fits(e), NEW enc, enc = EncodeEntry(e),
           NEW c, Numbers(c), NEW p \in Nat, p <= Len(c), Len(c) < p + Len(enc),
           Has(c, p, enc, Len(c) - p)
    PROVE  ReadEntry(c, p).kind \in {"eof", "truncated"}
<1>1. Numbers(enc) /\ IsSeq(c) /\ Len(c) \in Nat /\ Len(enc) \in Nat /\ HeaderSize = 4
  BY EncodeLong, IsSeqLen DEF HeaderSize, Numbers
<1>2. CASE p + HeaderSize > Len(c)
  <2>1. p \in 0..Len(c)
    BY <1>1
  <2> QED
    BY <1>1, <1>2, <2>1, ReadNoHeader
<1>3. CASE p + HeaderSize <= Len(c)
  <2>1. 3 \in 1..Len(c) - p /\ 4 \in 1..Len(c) - p
    BY <1>1, <1>3
  <2>2. c[p + 3] = enc[3] /\ c[p + 4] = enc[4]
    BY <2>1 DEF Has
  <2>3. LenAt(c, p) = Len(enc)
    BY <2>2, SizesRead
  <2>4. p + LenAt(c, p) > Len(c)
    BY <1>1, <2>3
  <2> QED
    BY <1>3, <2>4, ReadTorn
<1> QED
  BY <1>1, <1>2, <1>3

\* The n cells of a file after a cell at p, but for that cell.
LEMMA TakeRest ==
    ASSUME NEW c, IsSeq(c), NEW p \in Nat, NEW n \in Nat, n >= 1, p + n <= Len(c)
    PROVE  /\ IsSeq(SubSeq(c, p + 2, p + n)) /\ Len(SubSeq(c, p + 2, p + n)) = n - 1
           /\ \A i \in 1..n - 1 : SubSeq(c, p + 2, p + n)[i] = c[p + (i + 1)]
<1> DEFINE q == p + 1
           m == n - 1
           u == SubSeq(c, q + 1, q + m)
<1>1. q \in Nat /\ m \in Nat /\ q + m <= Len(c) /\ q + 1 = p + 2 /\ q + m = p + n
      /\ \A i \in 1..m : q + i = p + (i + 1)
  BY IsSeqLen
<1> HIDE DEF q, m
<1>2. u = SubSeq(c, p + 2, p + n)
  BY <1>1
<1>3. IsSeq(u) /\ Len(u) = m /\ \A i \in 1..m : u[i] = c[q + i]
  <2>1. IsSeq(c) /\ q \in Nat /\ m \in Nat /\ q + m <= Len(c)
    BY <1>1
  <2> QED
    BY ONLY <2>1, TakeIs
<1> HIDE DEF u
<1> QED
  BY <1>1, <1>2, <1>3 DEF m

\* The cells of enc are in c after p, but for the r-th, which is no size: that is n instead.
HasBut(c, p, enc, r, n) ==
    /\ p + Len(enc) <= Len(c) /\ r \in 1..Len(enc) /\ r \notin {3, 4}
    /\ \A j \in 1..Len(enc) : j # r => c[p + j] = enc[j]
    /\ c[p + r] = Number(n) /\ enc[r] # Number(n)

\* An entry with one cell rotted, not a size, is skipped.
LEMMA RottenRead ==
    ASSUME NEW e \in Entries, Fits(e), NEW enc, enc = EncodeEntry(e),
           NEW c, Numbers(c), NEW p \in Nat, NEW r, NEW n, HasBut(c, p, enc, r, n)
    PROVE  ReadEntry(c, p) = [kind |-> "crc", len |-> Len(enc)]
<1>0. /\ p + Len(enc) <= Len(c) /\ r \in 1..Len(enc) /\ r \notin {3, 4}
      /\ \A j \in 1..Len(enc) : j # r => c[p + j] = enc[j]
      /\ c[p + r] = Number(n) /\ enc[r] # Number(n)
  BY DEF HasBut
<1> USE <1>0
<1>1. /\ enc[1] = Crc(SubSeq(enc, 2, Len(enc)))
      /\ IsSeq(c) /\ IsSeq(enc) /\ Len(c) \in Nat /\ Len(enc) \in Nat /\ Len(enc) >= 4
      /\ HeaderSize = 4
  BY EncodeLong, IsSeqLen DEF HeaderSize, Numbers
<1>2. c[p + 3] = enc[3] /\ c[p + 4] = enc[4]
  <2>1. 3 \in 1..Len(enc) /\ 4 \in 1..Len(enc) /\ 3 # r /\ 4 # r
    BY <1>1
  <2> QED
    BY <2>1
<1>3. LenAt(c, p) = Len(enc)
  BY <1>2, SizesRead
<1> DEFINE s == RestAt(c, p)
           t == SubSeq(enc, 2, Len(enc))
<1>4. IsSeq(s) /\ Len(s) = Len(enc) - 1 /\ \A i \in 1..Len(enc) - 1 : s[i] = c[p + (i + 1)]
  <2> DEFINE m == Len(enc)
             u == SubSeq(c, p + 2, p + m)
  <2>1. u = s /\ m \in Nat /\ m >= 1 /\ p + m <= Len(c) /\ IsSeq(c)
    BY <1>1, <1>3 DEF RestAt
  <2> HIDE DEF m
  <2>2. IsSeq(u) /\ Len(u) = m - 1 /\ \A i \in 1..m - 1 : u[i] = c[p + (i + 1)]
    BY ONLY p \in Nat, <2>1, TakeRest
  <2> QED
    BY <2>1, <2>2 DEF m
<1>5. IsSeq(t) /\ Len(t) = Len(enc) - 1 /\ \A i \in 1..Len(enc) - 1 : t[i] = enc[i + 1]
  <2> DEFINE m == Len(enc)
             z == 0
             u == SubSeq(enc, z + 2, z + m)
  <2>1. m \in Nat /\ m >= 1 /\ z \in Nat /\ z + m <= Len(enc) /\ u = t /\ IsSeq(enc)
    BY <1>1
  <2> HIDE DEF m, z
  <2>2. IsSeq(u) /\ Len(u) = m - 1 /\ \A i \in 1..m - 1 : u[i] = enc[z + (i + 1)]
    BY ONLY <2>1, TakeRest
  <2> HIDE DEF u, t
  <2> QED
    BY <2>1, <2>2 DEF z, m
<1> HIDE DEF s, t
<1>6. s # <<>> /\ t # <<>>
  BY <1>1, <1>4, <1>5, IsSeqLen
<1>7. c[p + 1] # Crc(s)
  <2>1. CASE r = 1
    BY <1>6, <2>1, CrcFacts
  <2>2. CASE r # 1
    <3>1. c[p + 1] = Crc(t)
      BY <1>1, <2>2 DEF t
    <3>2. r - 1 \in 1..Len(enc) - 1 /\ (r - 1) + 1 = r
      BY <1>1, <2>2
    <3>3. s[r - 1] = Number(n) /\ t[r - 1] = enc[r]
      BY <1>4, <1>5, <3>2
    <3>4. s # t
      BY <3>3
    <3> QED
      BY <1>6, <3>1, <3>4, CrcFacts
  <2> QED
    BY <2>1, <2>2
<1>8. p + HeaderSize <= Len(c) /\ p + LenAt(c, p) <= Len(c)
  BY <1>1, <1>3
<1>9. ReadEntry(c, p) = IF c[p + 1] # Crc(RestAt(c, p))
                        THEN [kind |-> "crc", len |-> LenAt(c, p)]
                        ELSE [kind |-> "ok", len |-> LenAt(c, p), entry |-> FoundAt(c, p)]
  BY ONLY Numbers(c), p \in Nat, <1>8, ReadWhole
<1> QED
  BY ONLY <1>3, <1>7, <1>9, Zenon DEF s

-----------------------------------------------------------------------------
(* What the loop finds along a row of entries.                               *)

\* An entry that is read is found first, before what follows it.
LEMMA FromOk ==
    ASSUME NEW c, Numbers(c), NEW p \in 0..Len(c), NEW n, NEW x,
           ReadEntry(c, p) = [kind |-> "ok", len |-> n, entry |-> x]
    PROVE  /\ p + n \in 0..Len(c) /\ IsSeq(From(c)[p]) /\ IsSeq(From(c)[p + n])
           /\ Len(From(c)[p]) = 1 + Len(From(c)[p + n]) /\ From(c)[p][1] = x
           /\ \A j \in 1..Len(From(c)[p + n]) : From(c)[p][1 + j] = From(c)[p + n][j]
<1>1. ReadEntry(c, p).kind = "ok" /\ ReadEntry(c, p).len = n /\ ReadEntry(c, p).entry = x
      /\ SkipsCorrupt(ReadEntry(c, p))
  BY DEF SkipsCorrupt
<1>2. Len(c) \in Nat /\ n \in Nat /\ p + n <= Len(c)
  BY <1>1, ReadStep, IsSeqLen DEF Numbers
<1>3. p + n \in 0..Len(c)
  BY <1>2
<1>4. From(c)[p] = <<x>> \o From(c)[p + n]
  BY <1>1, FromIs DEF ScanBody
<1> DEFINE r == From(c)[p + n]
           one == <<x>>
           g == From(c)[p]
<1>5. IsSeq(r) /\ IsSeq(g)
  BY <1>3, FromIs
<1>6. IsSeq(one) /\ Len(one) = 1 /\ one[1] = x
  BY OneIsSeq
<1>7. g = one \o r
  BY <1>4
<1> HIDE DEF r, one, g
<1>8. /\ Len(one \o r) = Len(one) + Len(r)
      /\ \A i \in 1..Len(one) + Len(r) : (one \o r)[i] = IF i <= Len(one) THEN one[i] ELSE r[i - Len(one)]
  BY <1>5, <1>6, ConcatIsSeq
<1>9. Len(r) \in Nat
  BY <1>5, IsSeqLen
<1>10. Len(g) = 1 + Len(r) /\ g[1] = x
  BY <1>6, <1>7, <1>8, <1>9
<1>11. ASSUME NEW j \in 1..Len(r) PROVE g[1 + j] = r[j]
  <2>1. 1 + j \in 1..1 + Len(r) /\ ~(1 + j <= 1) /\ (1 + j) - 1 = j
    BY <1>9
  <2> QED
    BY <1>6, <1>7, <1>8, <2>1
<1> QED
  BY <1>3, <1>5, <1>10, <1>11 DEF r, g

\* Nothing before a sequence leaves it as it is.
LEMMA EmptyBefore ==
    ASSUME NEW s, IsSeq(s)
    PROVE  <<>> \o s = s
BY ConcatEmptySeq DEF IsSeq

\* An entry that is skipped leaves what follows it.
LEMMA FromCrc ==
    ASSUME NEW c, Numbers(c), NEW p \in 0..Len(c), NEW n,
           ReadEntry(c, p) = [kind |-> "crc", len |-> n]
    PROVE  p + n \in 0..Len(c) /\ From(c)[p] = From(c)[p + n]
<1>1. /\ ReadEntry(c, p).kind = "crc" /\ ReadEntry(c, p).len = n
      /\ SkipsCorrupt(ReadEntry(c, p))
  BY DEF SkipsCorrupt
<1>2. Len(c) \in Nat /\ n \in Nat /\ p + n <= Len(c)
  BY <1>1, ReadStep, IsSeqLen DEF Numbers
<1>3. p + n \in 0..Len(c)
  BY <1>2
<1>4. From(c)[p] = <<>> \o From(c)[p + n]
  BY <1>1, FromIs DEF ScanBody
<1>5. IsSeq(From(c)[p + n])
  BY <1>3, FromIs
<1> QED
  BY <1>3, <1>4, <1>5, EmptyBefore

\* At the end, or at a torn entry, nothing is found any more.
LEMMA FromEnd ==
    ASSUME NEW c, Numbers(c), NEW p \in 0..Len(c),
           ReadEntry(c, p).kind \in {"eof", "truncated"}
    PROVE  From(c)[p] = <<>>
<1>1. ReadEntry(c, p).kind # "ok" /\ ~SkipsCorrupt(ReadEntry(c, p))
  BY DEF SkipsCorrupt
<1>2. From(c)[p] = <<>> \o <<>>
  BY <1>1, FromIs DEF ScanBody
<1>3. IsSeq(<<>>)
  BY SeqIsSeq, EmptySeq
<1> QED
  BY <1>2, <1>3, EmptyBefore

\* K entries in a row, the i-th between edges i - 1 and i.
Laid(es, edge, K) ==
    /\ K \in Nat
    /\ \A i \in 0..K : edge[i] \in Nat
    /\ \A i \in 1..K : /\ es[i] \in Entries /\ Fits(es[i])
                       /\ edge[i] = edge[i - 1] + Len(EncodeEntry(es[i]))

\* The i-th is in c where it belongs.
There(c, es, edge, i) == Has(c, edge[i - 1], EncodeEntry(es[i]), Len(EncodeEntry(es[i])))

\* g starts with what is found of the n entries after the first a, and r follows.
StartsWith(g, es, edge, a, n, r) ==
    /\ IsSeq(g) /\ IsSeq(r) /\ Len(g) = n + Len(r)
    /\ \A i \in 1..n : g[i] = Found(es[a + i], edge[a + i - 1])
    /\ \A j \in 1..Len(r) : g[n + j] = r[j]

\* Edges rise.
LEMMA EdgesRise ==
    ASSUME NEW es, NEW edge, NEW K, Laid(es, edge, K), NEW i \in 0..K, NEW j \in i..K
    PROVE  edge[i] <= edge[j] /\ (i < j => edge[i] < edge[j])
<1> DEFINE S == {n \in Nat : i + n <= K => edge[i] + n <= edge[i + n]}
<1>1. K \in Nat /\ edge[i] \in Nat
  BY DEF Laid
<1>2. 0 \in S
  BY <1>1
<1>3. ASSUME NEW n \in Nat, n \in S
      PROVE  n + 1 \in S
  <2>1. SUFFICES ASSUME i + (n + 1) <= K
                 PROVE  edge[i] + (n + 1) <= edge[i + (n + 1)]
    OBVIOUS
  <2>2. i + (n + 1) \in 1..K /\ (i + (n + 1)) - 1 = i + n /\ i + n \in 0..K /\ i + n <= K
    BY <1>1, <2>1
  <2> DEFINE m == i + (n + 1)
             l == i + n
  <2>3. m \in 1..K /\ m - 1 = l /\ l \in 0..K /\ l <= K
    BY <2>2
  <2>4. edge[i] + n <= edge[l]
    BY <1>3, <2>3
  <2> HIDE DEF m, l
  <2>5. edge[m] = edge[l] + Len(EncodeEntry(es[m])) /\ edge[l] \in Nat
        /\ Len(EncodeEntry(es[m])) \in Nat /\ Len(EncodeEntry(es[m])) >= 4
    <3>1. edge[m] = edge[m - 1] + Len(EncodeEntry(es[m])) /\ es[m] \in Entries /\ Fits(es[m])
          /\ edge[l] \in Nat
      BY <2>3 DEF Laid
    <3>2. Len(EncodeEntry(es[m])) \in Nat /\ Len(EncodeEntry(es[m])) >= 4
      BY <3>1, EncodeLong
    <3> QED
      BY <2>3, <3>1, <3>2
  <2>6. edge[i] + (n + 1) <= edge[m]
    BY <1>1, <2>4, <2>5
  <2> QED
    BY <2>6 DEF m
<1> HIDE DEF S
<1>4. Nat \subseteq S
  BY <1>2, <1>3, NatSetInduction
<1>5. j - i \in Nat /\ i + (j - i) = j /\ j <= K /\ edge[j] \in Nat
  BY <1>1 DEF Laid
<1>6. edge[i] + (j - i) <= edge[i + (j - i)]
  <2>1. j - i \in S
    BY <1>4, <1>5
  <2> QED
    BY <1>5, <2>1 DEF S
<1>7. edge[i] + (j - i) <= edge[j]
  BY <1>5, <1>6
<1> QED
  BY <1>1, <1>5, <1>7

\* The last edge at or before n.
LEMMA LastEdge ==
    ASSUME NEW es, NEW edge, NEW K, Laid(es, edge, K), NEW n \in Nat, edge[0] <= n
    PROVE  \E k \in 0..K : /\ \A i \in 0..k : edge[i] <= n
                           /\ \A i \in k + 1..K : n < edge[i]
<1>1. K \in Nat
  BY DEF Laid
<1> DEFINE S == {m \in Nat : m <= K => \/ edge[m] <= n
                                       \/ \E k \in 0..m - 1 : edge[k] <= n /\ n < edge[k + 1]}
<1>2. 0 \in S
  OBVIOUS
<1>3. ASSUME NEW m \in Nat, m \in S
      PROVE  m + 1 \in S
  <2>1. SUFFICES ASSUME m + 1 <= K
                 PROVE  \/ edge[m + 1] <= n
                        \/ \E k \in 0..(m + 1) - 1 : edge[k] <= n /\ n < edge[k + 1]
    OBVIOUS
  <2>2. edge[m + 1] \in Nat
    BY <1>1, <2>1 DEF Laid
  <2>3. CASE edge[m] <= n
    <3>1. m \in 0..(m + 1) - 1
      OBVIOUS
    <3> QED
      BY <2>2, <2>3, <3>1
  <2>4. CASE ~(edge[m] <= n)
    <3>1. PICK k \in 0..m - 1 : edge[k] <= n /\ n < edge[k + 1]
      BY <1>1, <1>3, <2>1, <2>4
    <3>2. k \in 0..(m + 1) - 1
      OBVIOUS
    <3> QED
      BY <3>1, <3>2
  <2> QED
    BY <2>3, <2>4
<1> HIDE DEF S
<1>4. Nat \subseteq S
  BY <1>2, <1>3, NatSetInduction
<1>5. \/ edge[K] <= n
      \/ \E k \in 0..K - 1 : edge[k] <= n /\ n < edge[k + 1]
  BY <1>1, <1>4 DEF S
<1>6. CASE edge[K] <= n
  <2>1. ASSUME NEW i \in 0..K PROVE edge[i] <= n
    <3>1. K \in i..K /\ edge[i] \in Nat /\ edge[K] \in Nat
      BY <1>1 DEF Laid
    <3>2. edge[i] <= edge[K]
      BY <3>1, EdgesRise
    <3> QED
      BY <1>6, <3>1, <3>2
  <2>2. K \in 0..K /\ K + 1..K = {}
    BY <1>1
  <2> QED
    BY <2>1, <2>2
<1>7. CASE \E k \in 0..K - 1 : edge[k] <= n /\ n < edge[k + 1]
  <2>1. PICK k \in 0..K - 1 : edge[k] <= n /\ n < edge[k + 1]
    BY <1>7
  <2>2. k \in 0..K /\ k + 1 \in 0..K /\ edge[k] \in Nat /\ edge[k + 1] \in Nat
    BY <1>1 DEF Laid
  <2>3. ASSUME NEW i \in 0..k PROVE edge[i] <= n
    <3>1. i \in 0..K /\ k \in i..K
      BY <1>1
    <3>2. edge[i] <= edge[k] /\ edge[i] \in Nat
      BY <3>1, EdgesRise DEF Laid
    <3> QED
      BY <2>1, <2>2, <3>2
  <2>4. ASSUME NEW i \in k + 1..K PROVE n < edge[i]
    <3>1. k + 1 \in 0..K /\ i \in (k + 1)..K /\ i \in 0..K
      BY <1>1
    <3>2. edge[k + 1] <= edge[i] /\ edge[i] \in Nat
      BY <3>1, EdgesRise DEF Laid
    <3> QED
      BY <2>1, <2>2, <3>2
  <2> QED
    BY <2>2, <2>3, <2>4
<1> QED
  BY <1>5, <1>6, <1>7

\* One whole entry more.
LEMMA ScanOne ==
    ASSUME NEW es, NEW edge, NEW K, Laid(es, edge, K), NEW c, Numbers(c),
           NEW i \in 1..K, There(c, es, edge, i)
    PROVE  /\ edge[i - 1] \in 0..Len(c) /\ edge[i] \in 0..Len(c)
           /\ IsSeq(From(c)[edge[i - 1]]) /\ IsSeq(From(c)[edge[i]])
           /\ Len(From(c)[edge[i - 1]]) = 1 + Len(From(c)[edge[i]])
           /\ From(c)[edge[i - 1]][1] = Found(es[i], edge[i - 1])
           /\ \A j \in 1..Len(From(c)[edge[i]]) :
                 From(c)[edge[i - 1]][1 + j] = From(c)[edge[i]][j]
<1> DEFINE enc == EncodeEntry(es[i])
           p   == edge[i - 1]
<1>1. /\ es[i] \in Entries /\ Fits(es[i]) /\ p \in Nat /\ edge[i] \in Nat
      /\ edge[i] = p + Len(enc) /\ Len(enc) \in Nat /\ Len(c) \in Nat
      /\ p + Len(enc) <= Len(c) /\ Has(c, p, enc, Len(enc))
  <2>1. i \in 0..K /\ i - 1 \in 0..K
    BY DEF Laid
  <2>2. es[i] \in Entries /\ Fits(es[i]) /\ p \in Nat /\ edge[i] \in Nat
        /\ edge[i] = p + Len(enc)
    BY <2>1 DEF Laid
  <2> QED
    BY <2>2, EncodeLong, IsSeqLen DEF There, Has, Numbers
<1>2. ReadEntry(c, p) = [kind |-> "ok", len |-> Len(enc), entry |-> Found(es[i], p)]
  BY <1>1, WholeRead
<1>3. p \in 0..Len(c) /\ edge[i] \in 0..Len(c)
  BY <1>1
<1> DEFINE n == Len(enc)
           x == Found(es[i], p)
<1>4. ReadEntry(c, p) = [kind |-> "ok", len |-> n, entry |-> x] /\ edge[i] = p + n
  BY <1>1, <1>2
<1> HIDE DEF p, n, x
<1>5. /\ IsSeq(From(c)[p]) /\ IsSeq(From(c)[p + n])
      /\ Len(From(c)[p]) = 1 + Len(From(c)[p + n]) /\ From(c)[p][1] = x
      /\ \A j \in 1..Len(From(c)[p + n]) : From(c)[p][1 + j] = From(c)[p + n][j]
  BY <1>3, <1>4, FromOk
<1> QED
  BY <1>3, <1>4, <1>5 DEF p, x

\* A row of whole entries is found, and then what follows it.
LEMMA ScanRow ==
    ASSUME NEW es, NEW edge, NEW K, Laid(es, edge, K), NEW c, Numbers(c),
           NEW a \in 0..K, NEW b \in a..K, edge[a] <= Len(c),
           \A i \in a + 1..b : There(c, es, edge, i)
    PROVE  /\ edge[b] \in 0..Len(c)
           /\ StartsWith(From(c)[edge[a]], es, edge, a, b - a, From(c)[edge[b]])
<1> DEFINE S == {n \in Nat : a + n <= b =>
                    /\ edge[a + n] \in 0..Len(c)
                    /\ StartsWith(From(c)[edge[a]], es, edge, a, n, From(c)[edge[a + n]])}
<1>1. K \in Nat /\ Len(c) \in Nat /\ edge[a] \in Nat
  BY IsSeqLen DEF Laid, Numbers
<1>2. 0 \in S
  <2>1. a + 0 = a /\ edge[a] \in 0..Len(c)
    BY <1>1
  <2> DEFINE g == From(c)[edge[a]]
  <2>2. IsSeq(g)
    BY <2>1, FromIs
  <2> HIDE DEF g
  <2>3. Len(g) \in Nat
    BY <2>2, IsSeqLen
  <2>4. StartsWith(g, es, edge, a, 0, g)
    BY <2>2, <2>3 DEF StartsWith
  <2> QED
    BY <2>1, <2>4 DEF g
<1>3. ASSUME NEW n \in Nat, n \in S
      PROVE  n + 1 \in S
  <2> DEFINE g == From(c)[edge[a]]
             r == From(c)[edge[a + n]]
             t == From(c)[edge[a + (n + 1)]]
  <2>1. SUFFICES ASSUME a + (n + 1) <= b
                 PROVE  /\ edge[a + (n + 1)] \in 0..Len(c)
                        /\ StartsWith(g, es, edge, a, n + 1, t)
    OBVIOUS
  <2>2. StartsWith(g, es, edge, a, n, r)
    BY <1>1, <1>3, <2>1
  <2> DEFINE i == a + (n + 1)
  <2>3. i \in 1..K /\ i \in a + 1..b /\ i - 1 = a + n
    BY <1>1, <2>1
  <2> HIDE DEF g
  <2>4. /\ edge[i] \in 0..Len(c) /\ IsSeq(r) /\ IsSeq(t) /\ Len(r) = 1 + Len(t)
        /\ r[1] = Found(es[i], edge[i - 1])
        /\ \A j \in 1..Len(t) : r[1 + j] = t[j]
    BY <2>3, ScanOne
  <2> HIDE DEF r, t
  <2>5. Len(t) \in Nat /\ Len(r) \in Nat
    BY <2>4, IsSeqLen
  <2>6. IsSeq(g) /\ Len(g) = (n + 1) + Len(t)
    BY <2>2, <2>4, <2>5 DEF StartsWith
  <2>7. ASSUME NEW j \in 1..n + 1
        PROVE  g[j] = Found(es[a + j], edge[a + j - 1])
    <3>1. CASE j \in 1..n
      BY <2>2, <3>1 DEF StartsWith
    <3>2. CASE j = n + 1
      <4>1. g[n + 1] = r[1]
        BY <2>2, <2>4, <2>5 DEF StartsWith
      <4> QED
        BY <2>4, <3>2, <4>1
    <3> QED
      BY <3>1, <3>2
  <2>8. ASSUME NEW j \in 1..Len(t)
        PROVE  g[(n + 1) + j] = t[j]
    <3>1. 1 + j \in 1..Len(r) /\ n + (1 + j) = (n + 1) + j
      BY <2>4, <2>5
    <3>2. g[n + (1 + j)] = r[1 + j]
      BY <2>2, <3>1 DEF StartsWith
    <3> QED
      BY <2>4, <3>1, <3>2
  <2> QED
    BY <2>4, <2>6, <2>7, <2>8 DEF StartsWith
<1> HIDE DEF S
<1>4. Nat \subseteq S
  BY <1>2, <1>3, NatSetInduction
<1>5. b - a \in Nat /\ a + (b - a) = b
  BY <1>1
<1>6. b - a \in S
  BY <1>4, <1>5
<1>7. /\ edge[a + (b - a)] \in 0..Len(c)
      /\ StartsWith(From(c)[edge[a]], es, edge, a, b - a, From(c)[edge[a + (b - a)]])
  BY <1>5, <1>6 DEF S
<1> QED
  BY <1>5, <1>7

\* A file that is a row of whole entries and no whole one after it: they are all that is
\* found.
LEMMA ScanAll ==
    ASSUME NEW es, NEW edge, NEW K, Laid(es, edge, K), edge[0] = 0, NEW c, Numbers(c),
           NEW k \in 0..K, \A i \in 1..k : There(c, es, edge, i),
           ReadEntry(c, edge[k]).kind \in {"eof", "truncated"}
    PROVE  /\ IsSeq(Scan(c)) /\ Len(Scan(c)) = k
           /\ \A i \in 1..k : Scan(c)[i] = Found(es[i], edge[i - 1])
<1> DEFINE g == From(c)[edge[0]]
           r == From(c)[edge[k]]
<1>1. K \in Nat /\ Len(c) \in Nat
  BY IsSeqLen DEF Laid, Numbers
<1>2. edge[k] \in 0..Len(c) /\ StartsWith(g, es, edge, 0, k - 0, r)
  <2>1. 0 \in 0..K /\ k \in 0..K /\ edge[0] <= Len(c) /\ \A i \in 0 + 1..k : There(c, es, edge, i)
    BY <1>1
  <2> QED
    BY <2>1, ScanRow
<1>3. r = <<>> /\ Len(r) = 0
  <2>1. r = <<>>
    BY <1>2, FromEnd
  <2> QED
    BY <2>1
<1>4. g = Scan(c)
  BY ScanIsFrom
<1> HIDE DEF g, r
<1>5. k - 0 = k /\ \A i \in 1..k : 0 + i = i
  OBVIOUS
<1> QED
  BY <1>2, <1>3, <1>4, <1>5 DEF StartsWith

-----------------------------------------------------------------------------
(* How the stream is laid out: entry after entry, and nothing between them.  *)

\* Every entry that is written fits (put and delete of engine.rs; the run KeyTooLong.cfg shows
\* what happens to a key that does not).
EntriesFit == \A e \in Entries : Fits(e)

\* Where the entries of app end, after a first edge at 0.
Edges(app) ==
    [i \in 0..Len(app) |-> IF i = 0 THEN 0 ELSE app[i].value_pos + Len(app[i].entry.value)]

Encoded(app, i) == EncodeEntry(app[i].entry)

\* The entries of app are the first off cells of the stream, and those hold numbers.
Layout(f, b, app, off) ==
    /\ \A i \in 1..Len(app) : /\ Edges(app)[i] = Edges(app)[i - 1] + Len(Encoded(app, i))
                              /\ Holds(f, b, Edges(app)[i - 1], Encoded(app, i))
    /\ Edges(app)[Len(app)] = off
    /\ \A i \in 1..off : CellAt(f, b, i).num \in 0..Base - 1

LEMMA EdgesAreNat ==
    ASSUME NEW app \in Seq(Appended)
    PROVE  \A i \in 0..Len(app) : Edges(app)[i] \in Nat
<1> TAKE i \in 0..Len(app)
<1>1. CASE i = 0
  BY <1>1 DEF Edges
<1>2. CASE i # 0
  <2>1. i \in 1..Len(app)
    BY <1>2
  <2>2. app[i] \in Appended
    BY <2>1
  <2>3. app[i].value_pos \in Nat /\ app[i].entry \in Entries
    BY <2>2 DEF Appended
  <2>4. Len(app[i].entry.value) \in Nat
    BY <2>3, EncodeEndsWithValue, IsSeqLen
  <2> QED
    BY <1>2, <2>3, <2>4 DEF Edges
<1> QED
  BY <1>1, <1>2

\* What is laid out stays while the stream only grows.
LEMMA LayoutStays ==
    ASSUME NEW f, NEW b, NEW ff, NEW bb, IsSeq(f), IsSeq(b), IsSeq(ff), IsSeq(bb),
           Extends(f, b, ff, bb), NEW app \in Seq(Appended), NEW off \in Nat,
           off <= Total(f, b), Layout(f, b, app, off)
    PROVE  Layout(ff, bb, app, off)
<1>1. Total(f, b) \in Nat
  BY IsSeqLen DEF Total
<1>2. ASSUME NEW i \in 1..Len(app)
      PROVE  Holds(ff, bb, Edges(app)[i - 1], Encoded(app, i))
  <2>1. app[i] \in Appended /\ i - 1 \in 0..Len(app)
    OBVIOUS
  <2>2. IsSeq(Encoded(app, i)) /\ Edges(app)[i - 1] \in Nat
    BY <2>1, EncodeEndsWithValue, EdgesAreNat DEF Appended, Encoded
  <2> QED
    BY <2>2, HoldsStays DEF Layout
<1>3. ASSUME NEW i \in 1..off
      PROVE  CellAt(ff, bb, i).num \in 0..Base - 1
  <2>1. i \in 1..Total(f, b)
    BY <1>1
  <2> QED
    BY <2>1 DEF Layout, Extends
<1> QED
  BY <1>2, <1>3 DEF Layout

\* An entry written at its end is laid out after the others.
LEMMA LayoutGrows ==
    ASSUME EntriesFit, NEW f, NEW b, NEW app \in Seq(Appended), NEW off \in Nat,
           Layout(f, b, app, off), NEW new \in Appended, NEW enc, enc = EncodeEntry(new.entry),
           Total(f, b) = off + Len(enc), \A j \in 1..Len(enc) : CellAt(f, b, off + j) = enc[j],
           new.value_pos = off + (Len(enc) - Len(new.entry.value))
    PROVE  Layout(f, b, Append(app, new), off + Len(enc))
<1> DEFINE n == Len(app)
           a == Append(app, new)
<1>1. /\ a \in Seq(Appended) /\ Len(a) = n + 1 /\ a[n + 1] = new /\ n \in Nat
      /\ \A i \in 1..n : a[i] = app[i]
  BY AppendProperties, LenProperties
<1>2. /\ new.entry \in Entries /\ Fits(new.entry) /\ Len(enc) \in Nat /\ Numbers(enc) /\ IsSeq(enc)
      /\ Len(new.entry.value) \in Nat
  <2>1. new.entry \in Entries
    BY DEF Appended
  <2> QED
    BY <2>1, EncodeLong, EncodeEndsWithValue, IsSeqLen DEF EntriesFit
<1> HIDE DEF n, a
<1>3. \A i \in 0..n : Edges(a)[i] = Edges(app)[i]
  <2> TAKE i \in 0..n
  <2>1. i \in 0..Len(a) /\ i \in 0..Len(app)
    BY <1>1 DEF n
  <2>2. i # 0 => a[i] = app[i]
    BY <1>1
  <2> QED
    BY <2>1, <2>2 DEF Edges
<1>4. Edges(a)[n + 1] = off + Len(enc)
  <2>1. n + 1 \in 0..Len(a) /\ n + 1 # 0
    BY <1>1
  <2>2. Edges(a)[n + 1] = new.value_pos + Len(new.entry.value)
    BY <1>1, <2>1 DEF Edges
  <2> DEFINE v == Len(new.entry.value)
             l == Len(enc)
  <2>3. v \in Nat /\ l \in Nat /\ new.value_pos = off + (l - v)
    BY <1>2
  <2> HIDE DEF v, l
  <2>4. (off + (l - v)) + v = off + l
    BY <2>3
  <2> QED
    BY <2>2, <2>3, <2>4 DEF v, l
<1>5. Edges(a)[n] = off
  <2>1. n \in 0..n
    BY <1>1
  <2> QED
    BY <1>3, <2>1 DEF Layout, n
<1>6. ASSUME NEW i \in 1..n + 1
      PROVE  /\ Edges(a)[i] = Edges(a)[i - 1] + Len(Encoded(a, i))
             /\ Holds(f, b, Edges(a)[i - 1], Encoded(a, i))
  <2>1. CASE i = n + 1
    <3>1. i - 1 = n
      BY <1>1, <2>1
    <3>2. Encoded(a, i) = enc
      BY <1>1, <2>1 DEF Encoded
    <3>3. Holds(f, b, off, enc)
      BY DEF Holds
    <3> QED
      BY <1>4, <1>5, <2>1, <3>1, <3>2, <3>3
  <2>2. CASE i # n + 1
    <3>1. i \in 1..n /\ i \in 0..n /\ i - 1 \in 0..n
      BY <1>1, <2>2
    <3>2. Encoded(a, i) = Encoded(app, i)
      BY <1>1, <3>1 DEF Encoded
    <3>3. Edges(a)[i] = Edges(app)[i] /\ Edges(a)[i - 1] = Edges(app)[i - 1]
      BY <1>3, <3>1
    <3> QED
      BY <3>1, <3>2, <3>3 DEF Layout, n
  <2> QED
    BY <2>1, <2>2
<1>7. ASSUME NEW i \in 1..off + Len(enc)
      PROVE  CellAt(f, b, i).num \in 0..Base - 1
  <2>1. CASE i <= off
    <3>1. i \in 1..off
      BY <1>2, <2>1
    <3> QED
      BY <3>1 DEF Layout
  <2>2. CASE ~(i <= off)
    <3>1. i - off \in 1..Len(enc) /\ off + (i - off) = i
      BY <1>2, <2>2
    <3> QED
      BY <1>2, <3>1 DEF Numbers
  <2> QED
    BY <2>1, <2>2
<1>8. Layout(f, b, a, off + Len(enc))
  BY <1>1, <1>4, <1>6, <1>7 DEF Layout
<1> QED
  BY <1>8 DEF a

LayoutInv == Layout(file, buffer, appended, offset)

\* The tracked offset is never past the stream.
LEMMA OffsetInStream ==
    ASSUME IInv
    PROVE  /\ offset \in Nat /\ offset <= Total(file, buffer) /\ appended \in Seq(Appended)
           /\ IsSeq(file) /\ IsSeq(buffer)
<1>1. /\ offset \in Nat /\ appended \in Seq(Appended) /\ IsSeq(file) /\ IsSeq(buffer)
  BY DEF IInv, StreamInv
<1>2. CASE pc # "write"
  BY <1>1, <1>2 DEF IInv, WriteInv
<1>3. CASE pc = "write"
  <2> DEFINE enc == EncodeEntry(todo.entry)
  <2>1. Written(enc) \in Nat /\ Total(file, buffer) = offset + Written(enc)
    BY <1>3, WriteFacts
  <2> HIDE DEF enc
  <2> QED
    BY <1>1, <2>1
<1> QED
  BY <1>1, <1>2, <1>3

\* A step that only lets the stream grow keeps the layout.
LEMMA GrowKeepsLayout ==
    ASSUME IInv, LayoutInv, IsSeq(file'), IsSeq(buffer'), Extends(file, buffer, file', buffer'),
           UNCHANGED <<appended, offset>>
    PROVE  LayoutInv'
<1>1. Layout(file', buffer', appended, offset)
  BY OffsetInStream, LayoutStays DEF LayoutInv
<1> QED
  BY <1>1 DEF LayoutInv

\* An accepted entry joins it.
LEMMA AcceptKeepsLayout ==
    ASSUME EntriesFit, IInv, LayoutInv, pc = "write", Accepted,
           Writes(file, buffer, todo.cells, file', buffer')
    PROVE  LayoutInv'
<1> DEFINE e   == todo.entry
           enc == EncodeEntry(e)
           new == [entry |-> e, value_pos |-> offset + (Len(enc) - Len(e.value))]
<1>1. offset' = offset + Len(enc) /\ appended' = Append(appended, new)
  BY DEF Accepted, OffsetAfter, ValuePos
<1>2. /\ e \in Entries /\ IsSeq(todo.cells) /\ Len(enc) \in Nat /\ offset \in Nat
      /\ Len(todo.cells) \in 1..Len(enc) /\ Written(enc) + Len(todo.cells) = Len(enc)
  BY WriteFacts
<1>3. /\ IsSeq(file') /\ IsSeq(buffer') /\ Extends(file, buffer, file', buffer')
      /\ Total(file', buffer') = offset + (Written(enc) + Len(todo.cells))
      /\ \A j \in 1..Written(enc) + Len(todo.cells) : CellAt(file', buffer', offset + j) = enc[j]
  <2>1. StartOf(todo.cells, todo.cells)
    BY <1>2, IsSeqLen DEF StartOf
  <2> QED
    BY <2>1, PartWritten
<1>4. Len(enc) - Len(e.value) \in Nat
  <2>1. \A j \in 1..Len(enc) : CellAt(file', buffer', offset + j) = enc[j]
    BY <1>2, <1>3
  <2>2. Total(file', buffer') = offset + Len(enc)
    BY <1>2, <1>3
  <2> QED
    BY <1>2, <2>1, <2>2, ValueIsThere
<1>5. new \in Appended /\ new.entry = e /\ new.value_pos = offset + (Len(enc) - Len(e.value))
  BY <1>2, <1>4 DEF Appended
<1>6. Layout(file', buffer', appended, offset)
  BY <1>3, OffsetInStream, LayoutStays DEF LayoutInv
<1>7. appended \in Seq(Appended) /\ Total(file', buffer') = offset + Len(enc)
      /\ \A j \in 1..Len(enc) : CellAt(file', buffer', offset + j) = enc[j]
      /\ enc = EncodeEntry(new.entry)
      /\ new.value_pos = offset + (Len(enc) - Len(new.entry.value))
  BY <1>2, <1>3, <1>5, OffsetInStream
<1> HIDE DEF new, enc
<1>8. Layout(file', buffer', Append(appended, new), offset + Len(enc))
  BY <1>2, <1>5, <1>6, <1>7, LayoutGrows
<1> QED
  BY <1>1, <1>8 DEF LayoutInv, new, enc

\* Each step.
LEMMA NextKeepsLayout ==
    ASSUME EntriesFit, IInv, LayoutInv, [Next]_vars
    PROVE  LayoutInv'
<1>0. IsSeq(file) /\ IsSeq(buffer)
  BY OffsetInStream
<1>1. CASE UNCHANGED <<file, buffer, appended, offset>>
  BY <1>1 DEF LayoutInv
<1>2. ASSUME NEW n \in 1..Len(buffer), FlushSome(n) PROVE LayoutInv'
  <2>1. Moves(file, buffer, n, file', buffer') /\ UNCHANGED <<appended, offset>>
    BY <1>2 DEF FlushSome, Moves, histVars
  <2>2. IsSeq(file') /\ IsSeq(buffer') /\ Extends(file, buffer, file', buffer')
    BY <1>0, <2>1, FlushLeavesStream
  <2> QED
    BY <2>1, <2>2, GrowKeepsLayout
<1>3. CASE CopyToBuffer
  <2>1. pc = "write" /\ Accepted /\ Writes(file, buffer, todo.cells, file', buffer')
    BY <1>3 DEF CopyToBuffer, Writes
  <2> QED
    BY <2>1, AcceptKeepsLayout
<1>4. ASSUME NEW n \in 1..Len(todo.cells), DirectWrite(n) PROVE LayoutInv'
  <2> DEFINE c == SubSeq(todo.cells, 1, n)
  <2>1. /\ pc = "write" /\ Writes(file, buffer, c, file', buffer')
        /\ \/ n = Len(todo.cells) /\ Accepted
           \/ n # Len(todo.cells) /\ UNCHANGED <<appended, offset>>
    BY <1>4 DEF DirectWrite, Direct, Writes
  <2>2. IsSeq(todo.cells) /\ Len(todo.cells) \in Nat
    BY <2>1, WriteFacts, IsSeqLen
  <2>3. CASE n = Len(todo.cells) /\ Accepted
    <3>1. c = todo.cells
      BY <2>2, <2>3, SubSeqFull DEF IsSeq
    <3> QED
      BY <2>1, <2>3, <3>1, AcceptKeepsLayout
  <2>4. CASE n # Len(todo.cells) /\ UNCHANGED <<appended, offset>>
    <3>1. StartOf(c, todo.cells)
      <4>1. 1 \in 1..Len(todo.cells) + 1 /\ n \in 1 - 1..Len(todo.cells)
        BY <2>2
      <4>2. IsSeq(c) /\ Len(c) = n - 1 + 1 /\ \A i \in 1..n - 1 + 1 : c[i] = todo.cells[1 + i - 1]
        BY <2>2, <4>1, SubSeqIsSeq
      <4> HIDE DEF c
      <4> QED
        BY <2>2, <4>2 DEF StartOf
    <3> HIDE DEF c
    <3>2. IsSeq(file') /\ IsSeq(buffer') /\ Extends(file, buffer, file', buffer')
      BY <2>1, <3>1, PartWritten
    <3> QED
      BY <2>4, <3>2, GrowKeepsLayout
  <2> QED
    BY <2>1, <2>3, <2>4
<1>5. \/ UNCHANGED <<file, buffer, appended, offset>>
      \/ \E n \in 1..Len(buffer) : FlushSome(n)
      \/ CopyToBuffer
      \/ \E n \in 1..Len(todo.cells) : DirectWrite(n)
  BY DEF Next, StartWrite, StartFlush, FlushReturns, SyncFlushed, HandleCloned, SyncDataOfHandle,
         SyncData, Dropped, Fails, vars, fileVars, callVars, histVars
<1> QED
  BY <1>1, <1>2, <1>3, <1>4, <1>5

\* Nothing is laid out at first.
LEMMA InitLayout == Init => LayoutInv
<1> SUFFICES ASSUME Init PROVE LayoutInv
  OBVIOUS
<1>1. file = <<>> /\ buffer = <<>> /\ appended = <<>> /\ offset = 0
  BY DEF Init
<1>2. Edges(<<>>)[0] = 0 /\ Len(<<>>) = 0 /\ 1..0 = {}
  BY DEF Edges
<1> QED
  BY <1>1, <1>2 DEF LayoutInv, Layout

-----------------------------------------------------------------------------
(* What a scan finds of the file.                                            *)

\* The entries, as a row.
Ents(app) == [i \in 1..Len(app) |-> app[i].entry]

LEMMA EntriesLaid ==
    ASSUME EntriesFit, IInv, LayoutInv
    PROVE  Laid(Ents(appended), Edges(appended), Len(appended)) /\ Edges(appended)[0] = 0
<1>1. appended \in Seq(Appended) /\ Len(appended) \in Nat
  BY OffsetInStream, LenProperties
<1>2. \A i \in 0..Len(appended) : Edges(appended)[i] \in Nat
  BY <1>1, EdgesAreNat
<1>3. ASSUME NEW i \in 1..Len(appended)
      PROVE  /\ Ents(appended)[i] \in Entries /\ Fits(Ents(appended)[i])
             /\ Edges(appended)[i] = Edges(appended)[i - 1] + Len(EncodeEntry(Ents(appended)[i]))
  <2>1. appended[i] \in Appended /\ Ents(appended)[i] = appended[i].entry
    BY <1>1 DEF Ents
  <2>2. Edges(appended)[i] = Edges(appended)[i - 1] + Len(Encoded(appended, i))
    BY DEF LayoutInv, Layout
  <2> QED
    BY <2>1, <2>2 DEF Appended, EntriesFit, Encoded
<1>4. Edges(appended)[0] = 0
  BY <1>1 DEF Edges
<1> QED
  BY <1>1, <1>2, <1>3, <1>4 DEF Laid

\* What is in the file past the tracked offset is the start of the entry being written.
LEMMA PastOffset ==
    ASSUME IInv, Len(file) > offset
    PROVE  /\ pc = "write" /\ todo.entry \in Entries
           /\ Len(file) < offset + Len(EncodeEntry(todo.entry))
           /\ \A j \in 1..Len(file) - offset : file[offset + j] = EncodeEntry(todo.entry)[j]
<1>1. Len(file) \in Nat /\ Len(buffer) \in Nat /\ offset \in Nat
  BY OffsetInStream, IsSeqLen
<1>2. pc = "write"
  BY <1>1 DEF IInv, WriteInv, Total
<1> DEFINE enc == EncodeEntry(todo.entry)
           w   == Written(enc)
<1>3. /\ todo.entry \in Entries /\ Len(enc) \in Nat /\ Len(todo.cells) \in 1..Len(enc)
      /\ w \in Nat /\ w = Len(enc) - Len(todo.cells) /\ Total(file, buffer) = offset + w
      /\ \A j \in 1..w : CellAt(file, buffer, offset + j) = enc[j]
  BY <1>2, WriteFacts
<1> HIDE DEF w, enc
<1>4. Len(file) <= offset + w /\ w < Len(enc)
  <2> DEFINE l == Len(todo.cells)
  <2>1. l \in 1..Len(enc) /\ w = Len(enc) - l /\ Len(enc) \in Nat
    BY <1>3
  <2>2. Total(file, buffer) = Len(file) + Len(buffer)
    BY DEF Total
  <2> HIDE DEF l
  <2>3. w < Len(enc)
    BY <2>1
  <2>4. Len(file) + Len(buffer) = offset + w /\ w \in Nat
    BY <1>3, <2>2
  <2>5. Len(file) <= offset + w
    BY <1>1, <2>4
  <2> QED
    BY <2>3, <2>5
<1>5. ASSUME NEW j \in 1..Len(file) - offset
      PROVE  file[offset + j] = enc[j]
  <2>1. j \in 1..w /\ offset + j <= Len(file)
    BY <1>1, <1>3, <1>4
  <2> QED
    BY <1>3, <2>1 DEF CellAt
<1>6. Len(file) < offset + Len(enc)
  BY <1>1, <1>3, <1>4
<1> QED
  BY <1>2, <1>3, <1>5, <1>6 DEF enc

\* All of the file is numbers.
LEMMA FileNumbers ==
    ASSUME EntriesFit, IInv, LayoutInv
    PROVE  Numbers(file)
<1>1. Len(file) \in Nat /\ offset \in Nat /\ IsSeq(file)
  BY OffsetInStream, IsSeqLen
<1>2. ASSUME NEW i \in 1..Len(file)
      PROVE  file[i].num \in 0..Base - 1
  <2>1. CASE i <= offset
    <3>1. CellAt(file, buffer, i).num \in 0..Base - 1
      BY <1>1, <2>1 DEF LayoutInv, Layout
    <3> QED
      BY <3>1 DEF CellAt
  <2>2. CASE ~(i <= offset)
    <3> DEFINE enc == EncodeEntry(todo.entry)
    <3>1. /\ todo.entry \in Entries /\ Len(file) < offset + Len(enc)
          /\ \A j \in 1..Len(file) - offset : file[offset + j] = enc[j]
      BY <1>1, <2>2, PastOffset
    <3>2. Len(enc) \in Nat /\ Numbers(enc)
      BY <3>1, EncodeLong DEF EntriesFit
    <3> HIDE DEF enc
    <3>3. i - offset \in 1..Len(file) - offset /\ offset + (i - offset) = i
          /\ i - offset \in 1..Len(enc)
      BY <1>1, <2>2, <3>1, <3>2
    <3>4. file[i] = enc[i - offset]
      BY <3>1, <3>3
    <3> QED
      BY <3>2, <3>3, <3>4 DEF Numbers
  <2> QED
    BY <2>1, <2>2
<1> QED
  BY <1>1, <1>2 DEF Numbers

\* Cells that are those of the file up to n, from a on.
Agrees(c, n, a) == Numbers(c) /\ Len(c) = n /\ \A i \in a + 1..n : c[i] = file[i]

\* An entry that ends by n is whole there.
LEMMA EntryThere ==
    ASSUME EntriesFit, IInv, LayoutInv, NEW n \in 0..Len(file), NEW c, Numbers(c), Len(c) = n,
           NEW i \in 1..Len(appended), Edges(appended)[i] <= n,
           \A j \in Edges(appended)[i - 1] + 1..Edges(appended)[i] : c[j] = file[j]
    PROVE  There(c, Ents(appended), Edges(appended), i)
<1> DEFINE p   == Edges(appended)[i - 1]
           enc == Encoded(appended, i)
           q   == Edges(appended)[i]
<1>1. /\ appended \in Seq(Appended) /\ Len(appended) \in Nat /\ Len(file) \in Nat
      /\ appended[i] \in Appended
  BY OffsetInStream, IsSeqLen, LenProperties
<1>2. p \in Nat /\ q = p + Len(enc) /\ Holds(file, buffer, p, enc) /\ q \in Nat
  <2>1. i - 1 \in 0..Len(appended) /\ i \in 0..Len(appended)
    OBVIOUS
  <2> QED
    BY <1>1, <2>1, EdgesAreNat DEF LayoutInv, Layout
<1>3. Len(enc) \in Nat
  BY <1>1, EncodeLong DEF Encoded, EntriesFit, Appended
<1>4. EncodeEntry(Ents(appended)[i]) = enc
  BY DEF Ents, Encoded
<1>5. \A j \in p + 1..q : c[j] = file[j]
  OBVIOUS
<1>6. q <= n
  OBVIOUS
<1> HIDE DEF enc, p, q
<1>7. ASSUME NEW j \in 1..Len(enc)
      PROVE  c[p + j] = enc[j]
  <2>1. p + j \in p + 1..q /\ p + j <= Len(file)
    BY <1>1, <1>2, <1>3, <1>6
  <2> QED
    BY <1>2, <1>5, <2>1 DEF Holds, CellAt
<1>8. Has(c, p, enc, Len(enc))
  BY <1>2, <1>6, <1>7 DEF Has
<1> QED
  BY <1>4, <1>8 DEF There, p

\* After the last entry that ends by n there is nothing, or a part of an entry.
LEMMA NothingAfter ==
    ASSUME EntriesFit, IInv, LayoutInv, NEW n \in 0..Len(file), NEW k \in 0..Len(appended),
           Edges(appended)[k] <= n, k < Len(appended) => n < Edges(appended)[k + 1],
           NEW c, Agrees(c, n, Edges(appended)[k])
    PROVE  ReadEntry(c, Edges(appended)[k]).kind \in {"eof", "truncated"}
<1> DEFINE p == Edges(appended)[k]
<1>1. /\ appended \in Seq(Appended) /\ Len(appended) \in Nat /\ Len(file) \in Nat
      /\ p \in Nat /\ Numbers(c) /\ Len(c) = n /\ offset \in Nat /\ IsSeq(c)
  BY OffsetInStream, IsSeqLen, LenProperties, EdgesAreNat DEF Agrees, Numbers
<1>2. CASE n = p
  <2>1. p \in 0..Len(c) /\ p + HeaderSize > Len(c)
    BY <1>1, <1>2 DEF HeaderSize
  <2> QED
    BY <1>1, <2>1, ReadNoHeader
<1>3. CASE n > p /\ k < Len(appended)
  <2> DEFINE e   == appended[k + 1].entry
             enc == EncodeEntry(e)
  <2>1. k + 1 \in 1..Len(appended) /\ (k + 1) - 1 = k
    BY <1>1, <1>3
  <2>2. e \in Entries /\ Fits(e) /\ Len(enc) \in Nat
    <3>1. appended[k + 1] \in Appended
      BY <1>1, <2>1
    <3> QED
      BY <3>1, EncodeLong DEF Appended, EntriesFit
  <2>3. Edges(appended)[k + 1] = p + Len(enc) /\ Holds(file, buffer, p, enc)
    BY <2>1 DEF LayoutInv, Layout, Encoded
  <2>4. n < p + Len(enc)
    BY <1>3, <2>3
  <2>5. \A j \in p + 1..n : c[j] = file[j]
    BY DEF Agrees
  <2> HIDE DEF enc, p, e
  <2>6. ASSUME NEW j \in 1..n - p
        PROVE  c[p + j] = enc[j]
    <3>1. p + j \in p + 1..n /\ p + j <= Len(file) /\ j \in 1..Len(enc)
      BY <1>1, <2>2, <2>4
    <3> QED
      BY <2>3, <2>5, <3>1 DEF Holds, CellAt
  <2>7. Has(c, p, enc, Len(c) - p)
    BY <1>1, <1>3, <2>6 DEF Has
  <2>8. p <= Len(c) /\ Len(c) < p + Len(enc) /\ enc = EncodeEntry(e)
    BY <1>1, <1>3, <2>4 DEF enc
  <2> QED
    BY <1>1, <2>2, <2>7, <2>8, TornRead DEF p
<1>4. CASE n > p /\ k = Len(appended)
  <2> DEFINE e   == todo.entry
             enc == EncodeEntry(e)
  <2>1. p = offset
    BY <1>4 DEF LayoutInv, Layout
  <2>2. Len(file) > offset
    BY <1>1, <1>4, <2>1
  <2>3. /\ e \in Entries /\ Len(file) < offset + Len(enc)
        /\ \A j \in 1..Len(file) - offset : file[offset + j] = enc[j]
    BY <2>2, PastOffset
  <2>4. Fits(e) /\ Len(enc) \in Nat
    BY <2>3, EncodeLong DEF EntriesFit
  <2>5. \A j \in p + 1..n : c[j] = file[j]
    BY DEF Agrees
  <2> HIDE DEF enc, p, e
  <2>6. ASSUME NEW j \in 1..n - p
        PROVE  c[p + j] = enc[j]
    <3>1. p + j \in p + 1..n /\ j \in 1..Len(file) - offset
      BY <1>1, <2>1
    <3> QED
      BY <2>1, <2>3, <2>5, <3>1
  <2>7. Has(c, p, enc, Len(c) - p)
    BY <1>1, <1>4, <2>6 DEF Has
  <2>8. p <= Len(c) /\ Len(c) < p + Len(enc) /\ enc = EncodeEntry(e)
    BY <1>1, <1>4, <2>1, <2>3, <2>4 DEF enc
  <2> QED
    BY <1>1, <2>3, <2>4, <2>7, <2>8, TornRead DEF p
<1> QED
  BY <1>1, <1>2, <1>3, <1>4

\* Where the i-th entry is, as append said.
EndOf(i) == appended[i].value_pos + Len(appended[i].entry.value)

FoundOf(i) ==
    [key |-> appended[i].entry.key, value |-> appended[i].entry.value,
     tomb |-> appended[i].entry.tomb, tstamp |-> appended[i].entry.tstamp,
     value_pos |-> appended[i].value_pos,
     start |-> EndOf(i) - Len(EncodeEntry(appended[i].entry))]

\* It is there that the scan finds it.
LEMMA FoundWhere ==
    ASSUME EntriesFit, IInv, LayoutInv, NEW i \in 1..Len(appended)
    PROVE  /\ Found(Ents(appended)[i], Edges(appended)[i - 1]) = FoundOf(i)
           /\ EndOf(i) = Edges(appended)[i]
           /\ FoundOf(i).start = Edges(appended)[i - 1]
           /\ FoundOf(i).value_pos + Len(FoundOf(i).value) = Edges(appended)[i]
<1> DEFINE e   == appended[i].entry
           p   == Edges(appended)[i - 1]
           len == Len(EncodeEntry(e))
           v   == Len(e.value)
           at  == appended[i].value_pos
<1>1. /\ appended \in Seq(Appended) /\ appended[i] \in Appended /\ Len(appended) \in Nat
      /\ i \in 0..Len(appended) /\ i - 1 \in 0..Len(appended)
  BY OffsetInStream, LenProperties
<1>2. p \in Nat /\ at \in Nat /\ e \in Entries
  BY <1>1, EdgesAreNat DEF Appended
<1>3. len \in Nat /\ v \in Nat
  BY <1>2, EncodeLong, EncodeEndsWithValue, IsSeqLen DEF EntriesFit
<1>4. Edges(appended)[i] = p + len
  BY DEF LayoutInv, Layout, Encoded
<1>5. Edges(appended)[i] = at + v
  BY <1>1 DEF Edges
<1>6. Ents(appended)[i] = e
  BY DEF Ents
<1>7. Found(e, p) = [key |-> e.key, value |-> e.value, tomb |-> e.tomb,
                     tstamp |-> e.tstamp, start |-> p, value_pos |-> p + (len - v)]
  BY DEF Found
<1>8. FoundOf(i) = [key |-> e.key, value |-> e.value, tomb |-> e.tomb,
                    tstamp |-> e.tstamp, value_pos |-> at, start |-> (at + v) - len]
  BY DEF FoundOf, EndOf
<1>9. EndOf(i) = at + v
  BY DEF EndOf
<1>10. FoundOf(i).value = e.value /\ Len(FoundOf(i).value) = v
  BY <1>8
<1> HIDE DEF e, p, len, v, at
<1>11. (at + v) - len = p /\ p + (len - v) = at
  BY <1>2, <1>3, <1>4, <1>5
<1>12. FoundOf(i) = [key |-> e.key, value |-> e.value, tomb |-> e.tomb,
                     tstamp |-> e.tstamp, value_pos |-> at, start |-> p]
  BY <1>8, <1>11
<1>13. Found(e, p) = FoundOf(i)
  BY <1>7, <1>11, <1>12
<1>14. FoundOf(i).start = p /\ FoundOf(i).value_pos = at
  BY <1>12
<1> QED
  BY <1>4, <1>5, <1>6, <1>9, <1>10, <1>13, <1>14 DEF p, e

\* A scan of a file with k whole entries and, past them, what the file has there.
LEMMA ScanOfRow ==
    ASSUME EntriesFit, IInv, LayoutInv, NEW n \in 0..Len(file), NEW c, Agrees(c, n, 0),
           NEW k \in 0..Len(appended),
           \A i \in 0..k : Edges(appended)[i] <= n,
           \A i \in k + 1..Len(appended) : n < Edges(appended)[i]
    PROVE  /\ IsSeq(Scan(c)) /\ Len(Scan(c)) = k
           /\ \A i \in 1..k : Scan(c)[i] = FoundOf(i)
<1>1. /\ Len(appended) \in Nat /\ Len(file) \in Nat /\ Numbers(c) /\ Len(c) = n
      /\ \A i \in 1..n : c[i] = file[i]
      /\ \A i \in 0..Len(appended) : Edges(appended)[i] \in Nat
  BY OffsetInStream, IsSeqLen, LenProperties, EdgesAreNat DEF Agrees
<1> DEFINE es   == Ents(appended)
           edge == Edges(appended)
           K    == Len(appended)
<1>2. Laid(es, edge, K) /\ edge[0] = 0
  BY EntriesLaid
<1>3. ASSUME NEW i \in 1..k
      PROVE  There(c, es, edge, i)
  <2>1. i \in 1..K /\ edge[i] <= n /\ i - 1 \in 0..K /\ edge[i - 1] \in Nat /\ edge[i] \in Nat
    BY <1>1
  <2>2. \A j \in edge[i - 1] + 1..edge[i] : c[j] = file[j]
    <3> TAKE j \in edge[i - 1] + 1..edge[i]
    <3> HIDE DEF edge
    <3>1. j \in 1..n
      BY <2>1
    <3> QED
      BY <1>1, <3>1
  <2> QED
    BY <1>1, <2>1, <2>2, EntryThere
<1>4. ReadEntry(c, edge[k]).kind \in {"eof", "truncated"}
  <2>1. k \in 0..k /\ edge[k] <= n /\ (k < K => k + 1 \in k + 1..K) /\ edge[k] \in Nat
    BY <1>1
  <2>2. Agrees(c, n, edge[k])
    <3>1. \A i \in edge[k] + 1..n : i \in 1..n
      BY <2>1
    <3> QED
      BY <1>1, <3>1 DEF Agrees
  <2> QED
    BY <2>1, <2>2, NothingAfter
<1> HIDE DEF es, edge, K
<1>5. /\ IsSeq(Scan(c)) /\ Len(Scan(c)) = k
      /\ \A i \in 1..k : Scan(c)[i] = Found(es[i], edge[i - 1])
  <2>1. k \in 0..K
    BY DEF K
  <2> QED
    BY <1>1, <1>2, <1>3, <1>4, <2>1, ScanAll
<1>6. \A i \in 1..k : Found(es[i], edge[i - 1]) = FoundOf(i)
  <2> TAKE i \in 1..k
  <2>1. i \in 1..Len(appended)
    BY <1>1
  <2> QED
    BY <2>1, FoundWhere DEF es, edge
<1> QED
  BY <1>5, <1>6

\* There is such a k for every length.
LEMMA WholeEntries ==
    ASSUME EntriesFit, IInv, LayoutInv, NEW n \in Nat
    PROVE  \E k \in 0..Len(appended) :
              /\ \A i \in 0..k : Edges(appended)[i] <= n
              /\ \A i \in k + 1..Len(appended) : n < Edges(appended)[i]
BY EntriesLaid, LastEdge

\* A sequence is the function from its indices.
LEMMA SeqAsFunction ==
    ASSUME NEW s, IsSeq(s)
    PROVE  s = [i \in 1..Len(s) |-> s[i]]
<1>1. s \in [1..Len(s) -> ToSet(s)]
  BY LenProperties DEF IsSeq
<1> QED
  BY <1>1

\* The k entries that end by n are those that are whole in the first n cells.
LEMMA WholeIs ==
    ASSUME EntriesFit, IInv, LayoutInv, NEW n \in Nat, NEW c, Len(c) = n,
           NEW k \in 0..Len(appended),
           \A i \in 0..k : Edges(appended)[i] <= n,
           \A i \in k + 1..Len(appended) : n < Edges(appended)[i]
    PROVE  Whole(c) = [i \in 1..k |-> FoundOf(i)]
<1>1. Len(appended) \in Nat /\ DOMAIN appended = 1..Len(appended)
  BY OffsetInStream, LenProperties
<1>2. {j \in DOMAIN appended : EndOf(j) <= Len(c)} = 1..k
  <2>1. ASSUME NEW j \in 1..Len(appended)
        PROVE  EndOf(j) <= n <=> j <= k
    <3>1. EndOf(j) = Edges(appended)[j] /\ Edges(appended)[j] \in Nat
      BY <1>1, FoundWhere, EdgesAreNat, OffsetInStream
    <3>2. j <= k => j \in 0..k
      BY <1>1
    <3>3. ~(j <= k) => j \in k + 1..Len(appended)
      BY <1>1
    <3> QED
      BY <3>1, <3>2, <3>3
  <2>2. \A j \in 1..k : j \in 1..Len(appended) /\ j <= k
    BY <1>1
  <2> QED
    BY <1>1, <2>1, <2>2
<1>3. Cardinality(1..k) = k
  <2>1. Cardinality(1..k) = IF 1 > k THEN 0 ELSE k - 1 + 1
    BY FS_Interval
  <2> QED
    BY <2>1
<1>4. Whole(c) = [i \in 1..Cardinality({j \in DOMAIN appended : EndOf(j) <= Len(c)}) |-> FoundOf(i)]
  BY DEF Whole, EndOf, FoundOf
<1> QED
  BY <1>2, <1>3, <1>4

\* The first n cells of the file.
LEMMA ImageAgrees ==
    ASSUME EntriesFit, IInv, LayoutInv, NEW n \in 0..Len(file)
    PROVE  Agrees(SubSeq(file, 1, n), n, 0)
<1> DEFINE z == 0
           u == SubSeq(file, z + 1, z + n)
<1>1. Len(file) \in Nat /\ n \in Nat /\ Numbers(file) /\ IsSeq(file) /\ z \in Nat
      /\ z + n <= Len(file) /\ u = SubSeq(file, 1, n)
  BY FileNumbers, OffsetInStream, IsSeqLen
<1> HIDE DEF z
<1>2. IsSeq(u) /\ Len(u) = n /\ \A i \in 1..n : u[i] = file[z + i]
  BY <1>1, TakeIs
<1> HIDE DEF u
<1>3. \A i \in 1..n : u[i] = file[i] /\ u[i].num \in 0..Base - 1
  BY <1>1, <1>2 DEF Numbers, z
<1>4. Agrees(u, n, 0)
  BY <1>2, <1>3 DEF Agrees, Numbers
<1> QED
  BY <1>1, <1>4

\* Wherever the file is cut, the scan finds the whole entries.
LEMMA FindsWhole ==
    ASSUME EntriesFit, IInv, LayoutInv
    PROVE  ScanFindsWhole
<1>1. ASSUME NEW n \in 0..Len(file)
      PROVE  Scan(SubSeq(file, 1, n)) = Whole(SubSeq(file, 1, n))
  <2> DEFINE c == SubSeq(file, 1, n)
  <2>1. n \in Nat /\ Agrees(c, n, 0) /\ Len(c) = n
    BY ImageAgrees, OffsetInStream, IsSeqLen DEF Agrees
  <2>2. PICK k \in 0..Len(appended) :
           /\ \A i \in 0..k : Edges(appended)[i] <= n
           /\ \A i \in k + 1..Len(appended) : n < Edges(appended)[i]
    BY <2>1, WholeEntries
  <2> HIDE DEF c
  <2>3. Whole(c) = [i \in 1..k |-> FoundOf(i)]
    BY <2>1, <2>2, WholeIs
  <2>4. IsSeq(Scan(c)) /\ Len(Scan(c)) = k /\ \A i \in 1..k : Scan(c)[i] = FoundOf(i)
    BY <2>1, <2>2, ScanOfRow
  <2>5. Scan(c) = [i \in 1..k |-> FoundOf(i)]
    <3>1. Scan(c) = [i \in 1..k |-> Scan(c)[i]]
      BY <2>4, SeqAsFunction
    <3> QED
      BY <2>4, <3>1
  <2> QED
    BY <2>3, <2>5 DEF c
<1> QED
  BY <1>1 DEF ScanFindsWhole

-----------------------------------------------------------------------------
(* One rotten cell.                                                          *)

\* The cells f with another number in cell p.
Rotten(c, f, p, n) == c = [f EXCEPT ![p] = Number(n)]

LEMMA RottenIs ==
    ASSUME NEW f, Numbers(f), NEW p \in 1..Len(f), NEW n \in 0..Base - 1, NEW c,
           Rotten(c, f, p, n)
    PROVE  /\ Numbers(c) /\ Len(c) = Len(f) /\ c[p] = Number(n)
           /\ \A i \in 1..Len(f) : i # p => c[i] = f[i]
<1>1. IsSeq(f) /\ Len(f) \in Nat /\ DOMAIN f = 1..Len(f)
  BY IsSeqLen DEF Numbers
<1> DEFINE S == ToSet(f) \cup {Number(n)}
<1>2. f \in Seq(S) /\ Number(n) \in S
  BY <1>1, SeqMonotonic DEF IsSeq
<1> HIDE DEF S
<1>3. c \in Seq(S) /\ Len(c) = Len(f)
        /\ \A i \in 1..Len(f) : c[i] = IF i = p THEN Number(n) ELSE f[i]
  BY <1>1, <1>2, ExceptSeq DEF Rotten
<1>4. IsSeq(c)
  BY <1>3, SeqIsSeq
<1>5. ASSUME NEW i \in 1..Len(c) PROVE c[i].num \in 0..Base - 1
  <2>1. Number(n).num = n
    BY DEF Number
  <2> QED
    BY <1>3, <2>1 DEF Numbers
<1> QED
  BY <1>3, <1>4, <1>5 DEF Numbers

\* A prefix, cell by cell.
LEMMA PrefixIs ==
    ASSUME NEW s, NEW t, IsSeq(s), IsSeq(t), Len(s) <= Len(t),
           \A i \in 1..Len(s) : s[i] = t[i]
    PROVE  IsPrefix(s, t)
<1> DEFINE z == 0
           n == Len(s)
           u == SubSeq(s, z + 1, z + n)
           v == SubSeq(t, z + 1, z + n)
<1>1. n \in Nat /\ z \in Nat /\ z + n <= Len(s) /\ z + n <= Len(t) /\ Len(t) \in Nat
  BY IsSeqLen
<1>2. \A i \in 1..n : s[z + i] = t[z + i]
  OBVIOUS
<1> HIDE DEF z, n
<1>3. IsSeq(u) /\ Len(u) = n /\ \A i \in 1..n : u[i] = s[z + i]
  BY <1>1, TakeIs
<1>4. IsSeq(v) /\ Len(v) = n /\ \A i \in 1..n : v[i] = t[z + i]
  BY <1>1, TakeIs
<1>5. u = v
  <2> HIDE DEF u, v
  <2> QED
    BY <1>2, <1>3, <1>4, SameCells
<1> QED
  BY <1>5 DEF IsPrefix, z, n

\* The first m of a sequence.
LEMMA FirstOf ==
    ASSUME NEW s, IsSeq(s), NEW m \in Nat, m <= Len(s)
    PROVE  /\ IsSeq(SubSeq(s, 1, m)) /\ Len(SubSeq(s, 1, m)) = m
           /\ \A i \in 1..m : SubSeq(s, 1, m)[i] = s[i]
<1> DEFINE z == 0
           u == SubSeq(s, z + 1, z + m)
<1>1. z \in Nat /\ z + m <= Len(s) /\ u = SubSeq(s, 1, m)
  OBVIOUS
<1> HIDE DEF z
<1>2. IsSeq(u) /\ Len(u) = m /\ \A i \in 1..m : u[i] = s[z + i]
  BY <1>1, TakeIs
<1> HIDE DEF u
<1> QED
  BY <1>1, <1>2 DEF z

\* A sequence without its i-th element, cell by cell.
LEMMA RemoveAtIs ==
    ASSUME NEW s, IsSeq(s), NEW i \in 1..Len(s), NEW t, IsSeq(t), Len(t) = Len(s) - 1,
           \A j \in 1..i - 1 : t[j] = s[j],
           \A j \in i..Len(s) - 1 : t[j] = s[j + 1]
    PROVE  t = RemoveAt(s, i)
<1> DEFINE a == SubSeq(s, 1, i - 1)
           m == Len(s) - i
           b == SubSeq(s, i + 1, i + m)
<1>1. Len(s) \in Nat /\ i \in Nat /\ i - 1 \in Nat /\ i - 1 <= Len(s) /\ m \in Nat
      /\ i + m = Len(s) /\ i + m <= Len(s) /\ (i - 1) + m = Len(s) - 1
  BY IsSeqLen
<1>2. IsSeq(a) /\ Len(a) = i - 1 /\ \A j \in 1..i - 1 : a[j] = s[j]
  BY <1>1, FirstOf
<1>3. RemoveAt(s, i) = a \o b
  BY <1>1 DEF RemoveAt
<1> HIDE DEF m
<1>4. IsSeq(b) /\ Len(b) = m /\ \A j \in 1..m : b[j] = s[i + j]
  BY <1>1, TakeIs
<1> HIDE DEF a, b
<1>5. /\ IsSeq(a \o b) /\ Len(a \o b) = Len(a) + Len(b)
      /\ \A j \in 1..Len(a) + Len(b) : (a \o b)[j] = IF j <= Len(a) THEN a[j] ELSE b[j - Len(a)]
  BY <1>2, <1>4, ConcatIsSeq
<1>6. Len(a) + Len(b) = Len(s) - 1
  <2>1. (i - 1) + m = Len(s) - 1
    BY <1>1
  <2>2. Len(a) = i - 1 /\ Len(b) = m
    BY <1>2, <1>4
  <2>3. Len(a) + Len(b) = (i - 1) + m
    BY <2>2
  <2> QED
    BY <2>1, <2>3
<1>7. ASSUME NEW j \in 1..Len(t)
      PROVE  t[j] = (a \o b)[j]
  <2>1. CASE j <= i - 1
    <3>1. j \in 1..i - 1
      BY <2>1
    <3> QED
      BY <1>2, <1>5, <1>6, <2>1, <3>1
  <2>2. CASE ~(j <= i - 1)
    <3>1. j \in i..Len(s) - 1 /\ j - (i - 1) \in 1..m /\ i + (j - (i - 1)) = j + 1
      BY <1>1, <2>2
    <3>2. (a \o b)[j] = b[j - (i - 1)]
      BY <1>2, <1>5, <1>6, <2>2
    <3>3. b[j - (i - 1)] = s[j + 1]
      BY <1>4, <3>1
    <3> QED
      BY <3>1, <3>2, <3>3
  <2> QED
    BY <2>1, <2>2
<1>8. t = a \o b
  BY <1>5, <1>6, <1>7, SameCells
<1> QED
  BY <1>3, <1>8

-----------------------------------------------------------------------------
(* The file with one rotten cell.                                            *)

\* The row of the entries a + 1 to b, none of which has the cell p, is found.
LEMMA RowBeside ==
    ASSUME EntriesFit, IInv, LayoutInv, NEW p \in DOMAIN file, NEW n \in 0..Base - 1,
           NEW c, Rotten(c, file, p, n), NEW a \in 0..Len(appended), NEW b \in a..Len(appended),
           Edges(appended)[b] <= Len(file),
           Edges(appended)[b] < p \/ p <= Edges(appended)[a]
    PROVE  /\ Edges(appended)[a] \in 0..Len(c) /\ Edges(appended)[b] \in 0..Len(c)
           /\ Numbers(c) /\ Len(c) = Len(file)
           /\ StartsWith(From(c)[Edges(appended)[a]], Ents(appended), Edges(appended), a, b - a,
                         From(c)[Edges(appended)[b]])
<1> DEFINE es   == Ents(appended)
           edge == Edges(appended)
           K    == Len(appended)
<1>1. /\ Len(appended) \in Nat /\ Len(file) \in Nat /\ DOMAIN file = 1..Len(file)
      /\ \A i \in 0..K : edge[i] \in Nat
  BY OffsetInStream, IsSeqLen, LenProperties, EdgesAreNat
<1>2. /\ Numbers(c) /\ Len(c) = Len(file)
      /\ \A i \in 1..Len(file) : i # p => c[i] = file[i]
  <2>1. Numbers(file) /\ p \in 1..Len(file)
    BY <1>1, FileNumbers
  <2> QED
    BY <2>1, RottenIs
<1>3. Laid(es, edge, K) /\ edge[0] = 0
  BY EntriesLaid
<1>4. ASSUME NEW i \in a + 1..b
      PROVE  There(c, es, edge, i)
  <2>1. /\ i \in 1..K /\ i - 1 \in 0..K /\ i \in 0..K /\ b \in i..K /\ i - 1 \in a..K
        /\ b \in 0..K /\ edge[i - 1] \in Nat /\ edge[i] \in Nat /\ edge[b] \in Nat
        /\ edge[a] \in Nat
    BY <1>1
  <2>2. edge[i] <= edge[b] /\ edge[a] <= edge[i - 1]
    BY <1>3, <2>1, EdgesRise
  <2>3. edge[b] < p \/ p <= edge[a]
    OBVIOUS
  <2>4. edge[b] <= Len(file)
    OBVIOUS
  <2>5. ASSUME NEW j \in edge[i - 1] + 1..edge[i]
        PROVE  c[j] = file[j]
    <3> DEFINE l  == edge[i - 1]
               r  == edge[i]
               ea == edge[a]
               eb == edge[b]
    <3>0. /\ {l, r, ea, eb} \subseteq Nat /\ ea <= l /\ r <= eb /\ eb <= Len(file)
          /\ eb < p \/ p <= ea
          /\ j \in l + 1..r
      BY <2>1, <2>2, <2>3, <2>4
    <3> HIDE DEF edge, l, r, ea, eb
    <3>1. j \in 1..Len(file) /\ j # p
      BY <1>1, <3>0
    <3> QED
      BY <1>2, <3>1
  <2>6. edge[i] <= Len(file) /\ Len(file) \in 0..Len(file)
    <3> HIDE DEF edge
    <3> QED
      BY <1>1, <2>1, <2>2, <2>4
  <2> QED
    BY <1>2, <2>1, <2>5, <2>6, EntryThere
<1>5. edge[a] <= Len(c) /\ edge[a] \in Nat
  <2>1. edge[a] <= edge[b] /\ edge[a] \in Nat /\ edge[b] \in Nat /\ edge[b] <= Len(c)
    BY <1>1, <1>2, <1>3, EdgesRise
  <2> HIDE DEF edge
  <2> QED
    BY <1>1, <1>2, <2>1
<1>6. edge[b] \in 0..Len(c) /\ StartsWith(From(c)[edge[a]], es, edge, a, b - a, From(c)[edge[b]])
  <2>1. a \in 0..K /\ b \in a..K
    OBVIOUS
  <2> HIDE DEF es, edge, K
  <2> QED
    BY <1>2, <1>3, <1>4, <1>5, <2>1, ScanRow
<1>7. edge[a] \in 0..Len(c)
  <2> HIDE DEF edge
  <2> QED
    BY <1>1, <1>2, <1>5
<1> QED
  BY <1>2, <1>6, <1>7

\* Which entry has the cell p, in terms of the edges.
LEMMA EntryWithIs ==
    ASSUME NEW es, NEW edge, NEW K, Laid(es, edge, K), edge[0] = 0,
           NEW k \in 0..K, NEW found, DOMAIN found = 1..k,
           \A i \in 1..k : /\ found[i].start = edge[i - 1]
                           /\ found[i].value_pos + Len(found[i].value) = edge[i],
           NEW p \in Nat, p >= 1
    PROVE  \/ EntryWith(found, p) = 0 /\ edge[k] < p
           \/ /\ EntryWith(found, p) \in 1..k
              /\ edge[EntryWith(found, p) - 1] < p /\ p <= edge[EntryWith(found, p)]
<1> DEFINE hit == {i \in DOMAIN found : /\ found[i].start < p
                                        /\ p <= found[i].value_pos + Len(found[i].value)}
<1>1. EntryWith(found, p) = IF hit = {} THEN 0 ELSE CHOOSE i \in hit : TRUE
  BY DEF EntryWith
<1>2. \A i : i \in hit <=> i \in 1..k /\ edge[i - 1] < p /\ p <= edge[i]
  OBVIOUS
<1> HIDE DEF hit
<1>3. CASE hit = {}
  <2>1. p - 1 \in Nat /\ edge[0] <= p - 1 /\ K \in Nat
    BY DEF Laid
  <2>2. PICK m \in 0..K : /\ \A i \in 0..m : edge[i] <= p - 1
                          /\ \A i \in m + 1..K : p - 1 < edge[i]
    BY <2>1, LastEdge
  <2>3. k <= m
    <3>1. SUFFICES ASSUME m < k PROVE FALSE
      BY <2>1
    <3>2. m + 1 \in 1..k /\ m + 1 \in m + 1..K /\ (m + 1) - 1 = m /\ m \in 0..m
          /\ m \in 0..K /\ m + 1 \in 0..K
      BY <2>1, <3>1
    <3>3. edge[m] <= p - 1 /\ p - 1 < edge[m + 1] /\ edge[m] \in Nat /\ edge[m + 1] \in Nat
      BY <2>2, <3>2 DEF Laid
    <3> DEFINE x == edge[m]
               y == edge[m + 1]
    <3>4. x < p /\ p <= y
      <4> HIDE DEF x, y
      <4> QED
        BY <3>3 DEF x, y
    <3>5. m + 1 \in hit
      BY <1>2, <3>2, <3>4
    <3> QED
      BY <1>3, <3>5
  <2>4. edge[k] <= p - 1 /\ edge[k] \in Nat
    <3>1. k \in 0..m
      BY <2>1, <2>3
    <3> QED
      BY <2>2, <3>1 DEF Laid
  <2>5. edge[k] < p
    <3> DEFINE x == edge[k]
    <3>1. x <= p - 1 /\ x \in Nat
      BY <2>4
    <3> HIDE DEF x
    <3>2. x < p
      BY <3>1
    <3> QED
      BY <3>2 DEF x
  <2> QED
    BY <1>1, <1>3, <2>5
<1>4. CASE hit # {}
  <2>1. EntryWith(found, p) \in hit
    BY <1>1, <1>4
  <2> QED
    BY <1>2, <2>1
<1> QED
  BY <1>3, <1>4

\* What the scan of the file as it is finds.
LEMMA ScanOfFile ==
    ASSUME EntriesFit, IInv, LayoutInv, NEW k \in 0..Len(appended),
           \A i \in 0..k : Edges(appended)[i] <= Len(file),
           \A i \in k + 1..Len(appended) : Len(file) < Edges(appended)[i]
    PROVE  /\ IsSeq(Scan(file)) /\ Len(Scan(file)) = k /\ DOMAIN Scan(file) = 1..k
           /\ \A i \in 1..k : /\ Scan(file)[i] = Found(Ents(appended)[i], Edges(appended)[i - 1])
                              /\ Scan(file)[i].start = Edges(appended)[i - 1]
                              /\ Scan(file)[i].value_pos + Len(Scan(file)[i].value)
                                     = Edges(appended)[i]
<1> DEFINE L == Len(file)
<1>1. Agrees(file, L, 0) /\ L \in 0..L
  BY FileNumbers, OffsetInStream, IsSeqLen DEF Agrees
<1>2. /\ \A i \in 0..k : Edges(appended)[i] <= L
      /\ \A i \in k + 1..Len(appended) : L < Edges(appended)[i]
  OBVIOUS
<1>3. L \in 0..Len(file)
  BY <1>1
<1> HIDE DEF L
<1>4. /\ IsSeq(Scan(file)) /\ Len(Scan(file)) = k
      /\ \A i \in 1..k : Scan(file)[i] = FoundOf(i)
  BY <1>1, <1>2, <1>3, ScanOfRow
<1>5. DOMAIN Scan(file) = 1..k
  BY <1>4, LenProperties DEF IsSeq
<1>6. ASSUME NEW i \in 1..k
      PROVE  /\ Scan(file)[i] = Found(Ents(appended)[i], Edges(appended)[i - 1])
             /\ Scan(file)[i].start = Edges(appended)[i - 1]
             /\ Scan(file)[i].value_pos + Len(Scan(file)[i].value) = Edges(appended)[i]
  <2>1. i \in 1..Len(appended)
    BY OffsetInStream, LenProperties
  <2>2. Scan(file)[i] = FoundOf(i)
    BY <1>4
  <2> QED
    BY <2>1, <2>2, FoundWhere, Zenon
<1> QED
  BY <1>4, <1>5, <1>6

\* What a scan starts with is a prefix of it.
LEMMA StartIsPrefix ==
    ASSUME NEW g, NEW es, NEW edge, NEW m \in Nat, NEW r, StartsWith(g, es, edge, 0, m, r),
           NEW s, IsSeq(s), Len(s) = m, \A i \in 1..m : s[i] = Found(es[i], edge[i - 1])
    PROVE  IsPrefix(s, g)
<1>1. IsSeq(g) /\ Len(g) = m + Len(r) /\ Len(r) \in Nat
      /\ \A i \in 1..m : g[i] = Found(es[0 + i], edge[0 + i - 1])
  BY IsSeqLen DEF StartsWith
<1>2. Len(s) <= Len(g)
  BY <1>1
<1>3. ASSUME NEW i \in 1..Len(s)
      PROVE  s[i] = g[i]
  <2>1. i \in 1..m /\ 0 + i = i
    OBVIOUS
  <2> QED
    BY <1>1, <2>1
<1> QED
  BY <1>1, <1>2, <1>3, PrefixIs

\* A cell of the i-th entry that is not one of its sizes: the entry is skipped.
LEMMA SkipsRotten ==
    ASSUME EntriesFit, IInv, LayoutInv, NEW p \in DOMAIN file, NEW n \in 0..Base - 1,
           NEW c, Rotten(c, file, p, n), c # file,
           NEW i \in 1..Len(appended), Edges(appended)[i] <= Len(file),
           Edges(appended)[i - 1] < p, p <= Edges(appended)[i],
           p - Edges(appended)[i - 1] \notin {3, 4}
    PROVE  /\ Edges(appended)[i - 1] \in 0..Len(c)
           /\ From(c)[Edges(appended)[i - 1]] = From(c)[Edges(appended)[i]]
<1> DEFINE e   == Ents(appended)[i]
           enc == EncodeEntry(e)
           a   == Edges(appended)[i - 1]
           b   == Edges(appended)[i]
           L   == Len(file)
           r   == p - a
<1>1. /\ appended \in Seq(Appended) /\ Len(appended) \in Nat /\ L \in Nat
      /\ IsSeq(file) /\ Numbers(file) /\ DOMAIN file = 1..L
  BY FileNumbers, OffsetInStream, IsSeqLen, LenProperties DEF IsSeq
<1>2. a \in Nat /\ b \in Nat
  <2>1. i - 1 \in 0..Len(appended) /\ i \in 0..Len(appended)
    BY <1>1
  <2> QED
    BY <1>1, <2>1, EdgesAreNat
<1>3. e \in Entries /\ Fits(e) /\ b = a + Len(enc) /\ IsSeq(enc) /\ Len(enc) \in Nat
  <2>1. e \in Entries /\ Fits(e) /\ b = a + Len(enc)
    BY EntriesLaid DEF Laid
  <2> QED
    BY <2>1, EncodeLong
<1>4. /\ Numbers(c) /\ Len(c) = Len(file) /\ c[p] = Number(n)
      /\ \A j \in 1..Len(file) : j # p => c[j] = file[j]
  <2>1. p \in 1..Len(file)
    BY <1>1
  <2> QED
    BY <1>1, <2>1, RottenIs
<1>5. Has(file, a, enc, Len(enc))
  <2>1. Len(file) \in 0..Len(file)
    BY <1>1
  <2>2. There(file, Ents(appended), Edges(appended), i)
    BY <1>1, <2>1, EntryThere
  <2> QED
    BY <2>2, Zenon DEF There
<1>6. file[p] # Number(n)
  <2>1. SUFFICES ASSUME file[p] = Number(n) PROVE FALSE
    OBVIOUS
  <2>2. \A j \in 1..L : c[j] = file[j]
    BY <1>4, <2>1
  <2>3. IsSeq(c) /\ Len(c) = L
    BY <1>4 DEF Numbers
  <2> HIDE DEF L
  <2>4. Len(file) = L /\ L \in Nat
    BY <1>1 DEF L
  <2>5. c = file
    BY <1>1, <2>2, <2>3, <2>4, SameCells
  <2> QED
    BY <2>5
<1>7. a < p /\ p <= b /\ b <= L /\ p \in 1..L /\ r \notin {3, 4}
  BY <1>1
<1>8. Len(c) = L
  BY <1>4
<1>9. r = p - a
  OBVIOUS
<1> HIDE DEF e, a, b, r
<1>10. enc = EncodeEntry(e)
  OBVIOUS
<1> HIDE DEF enc
<1>11. r \in 1..Len(enc) /\ a + r = p /\ a + Len(enc) <= Len(c)
  BY <1>1, <1>2, <1>3, <1>7, <1>8, <1>9
<1>12. ASSUME NEW j \in 1..Len(enc), j # r
       PROVE  c[a + j] = enc[j]
  <2>1. a + j \in 1..Len(file) /\ a + j # p
    BY <1>1, <1>2, <1>3, <1>7, <1>9, <1>12
  <2>2. file[a + j] = enc[j]
    BY <1>5 DEF Has
  <2> QED
    BY <1>4, <2>1, <2>2
<1>13. c[a + r] = Number(n) /\ enc[r] # Number(n)
  <2>1. file[a + r] = enc[r]
    BY <1>5, <1>11 DEF Has
  <2> QED
    BY <1>4, <1>6, <1>11, <2>1
<1>14. ReadEntry(c, a) = [kind |-> "crc", len |-> Len(enc)]
  <2>1. e \in Entries /\ Fits(e) /\ Numbers(c) /\ a \in Nat
    BY <1>2, <1>3, <1>4
  <2>2. HasBut(c, a, enc, r, n)
    BY <1>7, <1>11, <1>12, <1>13 DEF HasBut
  <2> QED
    BY ONLY <1>10, <2>1, <2>2, RottenRead
<1>15. a \in 0..Len(c)
  BY <1>1, <1>2, <1>7, <1>8
<1>16. From(c)[a] = From(c)[b]
  BY <1>3, <1>4, <1>14, <1>15, FromCrc
<1> QED
  BY <1>15, <1>16 DEF a, b

\* The entries after it are found to the end.
LEMMA RestFound ==
    ASSUME EntriesFit, IInv, LayoutInv, NEW p \in DOMAIN file, NEW n \in 0..Base - 1,
           NEW c, Rotten(c, file, p, n), NEW k \in 0..Len(appended),
           \A j \in 0..k : Edges(appended)[j] <= Len(file),
           \A j \in k + 1..Len(appended) : Len(file) < Edges(appended)[j],
           NEW i \in 1..k, p <= Edges(appended)[i]
    PROVE  /\ IsSeq(From(c)[Edges(appended)[i]]) /\ Len(From(c)[Edges(appended)[i]]) = k - i
           /\ \A j \in 1..k - i :
                  From(c)[Edges(appended)[i]][j]
                      = Found(Ents(appended)[i + j], Edges(appended)[i + j - 1])
<1> DEFINE es   == Ents(appended)
           edge == Edges(appended)
           K    == Len(appended)
<1>1. /\ K \in Nat /\ Len(file) \in Nat /\ DOMAIN file = 1..Len(file)
      /\ i \in 0..K /\ k \in i..K /\ k \in 0..K
      /\ \A j \in 0..K : edge[j] \in Nat
  BY OffsetInStream, IsSeqLen, LenProperties, EdgesAreNat
<1>2. edge[k] <= Len(file) /\ p <= edge[i] /\ edge[i] <= edge[k]
  <2>1. Laid(es, edge, K)
    BY EntriesLaid
  <2>2. k \in 0..k
    BY <1>1
  <2> QED
    BY <1>1, <2>1, <2>2, EdgesRise
<1>3. /\ edge[k] \in 0..Len(c) /\ Numbers(c) /\ Len(c) = Len(file)
      /\ StartsWith(From(c)[edge[i]], es, edge, i, k - i, From(c)[edge[k]])
  BY <1>1, <1>2, RowBeside
<1>4. From(c)[edge[k]] = <<>>
  <2>1. ASSUME NEW j \in edge[k] + 1..Len(file)
        PROVE  c[j] = file[j]
    <3> DEFINE x == edge[k]
               y == edge[i]
    <3>1. x \in Nat /\ y \in Nat /\ p <= y /\ y <= x /\ j \in x + 1..Len(file)
      BY <1>1, <1>2
    <3> HIDE DEF x, y
    <3>2. j \in 1..Len(file) /\ j # p
      BY <1>1, <3>1
    <3>3. Numbers(file) /\ p \in 1..Len(file)
      BY <1>1, FileNumbers
    <3>4. \A l \in 1..Len(file) : l # p => c[l] = file[l]
      BY <3>3, RottenIs
    <3> QED
      BY <3>2, <3>4
  <2>2. Agrees(c, Len(file), edge[k])
    BY <1>3, <2>1 DEF Agrees
  <2>3. Len(file) \in 0..Len(file) /\ (k < K => Len(file) < edge[k + 1])
    BY <1>1
  <2>4. ReadEntry(c, edge[k]).kind \in {"eof", "truncated"}
    BY <1>1, <1>2, <2>2, <2>3, NothingAfter
  <2> HIDE DEF edge
  <2> QED
    BY <1>3, <2>4, FromEnd
<1>5. Len(<<>>) = 0
  BY EmptySeq
<1>6. k - i \in Nat
  BY <1>1
<1> HIDE DEF es, edge, K
<1>7. /\ IsSeq(From(c)[edge[i]]) /\ Len(From(c)[edge[i]]) = (k - i) + Len(<<>>)
      /\ \A j \in 1..k - i : From(c)[edge[i]][j] = Found(es[i + j], edge[i + j - 1])
  BY <1>3, <1>4, Zenon DEF StartsWith
<1> QED
  BY <1>5, <1>6, <1>7 DEF es, edge

\* One rotten cell.
LEMMA RotOfCell ==
    ASSUME EntriesFit, IInv, LayoutInv, NEW p \in DOMAIN file, NEW n \in 0..Base - 1,
           NEW c, Rotten(c, file, p, n)
    PROVE  IF EntryWith(Scan(file), p) = 0 THEN IsPrefix(Scan(file), Scan(c))
           ELSE /\ IsPrefix(SubSeq(Scan(file), 1, EntryWith(Scan(file), p) - 1), Scan(c))
                /\ p - Scan(file)[EntryWith(Scan(file), p)].start \notin {3, 4}
                        => Scan(c) \in {Scan(file), RemoveAt(Scan(file), EntryWith(Scan(file), p))}
<1> DEFINE es   == Ents(appended)
           edge == Edges(appended)
           K    == Len(appended)
           s    == Scan(file)
           t    == Scan(c)
           i    == EntryWith(s, p)
<1>1. /\ K \in Nat /\ Len(file) \in Nat /\ DOMAIN file = 1..Len(file) /\ p \in Nat /\ p >= 1
  BY OffsetInStream, IsSeqLen, LenProperties
<1>2. PICK k \in 0..K : /\ \A j \in 0..k : edge[j] <= Len(file)
                        /\ \A j \in k + 1..K : Len(file) < edge[j]
  BY <1>1, WholeEntries
<1>3. /\ IsSeq(s) /\ Len(s) = k /\ DOMAIN s = 1..k
      /\ \A j \in 1..k : /\ s[j] = Found(es[j], edge[j - 1])
                         /\ s[j].start = edge[j - 1]
                         /\ s[j].value_pos + Len(s[j].value) = edge[j]
  BY <1>2, ScanOfFile
<1>4. Laid(es, edge, K) /\ edge[0] = 0
  BY EntriesLaid
<1>5. t = From(c)[edge[0]]
  BY <1>4, ScanIsFrom
<1>6. \/ i = 0 /\ edge[k] < p
      \/ i \in 1..k /\ edge[i - 1] < p /\ p <= edge[i]
  <2>1. \A j \in 1..k : /\ s[j].start = edge[j - 1]
                         /\ s[j].value_pos + Len(s[j].value) = edge[j]
    BY <1>3
  <2> HIDE DEF es, edge, K, s
  <2>2. DOMAIN s = 1..k /\ p \in Nat /\ p >= 1 /\ k \in 0..K
    BY <1>1, <1>3
  <2> QED
    BY ONLY <1>4, <2>1, <2>2, EntryWithIs
<1> HIDE DEF i
\* The first m entries are found when the cell is after them.
<1>7. ASSUME NEW m \in 0..k, edge[m] < p
      PROVE  /\ StartsWith(t, es, edge, 0, m, From(c)[edge[m]])
             /\ IsPrefix(SubSeq(s, 1, m), t)
  <2>1. 0 \in 0..K /\ m \in 0..K /\ m - 0 = m /\ edge[m] <= Len(file) /\ m \in Nat
        /\ m <= k
    BY <1>1, <1>2
  <2>2. StartsWith(From(c)[edge[0]], es, edge, 0, m - 0, From(c)[edge[m]])
    BY <1>7, <2>1, RowBeside
  <2> HIDE DEF es, edge, K, s, t
  <2>3. StartsWith(t, es, edge, 0, m, From(c)[edge[m]])
    BY <1>5, <2>1, <2>2
  <2>4. /\ IsSeq(SubSeq(s, 1, m)) /\ Len(SubSeq(s, 1, m)) = m
        /\ \A j \in 1..m : SubSeq(s, 1, m)[j] = s[j]
    BY <1>3, <2>1, FirstOf
  <2> DEFINE u == SubSeq(s, 1, m)
  <2>5. IsSeq(u) /\ Len(u) = m /\ \A j \in 1..m : u[j] = Found(es[j], edge[j - 1])
    BY <1>3, <2>1, <2>4
  <2> HIDE DEF u
  <2>6. IsPrefix(u, t)
    BY <2>1, <2>3, <2>5, StartIsPrefix
  <2> QED
    BY <2>3, <2>6 DEF u
<1>8. CASE i = 0
  <2>1. ~(0 \in 1..k) /\ k \in 0..k /\ k \in Nat /\ k <= k
    BY <1>1
  <2>2. edge[k] < p
    BY <1>6, <1>8, <2>1
  <2>3. StartsWith(t, es, edge, 0, k, From(c)[edge[k]])
    BY <1>7, <2>1, <2>2
  <2> HIDE DEF es, edge, K, s, t
  <2>4. IsPrefix(s, t)
    BY <1>3, <2>1, <2>3, StartIsPrefix
  <2> QED
    BY <1>8, <2>4 DEF s, t, i
<1>9. CASE i \in 1..k
  <2>1. i # 0 /\ i - 1 \in 0..k /\ i \in 1..K /\ i \in Nat /\ k \in Nat
    BY <1>1, <1>9
  <2>2. edge[i - 1] < p /\ p <= edge[i]
    BY <1>6, <2>1
  <2>3. /\ StartsWith(t, es, edge, 0, i - 1, From(c)[edge[i - 1]])
        /\ IsPrefix(SubSeq(s, 1, i - 1), t)
    BY <1>7, <2>1, <2>2
  <2>4. ASSUME p - s[i].start \notin {3, 4}, c # file
        PROVE  t = RemoveAt(s, i)
    <3>1. s[i].start = edge[i - 1]
      BY <1>3, <1>9
    <3>2. From(c)[edge[i - 1]] = From(c)[edge[i]]
      <4>1. edge[i] <= Len(file) /\ p - edge[i - 1] \notin {3, 4}
        <5>1. i \in 0..k
          BY <1>9, <2>1
        <5> QED
          BY <1>2, <2>4, <3>1, <5>1
      <4> QED
        BY <2>1, <2>2, <2>4, <4>1, SkipsRotten
    <3>3. /\ IsSeq(From(c)[edge[i]]) /\ Len(From(c)[edge[i]]) = k - i
          /\ \A j \in 1..k - i : From(c)[edge[i]][j] = Found(es[i + j], edge[i + j - 1])
      BY <1>2, <1>9, <2>2, RestFound
    <3> DEFINE r == From(c)[edge[i]]
    <3> HIDE DEF es, edge, K, s, t, r
    <3>4. /\ IsSeq(t) /\ Len(t) = (i - 1) + Len(r)
          /\ \A j \in 1..i - 1 : t[j] = Found(es[0 + j], edge[0 + j - 1])
          /\ \A j \in 1..Len(r) : t[(i - 1) + j] = r[j]
      BY <2>3, <3>2 DEF StartsWith, r
    <3>5. Len(r) = k - i /\ \A j \in 1..k - i : r[j] = Found(es[i + j], edge[i + j - 1])
      BY <3>3 DEF r
    <3>6. Len(t) = Len(s) - 1
      BY <1>3, <2>1, <3>4, <3>5
    <3>7. ASSUME NEW j \in 1..i - 1 PROVE t[j] = s[j]
      <4>1. 0 + j = j /\ j \in 1..k
        BY <1>9, <2>1
      <4> QED
        BY <1>3, <3>4, <4>1
    <3>8. ASSUME NEW j \in i..Len(s) - 1 PROVE t[j] = s[j + 1]
      <4> DEFINE l == j - (i - 1)
      <4>1. l \in 1..k - i /\ (i - 1) + l = j /\ i + l = j + 1 /\ j + 1 \in 1..k
        BY <1>3, <1>9, <2>1
      <4> HIDE DEF l
      <4>2. t[j] = r[l]
        BY <3>4, <3>5, <4>1
      <4> DEFINE x == i + l
                 y == j + 1
      <4>3. r[l] = Found(es[x], edge[x - 1])
        <5>1. r[l] = Found(es[i + l], edge[i + (l - 1)])
          BY <3>5, <4>1
        <5>2. i + (l - 1) = (i + l) - 1
          BY <2>1, <4>1
        <5> QED
          BY ONLY <5>1, <5>2, Zenon
      <4>4. s[y] = Found(es[y], edge[y - 1])
        BY <1>3, <4>1
      <4>5. x = y
        BY <4>1
      <4> HIDE DEF x, y
      <4>6. t[j] = s[y]
        BY ONLY <4>2, <4>3, <4>4, <4>5
      <4> QED
        BY <4>6 DEF y
    <3>9. i \in 1..Len(s)
      BY <1>3, <1>9
    <3> QED
      BY <1>3, <3>4, <3>6, <3>7, <3>8, <3>9, RemoveAtIs
  <2>5. p - s[i].start \notin {3, 4} => t \in {s, RemoveAt(s, i)}
    <3>1. c = file => t = s
      OBVIOUS
    <3> HIDE DEF s, t
    <3> QED
      BY <2>4, <3>1
  <2> HIDE DEF s, t
  <2> QED
    BY <2>1, <2>3, <2>5 DEF s, t, i
<1> QED
  BY <1>6, <1>8, <1>9

LEMMA RotContained ==
    ASSUME EntriesFit, IInv, LayoutInv
    PROVE  RotIsContained
<1>1. ASSUME NEW p \in DOMAIN file, NEW n \in 0..Base - 1
      PROVE  LET found == Scan(file)
                 after == Scan([file EXCEPT ![p] = Number(n)])
                 i     == EntryWith(found, p)
             IN  IF i = 0 THEN IsPrefix(found, after)
                 ELSE /\ IsPrefix(SubSeq(found, 1, i - 1), after)
                      /\ p - found[i].start \notin {3, 4}
                             => after \in {found, RemoveAt(found, i)}
  <2> DEFINE c == [file EXCEPT ![p] = Number(n)]
  <2>1. Rotten(c, file, p, n)
    BY DEF Rotten
  <2> HIDE DEF c
  <2>2. IF EntryWith(Scan(file), p) = 0 THEN IsPrefix(Scan(file), Scan(c))
        ELSE /\ IsPrefix(SubSeq(Scan(file), 1, EntryWith(Scan(file), p) - 1), Scan(c))
             /\ p - Scan(file)[EntryWith(Scan(file), p)].start \notin {3, 4}
                   => Scan(c) \in {Scan(file), RemoveAt(Scan(file), EntryWith(Scan(file), p))}
    BY <2>1, RotOfCell
  <2> QED
    BY <2>2, Zenon DEF c
<1> QED
  BY <1>1, Zenon DEF RotIsContained

-----------------------------------------------------------------------------
(* What read_hint does at a position.                                        *)

\* Cells that can be read as numbers; an offset may be any.
Nums(c) == IsSeq(c) /\ \A i \in 1..Len(c) : c[i].num \in Nat

HintKsz(c, p)   == KeySize(c[p + 2].num)
HintLenAt(c, p) == HintHeaderSize + HintKsz(c, p)

\* The record at p.
HintAt(c, p) ==
    [key |-> ReadUpTo(c, p + HintHeaderSize, HintKsz(c, p)), tomb |-> IsTomb(c[p + 2].num),
     tstamp |-> c[p + 1].num, value_size |-> c[p + 3].num, value_pos |-> c[p + 4].num]

\* At the end of the hints, or of what is left of a header.
LEMMA HintNoHeader ==
    ASSUME NEW c, IsSeq(c), NEW p \in 0..Len(c), p + HintHeaderSize > Len(c)
    PROVE  ReadHint(c, p) = IF p = Len(c) THEN [kind |-> "eof"] ELSE [kind |-> "truncated"]
<1> DEFINE h == ReadUpTo(c, p, HintHeaderSize)
<1>1. Len(c) \in Nat /\ HintHeaderSize \in Nat
  BY IsSeqLen DEF HintHeaderSize
<1>2. Len(h) = Len(c) - p /\ (h = <<>> <=> Len(c) - p = 0)
  <2>1. p \in Nat /\ p <= Len(c) /\ p + HintHeaderSize > Len(c)
    BY <1>1
  <2> QED
    BY <1>1, <2>1, ReadUpToIs
<1>3. ReadHint(c, p) = IF h = <<>> THEN [kind |-> "eof"]
                       ELSE IF Len(h) \in 1..HintHeaderSize - 1 THEN [kind |-> "truncated"]
                       ELSE ReadHint(c, p)
  BY DEF ReadHint
<1> HIDE DEF h
<1>4. p # Len(c) => Len(h) \in 1..HintHeaderSize - 1
  BY <1>1, <1>2 DEF HintHeaderSize
<1> QED
  BY <1>1, <1>2, <1>3, <1>4

\* The header, when it is there, and the key, as far as it is.
LEMMA HintHeaderIs ==
    ASSUME NEW c, Nums(c), NEW p \in Nat, p + HintHeaderSize <= Len(c)
    PROVE  /\ HintKsz(c, p) \in Nat /\ HintLenAt(c, p) \in Nat
           /\ HintLenAt(c, p) = 4 + HintKsz(c, p) /\ Len(c) \in Nat
           /\ ReadHint(c, p) =
                 IF Len(ReadUpTo(c, p + HintHeaderSize, HintKsz(c, p))) < HintKsz(c, p)
                 THEN [kind |-> "truncated"]
                 ELSE [kind |-> "ok", len |-> HintLenAt(c, p), record |-> HintAt(c, p)]
           /\ Len(ReadUpTo(c, p + HintHeaderSize, HintKsz(c, p))) < HintKsz(c, p)
                 <=> p + HintLenAt(c, p) > Len(c)
<1> DEFINE h == ReadUpTo(c, p, HintHeaderSize)
           k == HintKsz(c, p)
           b == ReadUpTo(c, p + HintHeaderSize, k)
<1>1. Len(c) \in Nat /\ HintHeaderSize \in Nat /\ IsSeq(c) /\ p <= Len(c) /\ HintHeaderSize = 4
  BY IsSeqLen DEF HintHeaderSize, Nums
<1>2. IsSeq(h) /\ Len(h) = HintHeaderSize /\ \A i \in 1..HintHeaderSize : h[i] = c[p + i]
  <2>1. /\ IsSeq(h) /\ (p + HintHeaderSize <= Len(c) => Len(h) = HintHeaderSize)
        /\ \A i \in 1..Len(h) : h[i] = c[p + i]
    BY <1>1, ReadUpToIs
  <2> QED
    BY <2>1
<1>3. /\ h # <<>> /\ ~(Len(h) \in 1..HintHeaderSize - 1)
      /\ h[1] = c[p + 1] /\ h[2] = c[p + 2] /\ h[3] = c[p + 3] /\ h[4] = c[p + 4]
  <2> HIDE DEF h, k, b
  <2>1. Len(h) = 4 /\ (h = <<>> <=> Len(h) = 0)
    BY <1>1, <1>2, IsSeqLen
  <2>2. h # <<>> /\ ~(Len(h) \in 1..HintHeaderSize - 1)
    BY <1>1, <2>1
  <2>3. 1 \in 1..HintHeaderSize /\ 2 \in 1..HintHeaderSize
        /\ 3 \in 1..HintHeaderSize /\ 4 \in 1..HintHeaderSize
    BY <1>1
  <2>4. h[1] = c[p + 1] /\ h[2] = c[p + 2] /\ h[3] = c[p + 3] /\ h[4] = c[p + 4]
    BY <1>2, <2>3
  <2> QED
    BY <2>2, <2>4
<1>4. k \in Nat
  <2>1. p + 2 \in 1..Len(c)
    BY <1>1
  <2>2. c[p + 2].num \in Nat
    BY <2>1 DEF Nums
  <2> QED
    BY <2>2, KeySizeIsNat DEF HintKsz
<1>5. HintLenAt(c, p) = 4 + k /\ HintLenAt(c, p) \in Nat
  BY <1>1, <1>4 DEF HintLenAt
<1>6. KeySize(h[2].num) = k
  BY <1>3 DEF HintKsz
<1>7. ReadHint(c, p) = IF Len(b) < k THEN [kind |-> "truncated"]
                       ELSE [kind |-> "ok", len |-> HintHeaderSize + k,
                             record |-> [key |-> b, tomb |-> IsTomb(h[2].num), tstamp |-> h[1].num,
                                         value_size |-> h[3].num, value_pos |-> h[4].num]]
  BY <1>3, <1>6, Zenon DEF ReadHint
<1>8. HintAt(c, p) = [key |-> b, tomb |-> IsTomb(h[2].num), tstamp |-> h[1].num,
                      value_size |-> h[3].num, value_pos |-> h[4].num]
  BY <1>3, Zenon DEF HintAt
<1>9. Len(b) < k <=> p + HintLenAt(c, p) > Len(c)
  <2> DEFINE q == p + HintHeaderSize
  <2>1. q \in Nat /\ q <= Len(c) /\ q = p + 4
    BY <1>1
  <2> HIDE DEF q, k
  <2> DEFINE u == ReadUpTo(c, q, k)
  <2>2. (q + k <= Len(c) => Len(u) = k) /\ (q + k > Len(c) => Len(u) = Len(c) - q)
    BY <1>1, <1>4, <2>1, ReadUpToIs
  <2>3. u = b
    BY DEF q
  <2> HIDE DEF u, b
  <2>4. Len(b) < k <=> q + k > Len(c)
    BY <1>1, <1>4, <2>1, <2>2, <2>3
  <2> QED
    BY <1>1, <1>4, <1>5, <2>1, <2>4
<1> QED
  BY <1>1, <1>4, <1>5, <1>7, <1>8, <1>9, Zenon DEF HintLenAt

\* The loop goes on past a record that is there to its end.
LEMMA HintStep ==
    ASSUME NEW c, Nums(c), NEW p \in 0..Len(c), ReadHint(c, p).kind = "ok"
    PROVE  /\ ReadHint(c, p).len \in Nat /\ ReadHint(c, p).len >= 4
           /\ p + ReadHint(c, p).len <= Len(c) /\ Len(c) \in Nat
<1>1. Len(c) \in Nat /\ p \in Nat /\ p <= Len(c) /\ HintHeaderSize \in Nat /\ IsSeq(c)
  BY IsSeqLen DEF HintHeaderSize, Nums
<1>2. p + HintHeaderSize <= Len(c)
  <2>1. SUFFICES ASSUME p + HintHeaderSize > Len(c) PROVE FALSE
    BY <1>1
  <2>2. ReadHint(c, p) = IF p = Len(c) THEN [kind |-> "eof"] ELSE [kind |-> "truncated"]
    BY <1>1, <2>1, HintNoHeader
  <2> QED
    BY <2>2
<1> DEFINE b == ReadUpTo(c, p + HintHeaderSize, HintKsz(c, p))
<1>3. /\ HintKsz(c, p) \in Nat /\ HintLenAt(c, p) = 4 + HintKsz(c, p)
      /\ ReadHint(c, p) =
            IF Len(b) < HintKsz(c, p)
            THEN [kind |-> "truncated"]
            ELSE [kind |-> "ok", len |-> HintLenAt(c, p), record |-> HintAt(c, p)]
      /\ Len(b) < HintKsz(c, p) <=> p + HintLenAt(c, p) > Len(c)
  BY <1>1, <1>2, HintHeaderIs
<1> HIDE DEF b
<1>4. ~(Len(b) < HintKsz(c, p)) /\ ReadHint(c, p).len = HintLenAt(c, p)
  BY <1>3
<1>5. ~(p + HintLenAt(c, p) > Len(c)) /\ HintLenAt(c, p) \in Nat /\ HintLenAt(c, p) >= 4
  BY <1>3, <1>4
<1> QED
  BY <1>1, <1>4, <1>5

-----------------------------------------------------------------------------
(* The loop of try_scan_hint_file, as an equation that has a solution.       *)

HintBody(g, c, pos) ==
    LET r == ReadHint(c, pos) IN
    IF r.kind # "ok" THEN <<r>> ELSE <<r>> \o g[pos + r.len]

IsHintScan(g, c, low) == g = [pos \in low..Len(c) |-> HintBody(g, c, pos)]

HintFrom(c) == CHOOSE g : IsHintScan(g, c, 0)

\* What is done with what was read.
HintUsed(read, cells, n) ==
    /\ VerifyHintFile(cells) /\ Last(read).kind = "eof"
    /\ \A i \in DOMAIN read :
          read[i].kind = "ok" => read[i].record.value_pos + read[i].record.value_size <= n

LEMMA ScanHintIs ==
    ASSUME NEW cells, NEW n
    PROVE  ScanHint(cells, n) =
               IF HintUsed(HintFrom(Front(cells))[0], cells, n)
               THEN [used |-> TRUE,
                     records |-> [i \in 1..Len(HintFrom(Front(cells))[0]) - 1 |->
                                     HintFrom(Front(cells))[0][i].record]]
               ELSE [used |-> FALSE, records |-> <<>>]
BY DEF ScanHint, HintFrom, IsHintScan, HintBody, HintUsed

\* The body at pos looks only past what is read there.
LEMMA HintBodyLocal ==
    ASSUME NEW c, Nums(c), NEW pos \in 0..Len(c), NEW f, NEW g,
           \A q \in pos + 1..Len(c) : f[q] = g[q]
    PROVE  HintBody(f, c, pos) = HintBody(g, c, pos)
<1> DEFINE r == ReadHint(c, pos)
<1>1. r.kind = "ok" => f[pos + r.len] = g[pos + r.len]
  <2>1. SUFFICES ASSUME r.kind = "ok" PROVE f[pos + r.len] = g[pos + r.len]
    OBVIOUS
  <2>2. r.len \in Nat /\ r.len >= 4 /\ pos + r.len <= Len(c) /\ Len(c) \in Nat
    BY <2>1, HintStep
  <2> HIDE DEF r
  <2>3. pos + r.len \in pos + 1..Len(c)
    BY <2>2
  <2> QED
    BY <2>3
<1> HIDE DEF r
<1> QED
  BY <1>1 DEF HintBody, r

\* It gives a sequence if they are sequences there.
LEMMA HintBodyIsSeq ==
    ASSUME NEW c, Nums(c), NEW pos \in 0..Len(c), NEW g,
           \A q \in pos + 1..Len(c) : IsSeq(g[q])
    PROVE  IsSeq(HintBody(g, c, pos))
<1> DEFINE r == ReadHint(c, pos)
           one == <<r>>
<1>1. IsSeq(one)
  BY OneIsSeq
<1>2. CASE r.kind # "ok"
  BY <1>1, <1>2 DEF HintBody
<1>3. CASE r.kind = "ok"
  <2>1. r.len \in Nat /\ r.len >= 4 /\ pos + r.len <= Len(c) /\ Len(c) \in Nat
    BY <1>3, HintStep
  <2>2. HintBody(g, c, pos) = one \o g[pos + r.len]
    BY <1>3 DEF HintBody
  <2> HIDE DEF r, one
  <2>3. pos + r.len \in pos + 1..Len(c)
    BY <2>1
  <2> QED
    BY <1>1, <2>2, <2>3, ConcatIsSeq
<1> QED
  BY <1>2, <1>3

\* The loop ends from everywhere.
LEMMA HintScanExists ==
    ASSUME NEW c, Nums(c)
    PROVE  \E g : IsHintScan(g, c, 0)
<1> DEFINE S == {n \in Nat : n <= Len(c) + 1 => \E g : IsHintScan(g, c, (Len(c) + 1) - n)}
<1>1. Len(c) \in Nat
  BY IsSeqLen DEF Nums
<1>2. 0 \in S
  <2> DEFINE low == (Len(c) + 1) - 0
             g   == [pos \in low..Len(c) |-> <<>>]
  <2>1. low..Len(c) = {}
    BY <1>1
  <2>2. IsHintScan(g, c, low)
    BY <2>1 DEF IsHintScan
  <2> QED
    BY <2>2
<1>3. ASSUME NEW n \in Nat, n \in S
      PROVE  n + 1 \in S
  <2>1. SUFFICES ASSUME n + 1 <= Len(c) + 1
                 PROVE  \E g : IsHintScan(g, c, (Len(c) + 1) - (n + 1))
    OBVIOUS
  <2>2. PICK g : IsHintScan(g, c, (Len(c) + 1) - n)
    BY <1>1, <1>3, <2>1
  <2> DEFINE low == (Len(c) + 1) - (n + 1)
             f   == [pos \in low..Len(c) |-> IF pos = low THEN HintBody(g, c, low) ELSE g[pos]]
  <2>3. low \in 0..Len(c) /\ (Len(c) + 1) - n = low + 1
    BY <1>1, <2>1
  <2>4. g = [pos \in low + 1..Len(c) |-> HintBody(g, c, pos)]
    BY <2>2, <2>3 DEF IsHintScan
  <2> HIDE DEF low
  <2>5. ASSUME NEW pos \in low..Len(c)
        PROVE  f[pos] = HintBody(f, c, pos)
    <3>1. \A q \in pos + 1..Len(c) : f[q] = g[q]
      BY <1>1, <2>3
    <3>2. pos \in 0..Len(c)
      BY <1>1, <2>3
    <3> HIDE DEF f
    <3>3. HintBody(f, c, pos) = HintBody(g, c, pos)
      BY <3>1, <3>2, HintBodyLocal
    <3>4. f[pos] = HintBody(g, c, pos)
      <4>1. CASE pos = low
        BY <4>1 DEF f
      <4>2. CASE pos # low
        <5>1. pos \in low + 1..Len(c)
          BY <1>1, <2>3, <4>2
        <5>2. g[pos] = HintBody(g, c, pos)
          BY <2>4, <5>1, Zenon
        <5> QED
          BY <4>2, <5>2 DEF f
      <4> QED
        BY <4>1, <4>2
    <3> QED
      BY <3>3, <3>4
  <2>6. IsHintScan(f, c, low)
    <3>1. f = [pos \in low..Len(c) |-> f[pos]]
      OBVIOUS
    <3> HIDE DEF f
    <3> QED
      BY <2>5, <3>1, Zenon DEF IsHintScan
  <2> HIDE DEF f
  <2> QED
    BY <2>6 DEF low
<1> HIDE DEF S
<1>4. Nat \subseteq S
  BY <1>2, <1>3, NatSetInduction
<1>5. Len(c) + 1 \in S
  BY <1>1, <1>4
<1>6. PICK g : IsHintScan(g, c, (Len(c) + 1) - (Len(c) + 1))
  BY <1>1, <1>5 DEF S
<1>7. (Len(c) + 1) - (Len(c) + 1) = 0
  BY <1>1
<1> QED
  BY <1>6, <1>7

\* What the loop reads from a position on: what is there, and what follows it.
LEMMA HintFromIs ==
    ASSUME NEW c, Nums(c), NEW pos \in 0..Len(c)
    PROVE  HintFrom(c)[pos] = HintBody(HintFrom(c), c, pos) /\ IsSeq(HintFrom(c)[pos])
<1> DEFINE g == HintFrom(c)
           S == {n \in Nat : \A p \in 0..Len(c) : Len(c) - p < n => IsSeq(g[p])}
<1>1. IsHintScan(g, c, 0)
  BY HintScanExists DEF HintFrom
<1> HIDE DEF g
<1>2. \A p \in 0..Len(c) : g[p] = HintBody(g, c, p)
  <2>1. g = [p \in 0..Len(c) |-> HintBody(g, c, p)]
    BY <1>1 DEF IsHintScan
  <2> QED
    BY <2>1, Zenon
<1>3. Len(c) \in Nat
  BY IsSeqLen DEF Nums
<1>4. 0 \in S
  BY <1>3
<1>5. ASSUME NEW n \in Nat, n \in S
      PROVE  n + 1 \in S
  <2>1. ASSUME NEW p \in 0..Len(c), Len(c) - p < n + 1
        PROVE  IsSeq(g[p])
    <3>1. \A q \in p + 1..Len(c) : IsSeq(g[q])
      BY <1>3, <1>5, <2>1
    <3> QED
      BY <1>2, <3>1, HintBodyIsSeq
  <2> QED
    BY <2>1
<1> HIDE DEF S
<1>6. Nat \subseteq S
  BY <1>4, <1>5, NatSetInduction
<1>7. IsSeq(g[pos])
  <2>1. Len(c) - pos + 1 \in S /\ Len(c) - pos < Len(c) - pos + 1
    BY <1>3, <1>6
  <2> QED
    BY <2>1 DEF S
<1> QED
  BY <1>2, <1>7 DEF g

\* s is x and then t.
IsCons(s, x, t) ==
    /\ IsSeq(s) /\ IsSeq(t) /\ Len(s) = 1 + Len(t) /\ s[1] = x
    /\ \A j \in 1..Len(t) : s[1 + j] = t[j]

\* A record that is read comes first, before what follows it.
LEMMA HintFromOk ==
    ASSUME NEW c, Nums(c), NEW p \in 0..Len(c), NEW x, x = ReadHint(c, p), x.kind = "ok",
           NEW q, q = p + x.len
    PROVE  IsCons(HintFrom(c)[p], x, HintFrom(c)[q])
<1>1. Len(c) \in Nat /\ x.len \in Nat /\ q <= Len(c)
  BY HintStep
<1>2. q \in 0..Len(c)
  BY <1>1
<1>3. HintFrom(c)[p] = <<x>> \o HintFrom(c)[q]
  BY HintFromIs DEF HintBody
<1> DEFINE r == HintFrom(c)[q]
           one == <<x>>
           g == HintFrom(c)[p]
<1>4. IsSeq(r) /\ IsSeq(g)
  BY <1>2, HintFromIs
<1>5. IsSeq(one) /\ Len(one) = 1 /\ one[1] = x
  BY OneIsSeq
<1>6. g = one \o r
  BY <1>3
<1> HIDE DEF r, one, g
<1>7. /\ Len(one \o r) = Len(one) + Len(r)
      /\ \A i \in 1..Len(one) + Len(r) : (one \o r)[i] = IF i <= Len(one) THEN one[i] ELSE r[i - Len(one)]
  BY <1>4, <1>5, ConcatIsSeq
<1>8. Len(r) \in Nat
  BY <1>4, IsSeqLen
<1>9. Len(g) = 1 + Len(r) /\ g[1] = x
  BY <1>5, <1>6, <1>7, <1>8
<1>10. ASSUME NEW j \in 1..Len(r) PROVE g[1 + j] = r[j]
  <2>1. 1 + j \in 1..1 + Len(r) /\ ~(1 + j <= 1) /\ (1 + j) - 1 = j
    BY <1>8
  <2> QED
    BY <1>5, <1>6, <1>7, <2>1
<1> QED
  BY <1>4, <1>9, <1>10 DEF r, g, IsCons

\* Where no record is read, that is all.
LEMMA HintFromEnd ==
    ASSUME NEW c, Nums(c), NEW p \in 0..Len(c), NEW x, x = ReadHint(c, p), x.kind # "ok"
    PROVE  IsSeq(HintFrom(c)[p]) /\ Len(HintFrom(c)[p]) = 1 /\ HintFrom(c)[p][1] = x
<1>1. HintFrom(c)[p] = <<x>>
  BY HintFromIs DEF HintBody
<1> QED
  BY <1>1, OneIsSeq

-----------------------------------------------------------------------------
(* A row of hint records.                                                    *)

HintOf(app, i) == EncodeHint(app[i].entry, app[i].value_pos)

\* The hint for an entry, as it is read.
HintRead(e, pos) ==
    [kind |-> "ok", len |-> HintHeaderSize + Len(e.key),
     record |-> [key |-> e.key, tomb |-> e.tomb, tstamp |-> e.tstamp,
                value_size |-> Len(e.value), value_pos |-> pos]]

\* The cells of an encoded hint.
LEMMA EncodeHintIs ==
    ASSUME NEW e \in Entries, Fits(e), NEW pos \in Nat, NEW enc, enc = EncodeHint(e, pos)
    PROVE  /\ Nums(enc) /\ Len(enc) \in Nat /\ Len(e.key) \in Nat /\ IsSeq(e.key)
           /\ Len(enc) = 4 + Len(e.key)
           /\ enc[1].num \in Nat /\ enc[1] = Number(enc[1].num)
           /\ enc[1].num = e.tstamp
           /\ KeySize(enc[2].num) = Len(e.key) /\ IsTomb(enc[2].num) = e.tomb
           /\ enc[3].num = Len(e.value) /\ enc[4].num = pos
           /\ \A i \in 1..Len(e.key) : enc[4 + i] = e.key[i]
<1> DEFINE w  == EncodeKeySize(Len(e.key), e.tomb)
           k  == e.key
           v  == e.value
           hd == <<Number(e.tstamp), Number(w), Number(Len(v) % Base), Number(pos)>>
<1>1. IsSeq(k) /\ IsSeq(v) /\ Len(k) \in Nat /\ Len(v) \in Nat
  BY IsSeqLen DEF Fits, Numbers
<1>2. Base \in Nat /\ Base > 0
  BY BaseFacts
<1>3. w \in 1..Base - 1 /\ KeySize(w) = Len(k) /\ IsTomb(w) = e.tomb
  <2>1. Len(k) \in 1..MaxKeyLen /\ e.tomb \in BOOLEAN
    BY DEF Fits
  <2> QED
    BY <2>1, KeySizeFacts, Zenon
<1>4. Len(v) % Base = Len(v)
  <2> DEFINE n == Len(v)
  <2>1. n \in Nat /\ n < Base /\ Base \in Nat
    BY <1>1, <1>2 DEF Fits
  <2> HIDE DEF n
  <2>2. n % Base = n
    BY <2>1, ModBase
  <2> QED
    BY <2>2 DEF n
<1>5. /\ IsSeq(hd) /\ Len(hd) = 4 /\ hd[1] = Number(e.tstamp) /\ hd[2] = Number(w)
      /\ hd[3] = Number(Len(v)) /\ hd[4] = Number(pos)
  <2>1. hd \in Seq({Number(e.tstamp), Number(w), Number(Len(v) % Base), Number(pos)})
    OBVIOUS
  <2>2. IsSeq(hd)
    BY <2>1, SeqIsSeq
  <2> QED
    BY <1>4, <2>2
<1>6. enc = hd \o k
  BY DEF EncodeHint
<1>7. \A i \in 1..Len(k) : k[i].num \in Nat
  BY <1>2 DEF Fits, Numbers
<1> HIDE DEF w, hd, k, v
<1>8. /\ IsSeq(enc) /\ Len(enc) = 4 + Len(k)
      /\ \A i \in 1..4 + Len(k) : enc[i] = IF i <= 4 THEN hd[i] ELSE k[i - 4]
  <2>1. /\ IsSeq(enc) /\ Len(enc) = Len(hd) + Len(k)
        /\ \A i \in 1..Len(hd) + Len(k) : enc[i] = IF i <= Len(hd) THEN hd[i] ELSE k[i - Len(hd)]
    BY <1>1, <1>5, <1>6, ConcatIsSeq
  <2> QED
    BY <1>5, <2>1
<1>9. enc[1] = Number(e.tstamp) /\ enc[2] = Number(w) /\ enc[3] = Number(Len(v)) /\ enc[4] = Number(pos)
  BY <1>1, <1>5, <1>8
<1>10. ASSUME NEW i \in 1..Len(k)
       PROVE  enc[4 + i] = k[i]
  <2>1. 4 + i \in 1..4 + Len(k) /\ ~(4 + i <= 4) /\ (4 + i) - 4 = i
    BY <1>1
  <2> QED
    BY <1>8, <2>1
<1>11. enc[1].num = e.tstamp /\ enc[2].num = w /\ enc[3].num = Len(v) /\ enc[4].num = pos
  BY <1>9 DEF Number
<1>12. w \in Nat /\ e.tstamp \in Nat
  BY <1>2, <1>3 DEF Fits
<1>13. ASSUME NEW i \in 1..Len(enc)
       PROVE  enc[i].num \in Nat
  <2>1. CASE i <= 4
    <3>1. i = 1 \/ i = 2 \/ i = 3 \/ i = 4
      BY <2>1
    <3> QED
      BY <1>1, <1>11, <1>12, <3>1
  <2>2. CASE i > 4
    <3>1. i - 4 \in 1..Len(k) /\ 4 + (i - 4) = i
      BY <1>1, <1>8, <2>2
    <3> QED
      BY <1>7, <1>10, <3>1
  <2> QED
    BY <1>1, <1>8, <2>1, <2>2
<1>14. Len(enc) \in Nat
  BY <1>1, <1>8
<1> QED
  BY <1>1, <1>3, <1>8, <1>9, <1>10, <1>11, <1>12, <1>13, <1>14 DEF Nums, k, v

\* A whole record is read as it was encoded.
LEMMA HintWholeRead ==
    ASSUME NEW e \in Entries, Fits(e), NEW pos \in Nat, NEW enc, enc = EncodeHint(e, pos),
           NEW c, Nums(c), NEW p \in Nat, Has(c, p, enc, Len(enc))
    PROVE  ReadHint(c, p) = HintRead(e, pos)
<1> DEFINE k == Len(e.key)
<1>1. /\ IsSeq(enc) /\ Len(enc) \in Nat /\ k \in Nat /\ IsSeq(e.key) /\ Len(enc) = 4 + k
      /\ KeySize(enc[2].num) = k /\ IsTomb(enc[2].num) = e.tomb
      /\ enc[1].num = e.tstamp /\ enc[3].num = Len(e.value) /\ enc[4].num = pos
      /\ \A i \in 1..k : enc[4 + i] = e.key[i]
  BY EncodeHintIs DEF Nums
<1>2. /\ p + Len(enc) <= Len(c) /\ \A j \in 1..Len(enc) : c[p + j] = enc[j]
      /\ Len(c) \in Nat /\ IsSeq(c)
  BY IsSeqLen DEF Has, Nums
<1> HIDE DEF k
<1>3. c[p + 1] = enc[1] /\ c[p + 2] = enc[2] /\ c[p + 3] = enc[3] /\ c[p + 4] = enc[4]
  <2>1. 1 \in 1..Len(enc) /\ 2 \in 1..Len(enc) /\ 3 \in 1..Len(enc) /\ 4 \in 1..Len(enc)
    BY <1>1
  <2> QED
    BY <1>2, <2>1
<1>4. HintKsz(c, p) = k
  BY <1>1, <1>3 DEF HintKsz
<1>5. p + HintHeaderSize <= Len(c) /\ HintHeaderSize = 4
  BY <1>1, <1>2 DEF HintHeaderSize
<1> DEFINE b == ReadUpTo(c, p + HintHeaderSize, k)
<1>6. b = e.key
  <2> DEFINE q == p + HintHeaderSize
             u == ReadUpTo(c, q, k)
  <2>1. q \in Nat /\ q + k <= Len(c) /\ q <= Len(c) /\ q = p + 4
    BY <1>1, <1>2, <1>5
  <2>2. u = b
    OBVIOUS
  <2> HIDE DEF q, b
  <2>3. IsSeq(u) /\ Len(u) = k /\ \A i \in 1..Len(u) : u[i] = c[q + i]
    <3>1. IsSeq(c) /\ q \in Nat /\ q <= Len(c) /\ k \in Nat /\ q + k <= Len(c)
      BY <1>1, <1>2, <2>1
    <3> QED
      BY ONLY <3>1, ReadUpToIs
  <2> HIDE DEF u
  <2>4. ASSUME NEW i \in 1..k
        PROVE  u[i] = e.key[i]
    <3>1. q + i = p + (4 + i) /\ 4 + i \in 1..Len(enc)
      BY <1>1, <2>1
    <3>2. c[p + (4 + i)] = enc[4 + i]
      BY <1>2, <3>1
    <3> QED
      BY <1>1, <2>3, <3>1, <3>2
  <2>5. u = e.key
    BY <1>1, <2>3, <2>4, SameCells DEF k
  <2> QED
    BY <2>2, <2>5
<1>7. /\ HintLenAt(c, p) = 4 + k
      /\ ReadHint(c, p) =
            IF Len(b) < k THEN [kind |-> "truncated"]
            ELSE [kind |-> "ok", len |-> HintLenAt(c, p), record |-> HintAt(c, p)]
  BY <1>4, <1>5, HintHeaderIs
<1>8. HintAt(c, p) = [key |-> b, tomb |-> IsTomb(enc[2].num), tstamp |-> enc[1].num,
                      value_size |-> enc[3].num, value_pos |-> enc[4].num]
  BY <1>3, <1>4, Zenon DEF HintAt
<1>9. ~(Len(b) < k)
  BY <1>1, <1>6 DEF k
<1> HIDE DEF b
<1>10. ReadHint(c, p) = [kind |-> "ok", len |-> 4 + k, record |-> HintAt(c, p)]
  BY <1>7, <1>9
<1>11. HintAt(c, p) = [key |-> e.key, tomb |-> e.tomb, tstamp |-> e.tstamp,
                       value_size |-> Len(e.value), value_pos |-> pos]
  BY <1>1, <1>6, <1>8
<1> QED
  BY <1>5, <1>10, <1>11 DEF HintRead, k

\* A record of which only a part is there is not read.
LEMMA HintTornRead ==
    ASSUME NEW e \in Entries, Fits(e), NEW pos \in Nat, NEW enc, enc = EncodeHint(e, pos),
           NEW c, Nums(c), NEW p \in Nat, p < Len(c), Len(c) < p + Len(enc),
           \A j \in 1..Len(c) - p : c[p + j] = enc[j]
    PROVE  ReadHint(c, p) = [kind |-> "truncated"]
<1>1. Len(enc) = 4 + Len(e.key) /\ KeySize(enc[2].num) = Len(e.key) /\ Len(e.key) \in Nat
  BY EncodeHintIs
<1>2. Len(c) \in Nat /\ IsSeq(c) /\ HintHeaderSize = 4 /\ p \in 0..Len(c) /\ p # Len(c)
  BY IsSeqLen DEF Nums, HintHeaderSize
<1>3. CASE p + HintHeaderSize > Len(c)
  BY <1>2, <1>3, HintNoHeader
<1>4. CASE ~(p + HintHeaderSize > Len(c))
  <2>1. p + HintHeaderSize <= Len(c) /\ 2 \in 1..Len(c) - p
    BY <1>2, <1>4
  <2>2. HintKsz(c, p) = Len(e.key)
    BY <1>1, <2>1 DEF HintKsz
  <2> DEFINE b == ReadUpTo(c, p + HintHeaderSize, HintKsz(c, p))
  <2>3. /\ HintLenAt(c, p) = 4 + HintKsz(c, p)
        /\ ReadHint(c, p) =
              IF Len(b) < HintKsz(c, p) THEN [kind |-> "truncated"]
              ELSE [kind |-> "ok", len |-> HintLenAt(c, p), record |-> HintAt(c, p)]
        /\ Len(b) < HintKsz(c, p) <=> p + HintLenAt(c, p) > Len(c)
    BY <2>1, HintHeaderIs
  <2> HIDE DEF b
  <2>4. p + HintLenAt(c, p) > Len(c)
    <3>1. HintLenAt(c, p) = Len(enc)
      BY <1>1, <2>2, <2>3
    <3>2. Len(enc) \in Nat
      BY <1>1
    <3> QED
      BY <1>2, <3>1, <3>2
  <2> QED
    BY <2>3, <2>4
<1> QED
  BY <1>3, <1>4

\* The hints b are one record for each entry of app, the i-th between edges i - 1 and i.
HintRow(b, edge, app) ==
    /\ Nums(b) /\ edge[0] = 0 /\ edge[Len(app)] = Len(b)
    /\ \A i \in 0..Len(app) : edge[i] \in Nat
    /\ \A i \in 1..Len(app) : /\ edge[i] = edge[i - 1] + Len(HintOf(app, i))
                              /\ Has(b, edge[i - 1], HintOf(app, i), Len(HintOf(app, i)))

\* g starts with the records of the first n entries, and r follows.
HintsThen(g, app, n, r) ==
    /\ IsSeq(g) /\ IsSeq(r) /\ Len(g) = n + Len(r)
    /\ \A i \in 1..n : g[i] = HintRead(app[i].entry, app[i].value_pos)
    /\ \A j \in 1..Len(r) : g[n + j] = r[j]

\* The first k records are read from the first m cells, if those have them.
LEMMA HintRowRead ==
    ASSUME EntriesFit, NEW app \in Seq(Appended), NEW b, NEW edge, HintRow(b, edge, app),
           NEW c, Nums(c), Len(c) <= Len(b), \A i \in 1..Len(c) : c[i] = b[i],
           NEW k \in 0..Len(app), \A i \in 0..k : edge[i] <= Len(c)
    PROVE  HintsThen(HintFrom(c)[0], app, k, HintFrom(c)[edge[k]])
<1> DEFINE S == {n \in Nat : n <= k => HintsThen(HintFrom(c)[0], app, n, HintFrom(c)[edge[n]])}
<1>1. Len(app) \in Nat /\ Len(c) \in Nat /\ k \in Nat /\ edge[0] = 0 /\ Len(b) \in Nat
  BY IsSeqLen, LenProperties DEF Nums, HintRow
<1>2. 0 \in S
  <2> DEFINE g == HintFrom(c)[0]
  <2>1. IsSeq(g)
    BY <1>1, HintFromIs
  <2> HIDE DEF g
  <2>2. Len(g) \in Nat
    BY <2>1, IsSeqLen
  <2>3. HintsThen(g, app, 0, g)
    BY <2>1, <2>2 DEF HintsThen
  <2> QED
    BY <1>1, <2>3 DEF g
<1>3. ASSUME NEW n \in Nat, n \in S
      PROVE  n + 1 \in S
  <2> DEFINE g == HintFrom(c)[0]
             r == HintFrom(c)[edge[n]]
             t == HintFrom(c)[edge[n + 1]]
  <2>1. SUFFICES ASSUME n + 1 <= k PROVE HintsThen(g, app, n + 1, t)
    OBVIOUS
  <2>2. HintsThen(g, app, n, r)
    BY <1>1, <1>3, <2>1
  <2> DEFINE i   == n + 1
             e   == app[i].entry
             pos == app[i].value_pos
             enc == EncodeHint(e, pos)
             p   == edge[n]
  <2>3. i \in 1..Len(app) /\ i - 1 = n /\ n \in 0..k /\ i \in 0..k /\ n \in 0..Len(app)
    BY <1>1, <2>1
  <2>4. e \in Entries /\ Fits(e) /\ pos \in Nat
    <3>1. app[i] \in Appended
      BY <2>3
    <3> QED
      BY <3>1 DEF Appended, EntriesFit
  <2>5. /\ p \in Nat /\ edge[i] = p + Len(enc) /\ Has(b, p, enc, Len(enc)) /\ edge[i] <= Len(c)
    BY <2>3 DEF HintRow, HintOf
  <2>6. Len(enc) \in Nat /\ Len(enc) = HintHeaderSize + Len(e.key)
    <3>0. enc = EncodeHint(e, pos)
      OBVIOUS
    <3> HIDE DEF e, pos, enc
    <3>1. Len(enc) \in Nat /\ Len(enc) = 4 + Len(e.key)
      BY <2>4, <3>0, EncodeHintIs
    <3> QED
      BY <3>1 DEF HintHeaderSize
  <2> DEFINE q == edge[i]
  <2>7. q = p + Len(enc) /\ q <= Len(c) /\ enc = EncodeHint(e, pos)
    BY <2>5
  <2> HIDE DEF e, pos, p, q, i, g
  <2>8. Has(c, p, enc, Len(enc))
    <3> HIDE DEF enc
    <3>1. ASSUME NEW j \in 1..Len(enc) PROVE c[p + j] = enc[j]
      <4>1. p + j \in 1..Len(c)
        BY <1>1, <2>5, <2>6, <2>7
      <4> QED
        BY <2>5, <4>1 DEF Has
    <3> QED
      BY <2>7, <3>1 DEF Has
  <2>9. ReadHint(c, p) = HintRead(e, pos)
    BY <2>4, <2>5, <2>7, <2>8, HintWholeRead
  <2> DEFINE x == HintRead(e, pos)
             m == Len(enc)
  <2>10. x = ReadHint(c, p) /\ x.kind = "ok" /\ x.len = m
    BY <2>6, <2>9 DEF HintRead
  <2>11. p \in 0..Len(c) /\ q = p + m
    <3> HIDE DEF enc
    <3> QED
      BY <1>1, <2>5, <2>6, <2>7
  <2> HIDE DEF x, m
  <2>12. IsCons(HintFrom(c)[p], x, HintFrom(c)[q])
    <3>1. q = p + x.len /\ p \in 0..Len(c)
      BY <2>10, <2>11
    <3>2. x = ReadHint(c, p) /\ x.kind = "ok"
      BY <2>10
    <3> QED
      BY ONLY Nums(c), <3>1, <3>2, HintFromOk
  <2>13. r = HintFrom(c)[p] /\ t = HintFrom(c)[q]
    BY DEF p, q, i
  <2> HIDE DEF r, t
  <2>14. /\ IsSeq(r) /\ IsSeq(t) /\ Len(r) = 1 + Len(t) /\ r[1] = x
         /\ \A j \in 1..Len(t) : r[1 + j] = t[j]
    BY <2>12, <2>13 DEF IsCons
  <2>15. Len(t) \in Nat /\ Len(r) \in Nat /\ Len(r) = 1 + Len(t)
    BY <2>14, IsSeqLen
  <2>16. IsSeq(g) /\ Len(g) = (n + 1) + Len(t)
    BY <2>2, <2>14, <2>15 DEF HintsThen
  <2>17. ASSUME NEW j \in 1..n + 1
         PROVE  g[j] = HintRead(app[j].entry, app[j].value_pos)
    <3>1. CASE j \in 1..n
      BY <2>2, <3>1 DEF HintsThen
    <3>2. CASE j = n + 1
      <4>1. g[n + 1] = r[1]
        BY <2>2, <2>14, <2>15 DEF HintsThen
      <4> QED
        BY <2>14, <3>2, <4>1 DEF x, e, pos, i
    <3> QED
      BY <3>1, <3>2
  <2>18. ASSUME NEW j \in 1..Len(t)
         PROVE  g[(n + 1) + j] = t[j]
    <3>1. 1 + j \in 1..Len(r) /\ n + (1 + j) = (n + 1) + j
      BY <2>15
    <3>2. g[n + (1 + j)] = r[1 + j]
      BY <2>2, <3>1 DEF HintsThen
    <3> QED
      BY <2>14, <3>1, <3>2
  <2> QED
    BY <2>14, <2>16, <2>17, <2>18 DEF HintsThen
<1> HIDE DEF S
<1>4. Nat \subseteq S
  BY <1>2, <1>3, NatSetInduction
<1>5. k \in S
  BY <1>1, <1>4
<1> QED
  BY <1>1, <1>5 DEF S

\* No record ends past the hints.
LEMMA HintEdgesIn ==
    ASSUME NEW app \in Seq(Appended), NEW b, NEW edge, HintRow(b, edge, app)
    PROVE  \A i \in 0..Len(app) : edge[i] <= Len(b)
<1> TAKE i \in 0..Len(app)
<1>1. CASE i = 0
  BY <1>1, IsSeqLen DEF HintRow, Nums
<1>2. CASE i # 0
  <2>1. i \in 1..Len(app)
    BY <1>2
  <2>2. edge[i] = edge[i - 1] + Len(HintOf(app, i)) /\ edge[i - 1] + Len(HintOf(app, i)) <= Len(b)
    BY <2>1 DEF HintRow, Has
  <2> QED
    BY <2>2
<1> QED
  BY <1>1, <1>2

\* Of the first m cells, some first k records are whole.
LEMMA HintCut ==
    ASSUME NEW app \in Seq(Appended), NEW b, NEW edge, HintRow(b, edge, app), NEW m \in Nat
    PROVE  \E k \in 0..Len(app) : /\ \A i \in 0..k : edge[i] <= m
                                  /\ k < Len(app) => m < edge[k + 1]
<1> DEFINE K == Len(app)
           P(k) == \A i \in 0..k : edge[i] <= m
           S == {n \in Nat : n <= K => \/ P(n)
                                       \/ \E k \in 0..K : P(k) /\ k < K /\ m < edge[k + 1]}
<1>1. K \in Nat /\ edge[0] = 0 /\ \A i \in 0..K : edge[i] \in Nat
  BY LenProperties DEF HintRow
<1>2. 0 \in S
  <2>1. P(0)
    BY <1>1
  <2> QED
    BY <2>1
<1>3. ASSUME NEW n \in Nat, n \in S
      PROVE  n + 1 \in S
  <2>1. SUFFICES ASSUME n + 1 <= K, P(n), ~(\E k \in 0..K : P(k) /\ k < K /\ m < edge[k + 1])
                 PROVE  P(n + 1)
    BY <1>1, <1>3
  <2>2. n \in 0..K /\ n < K /\ edge[n + 1] \in Nat
    BY <1>1, <2>1
  <2>3. edge[n + 1] <= m
    BY <2>1, <2>2
  <2>4. \A i \in 0..n + 1 : i \in 0..n \/ i = n + 1
    OBVIOUS
  <2> QED
    BY <2>1, <2>3, <2>4
<1> HIDE DEF S
<1>4. Nat \subseteq S
  BY <1>2, <1>3, NatSetInduction
<1>5. K \in S
  BY <1>1, <1>4
<1>6. P(K) \/ \E k \in 0..K : P(k) /\ k < K /\ m < edge[k + 1]
  BY <1>1, <1>5 DEF S
<1>7. K \in 0..K /\ ~(K < K)
  BY <1>1
<1> QED
  BY <1>6, <1>7

\* What is read of cells that are the first of the hints: the k whole records; and if the end
\* is reached, then behind the last of them.
LEMMA HintsEnd ==
    ASSUME EntriesFit, NEW app \in Seq(Appended), NEW b, NEW edge, HintRow(b, edge, app),
           NEW c, Nums(c), Len(c) <= Len(b), \A i \in 1..Len(c) : c[i] = b[i],
           NEW k \in 0..Len(app), \A i \in 0..k : edge[i] <= Len(c),
           k < Len(app) => Len(c) < edge[k + 1]
    PROVE  /\ IsSeq(HintFrom(c)[0]) /\ Len(HintFrom(c)[0]) = k + 1
           /\ \A i \in 1..k : HintFrom(c)[0][i] = HintRead(app[i].entry, app[i].value_pos)
           /\ Last(HintFrom(c)[0]).kind = "eof" => edge[k] = Len(c)
<1> DEFINE g == HintFrom(c)[0]
           p == edge[k]
           r == HintFrom(c)[p]
           x == ReadHint(c, p)
<1>1. /\ Len(app) \in Nat /\ Len(c) \in Nat /\ Len(b) \in Nat /\ k \in Nat /\ p \in Nat
      /\ p <= Len(c) /\ edge[Len(app)] = Len(b) /\ IsSeq(c)
  BY IsSeqLen, LenProperties DEF Nums, HintRow
<1>2. x.kind # "ok" /\ (x.kind = "eof" => p = Len(c))
  <2>1. CASE p = Len(c)
    <3>1. p \in 0..Len(c) /\ p + HintHeaderSize > Len(c)
      BY <1>1, <2>1 DEF HintHeaderSize
    <3>2. x = [kind |-> "eof"]
      BY <1>1, <2>1, <3>1, HintNoHeader
    <3> QED
      BY <2>1, <3>2
  <2>2. CASE p # Len(c)
    <3>1. k < Len(app)
      BY <1>1, <2>2
    <3> DEFINE i   == k + 1
               e   == app[i].entry
               pos == app[i].value_pos
               enc == EncodeHint(e, pos)
    <3>2. i \in 1..Len(app) /\ i - 1 = k
      BY <1>1, <3>1
    <3>3. e \in Entries /\ Fits(e) /\ pos \in Nat
      <4>1. app[i] \in Appended
        BY <3>2
      <4> QED
        BY <4>1 DEF Appended, EntriesFit
    <3>4. edge[i] = p + Len(enc) /\ Has(b, p, enc, Len(enc)) /\ Len(c) < edge[i]
      BY <3>1, <3>2 DEF HintRow, HintOf
    <3>5. enc = EncodeHint(e, pos)
      OBVIOUS
    <3> HIDE DEF e, pos, p
    <3>6. Len(enc) \in Nat
      <4> HIDE DEF enc
      <4> QED
        BY <3>3, <3>5, EncodeHintIs
    <3> HIDE DEF enc, i
    <3>7. p < Len(c) /\ Len(c) < p + Len(enc)
      BY <1>1, <2>2, <3>4
    <3>8. ASSUME NEW j \in 1..Len(c) - p
          PROVE  c[p + j] = enc[j]
      <4>1. p + j \in 1..Len(c) /\ j \in 1..Len(enc)
        BY <1>1, <3>6, <3>7
      <4> QED
        BY <3>4, <4>1 DEF Has
    <3>9. x = [kind |-> "truncated"]
      BY <1>1, <3>3, <3>5, <3>7, <3>8, HintTornRead
    <3> QED
      BY <3>9
  <2> QED
    BY <2>1, <2>2
<1>3. HintsThen(g, app, k, r)
  BY HintRowRead
<1>4. IsSeq(r) /\ Len(r) = 1 /\ r[1] = x
  <2>1. p \in 0..Len(c)
    BY <1>1
  <2> HIDE DEF p
  <2> QED
    BY <1>2, <2>1, HintFromEnd
<1> HIDE DEF g, r, x, p
<1>5. /\ IsSeq(g) /\ Len(g) = k + 1 /\ g[k + 1] = x
      /\ \A i \in 1..k : g[i] = HintRead(app[i].entry, app[i].value_pos)
  BY <1>3, <1>4 DEF HintsThen
<1>6. Last(g) = x
  BY <1>5 DEF Last
<1> QED
  BY <1>2, <1>5, <1>6 DEF g, p

\* What is used of a hint file are the records of app's entries.
SaysAll(cells, n, app) ==
    ScanHint(cells, n).records =
        [i \in 1..Len(app) |-> HintRead(app[i].entry, app[i].value_pos).record]

\* A hint file with or without its trailer.
HintFile(H, b) == H = b \/ H = Append(b, Crc(b))

\* Of the hints and their trailer every proper prefix is rejected, and so are the hints
\* without it, but for a first word that is a timestamp of 0.
LEMMA OnlyWholeIsUsed ==
    ASSUME EntriesFit, NEW app \in Seq(Appended), NEW b, NEW edge, HintRow(b, edge, app),
           NEW H, HintFile(H, b), NEW h \in 0..Len(H), NEW cells,
           cells = SubSeq(H, 1, h), ~IsZeroStamp(cells), NEW n, ScanHint(cells, n).used
    PROVE  H = Append(b, Crc(b)) /\ SaysAll(cells, n, app)
<1> DEFINE c == Front(cells)
           g == HintFrom(c)[0]
           K == Len(app)
           m == h - 1
<1>1. /\ K \in Nat /\ Len(b) \in Nat /\ IsSeq(b) /\ edge[0] = 0 /\ edge[K] = Len(b)
      /\ \A i \in 1..Len(b) : b[i].num \in Nat
      /\ H = b \/ H = Append(b, Crc(b))
  BY IsSeqLen, LenProperties DEF Nums, HintRow, HintFile
<1>2. /\ IsSeq(H) /\ Len(H) \in Nat /\ \A i \in 1..Len(b) : H[i] = b[i]
      /\ Len(H) <= Len(b) + 1 /\ (H = b \/ Len(H) = Len(b) + 1)
  <2>1. CASE H = b
    BY <1>1, <2>1
  <2>2. CASE H = Append(b, Crc(b))
    <3> DEFINE T == ToSet(b) \cup {Crc(b)}
    <3>1. b \in Seq(T) /\ Crc(b) \in T
      BY <1>1, SeqMonotonic DEF IsSeq
    <3> HIDE DEF T
    <3>2. /\ H \in Seq(T) /\ Len(H) = Len(b) + 1 /\ \A i \in 1..Len(b) : H[i] = b[i]
      BY <2>2, <3>1, AppendProperties
    <3>3. IsSeq(H)
      BY <3>2, SeqIsSeq
    <3> QED
      BY <1>1, <3>2, <3>3
  <2> QED
    BY <1>1, <2>1, <2>2
<1>3. h \in Nat /\ h <= Len(H)
  BY <1>2
<1>4. IsSeq(cells) /\ Len(cells) = h /\ \A i \in 1..h : cells[i] = H[i]
  BY <1>2, <1>3, FirstOf
<1>5. HintUsed(g, cells, n)
  <2>1. ScanHint(cells, n) = IF HintUsed(g, cells, n)
                             THEN [used |-> TRUE, records |-> [i \in 1..Len(g) - 1 |-> g[i].record]]
                             ELSE [used |-> FALSE, records |-> <<>>]
    BY ScanHintIs
  <2> QED
    BY <2>1
<1>6. ScanHint(cells, n).records = [i \in 1..Len(g) - 1 |-> g[i].record]
  BY <1>5, ScanHintIs
<1>7. h >= 1 /\ Last(cells) = Crc(c) /\ Last(g).kind = "eof"
  BY <1>4, <1>5 DEF HintUsed, VerifyHintFile, HintTrailerSize
<1>8. Last(cells) = H[h]
  BY <1>3, <1>4, <1>7 DEF Last
<1>9. m \in Nat /\ m <= Len(b) /\ m + 1 = h
  BY <1>1, <1>2, <1>3, <1>7
<1>10. IsSeq(c) /\ Len(c) = m /\ \A i \in 1..m : c[i] = b[i]
  <2>1. c = SubSeq(cells, 1, m)
    BY <1>4 DEF Front
  <2> HIDE DEF c, m
  <2>2. m <= Len(cells)
    BY <1>3, <1>4, <1>9
  <2>3. IsSeq(c) /\ Len(c) = m /\ \A i \in 1..m : c[i] = cells[i]
    BY <1>4, <1>9, <2>1, <2>2, FirstOf
  <2>4. ASSUME NEW i \in 1..m PROVE c[i] = b[i]
    <3>1. i \in 1..h /\ i \in 1..Len(b)
      BY <1>1, <1>3, <1>9
    <3> QED
      BY <1>2, <1>4, <2>3, <3>1
  <2> QED
    BY <2>3, <2>4
<1> HIDE DEF c, g, K, m
<1>11. Nums(c)
  <2>1. ASSUME NEW i \in 1..m PROVE c[i].num \in Nat
    <3>1. i \in 1..Len(b)
      BY <1>1, <1>9
    <3> QED
      BY <1>1, <1>10, <3>1
  <2> QED
    BY <1>10, <2>1 DEF Nums
<1>12. ASSUME m < Len(b)
       PROVE  FALSE
  <2>1. PICK k \in 0..Len(app) : /\ \A i \in 0..k : edge[i] <= m
                                 /\ k < Len(app) => m < edge[k + 1]
    BY <1>9, HintCut
  <2>2. Last(HintFrom(c)[0]).kind = "eof" => edge[k] = Len(c)
    <3>1. Len(c) <= Len(b) /\ \A i \in 1..Len(c) : c[i] = b[i]
      BY <1>9, <1>10
    <3>2. \A i \in 0..k : edge[i] <= Len(c)
      BY <1>10, <2>1
    <3>3. k < Len(app) => Len(c) < edge[k + 1]
      BY <1>10, <2>1
    <3> QED
      BY <1>11, <3>1, <3>2, <3>3, HintsEnd
  <2>3. edge[k] = m
    BY <1>7, <1>10, <2>2 DEF g
  <2> DEFINE i   == k + 1
             e   == app[i].entry
             pos == app[i].value_pos
             enc == EncodeHint(e, pos)
  <2>4. i \in 1..Len(app) /\ i - 1 = k
    <3>1. k # K
      BY <1>1, <1>9, <1>12, <2>3
    <3> QED
      BY <1>1, <3>1 DEF K
  <2>5. e \in Entries /\ Fits(e) /\ pos \in Nat
    <3>1. app[i] \in Appended
      BY <2>4
    <3> QED
      BY <3>1 DEF Appended, EntriesFit
  <2>6. Has(b, m, enc, Len(enc))
    BY <2>3, <2>4 DEF HintRow, HintOf
  <2>7. enc = EncodeHint(e, pos)
    OBVIOUS
  <2> HIDE DEF e, pos, enc, i
  <2>8. Len(enc) = 4 + Len(e.key) /\ Len(e.key) \in Nat
        /\ enc[1].num \in Nat /\ enc[1] = Number(enc[1].num)
    BY <2>5, <2>7, EncodeHintIs
  <2>9. 1 \in 1..Len(enc) /\ h \in 1..Len(b)
    <3>1. 1 \in 1..Len(enc)
      BY <2>8
    <3> QED
      BY <1>1, <1>9, <1>12, <3>1
  <2>10. b[m + 1] = enc[1]
    BY <2>6, <2>9 DEF Has
  <2>11. H[h] = enc[1]
    BY <1>2, <1>9, <2>9, <2>10
  <2>12. Crc(c) = enc[1]
    BY <1>7, <1>8, <2>11
  <2>13. CASE c = <<>>
    <3>1. Len(cells) = 1 /\ cells[1] = Number(0)
      <4>1. Len(c) = 0
        BY <2>13, EmptySeq
      <4>2. h = 1
        BY <1>9, <1>10, <4>1
      <4>3. cells[1] = H[1] /\ H[1] = Crc(c)
        BY <1>4, <1>7, <1>8, <4>2
      <4> QED
        BY <1>4, <2>13, <4>2, <4>3 DEF Crc
    <3> DEFINE z == <<Number(0)>>
    <3>2. IsSeq(z) /\ Len(z) = 1 /\ z[1] = Number(0)
      BY OneIsSeq
    <3> HIDE DEF z
    <3>3. \A j \in 1..Len(cells) : cells[j] = z[j]
      BY <3>1, <3>2
    <3>4. cells = z
      BY <1>4, <3>1, <3>2, <3>3, SameCells
    <3> QED
      BY <3>4 DEF IsZeroStamp, z
  <2>14. CASE c # <<>>
    <3>1. Crc(c) = Number(enc[1].num)
      BY <2>8, <2>12
    <3> QED
      BY <2>14, <3>1, CrcFacts
  <2> QED
    BY <2>13, <2>14
<1>13. m = Len(b)
  BY <1>1, <1>9, <1>12
<1>14. H = Append(b, Crc(b))
  <2>1. H # b
    BY <1>1, <1>3, <1>9, <1>13
  <2> QED
    BY <1>1, <2>1
<1>15. Len(g) = K + 1 /\ \A i \in 1..K : g[i] = HintRead(app[i].entry, app[i].value_pos)
  <2>1. \A i \in 0..Len(app) : edge[i] <= Len(c)
    BY <1>10, <1>13, HintEdgesIn
  <2>2. Len(app) \in 0..Len(app) /\ ~(Len(app) < Len(app))
    BY <1>1 DEF K
  <2>3. Len(c) <= Len(b) /\ \A i \in 1..Len(c) : c[i] = b[i]
    BY <1>9, <1>10
  <2>4. /\ Len(HintFrom(c)[0]) = Len(app) + 1
        /\ \A i \in 1..Len(app) : HintFrom(c)[0][i] = HintRead(app[i].entry, app[i].value_pos)
    BY <1>11, <2>1, <2>2, <2>3, HintsEnd
  <2> QED
    BY <2>4 DEF g, K
<1>16. Len(g) - 1 = K
  BY <1>1, <1>15
<1>17. ScanHint(cells, n).records = [i \in 1..K |-> g[i].record]
  BY <1>6, <1>16
<1>18. [i \in 1..K |-> g[i].record] = [i \in 1..K |-> HintRead(app[i].entry, app[i].value_pos).record]
  BY <1>15
<1> QED
  BY <1>14, <1>17, <1>18 DEF K, SaysAll

-----------------------------------------------------------------------------
(* The hint file of a merge.                                                 *)

\* It is a record for each entry that was accepted; and it has its trailer only when the
\* output is closed, and all of that is on the medium.
Unsealed == \E edge : HintRow(hint, edge, appended)
Sealed   ==
    /\ pc = "closed" /\ buffer = <<>> /\ synced = Len(file)
    /\ \E b, edge : hint = Append(b, Crc(b)) /\ HintRow(b, edge, appended)

HintInv ==
    \/ user = "engine" /\ hint = <<>>
    \/ user = "merge" /\ Unsealed
    \/ user = "merge" /\ Sealed

\* A record joins the others.
LEMMA HintGrows ==
    ASSUME EntriesFit, NEW app \in Seq(Appended), NEW b, NEW edge, HintRow(b, edge, app),
           NEW new \in Appended, NEW enc, enc = EncodeHint(new.entry, new.value_pos)
    PROVE  \E x : HintRow(b \o enc, x, Append(app, new))
<1> DEFINE n == Len(app)
           a == Append(app, new)
           l == Len(b)
           m == Len(enc)
           x == [i \in 0..n + 1 |-> IF i <= n THEN edge[i] ELSE l + m]
           c == b \o enc
<1>1. /\ a \in Seq(Appended) /\ Len(a) = n + 1 /\ a[n + 1] = new /\ n \in Nat
      /\ \A i \in 1..n : a[i] = app[i]
  BY AppendProperties, LenProperties
<1>2. Nums(enc) /\ IsSeq(enc) /\ m \in Nat
  <2>1. new.entry \in Entries /\ Fits(new.entry) /\ new.value_pos \in Nat
    BY DEF Appended, EntriesFit
  <2>2. Nums(enc) /\ Len(enc) \in Nat
    BY <2>1, EncodeHintIs
  <2> QED
    BY <2>2 DEF Nums
<1>3. /\ Nums(b) /\ IsSeq(b) /\ l \in Nat /\ edge[0] = 0 /\ edge[n] = l
      /\ \A i \in 0..n : edge[i] \in Nat
      /\ \A i \in 1..n : edge[i] = edge[i - 1] + Len(HintOf(app, i))
      /\ \A i \in 1..n : Has(b, edge[i - 1], HintOf(app, i), Len(HintOf(app, i)))
  BY IsSeqLen DEF HintRow, Nums
<1>4. /\ IsSeq(c) /\ Len(c) = l + m
      /\ \A i \in 1..l + m : c[i] = IF i <= l THEN b[i] ELSE enc[i - l]
  BY <1>2, <1>3, ConcatIsSeq
<1>5. \A i \in 0..n : x[i] = edge[i]
  BY <1>1
<1>6. x[n + 1] = l + m
  BY <1>1
<1>7. HintOf(a, n + 1) = enc
  BY <1>1 DEF HintOf
<1>8. \A i \in 1..n : HintOf(a, i) = HintOf(app, i)
  BY <1>1 DEF HintOf
<1> HIDE DEF n, a, x, c, l
<1>9. Nums(c)
  <2>1. ASSUME NEW i \in 1..l + m PROVE c[i].num \in Nat
    <3>1. CASE i <= l
      <4>1. i \in 1..l
        BY <1>3, <3>1
      <4>2. b[i].num \in Nat
        BY <1>3, <4>1 DEF Nums, l
      <4> QED
        BY <1>4, <3>1, <4>2
    <3>2. CASE ~(i <= l)
      <4>1. i - l \in 1..m
        BY <1>2, <1>3, <3>2
      <4>2. enc[i - l].num \in Nat
        BY <1>2, <4>1 DEF Nums
      <4> QED
        BY <1>4, <3>2, <4>2
    <3> QED
      BY <3>1, <3>2
  <2> QED
    BY <1>4, <2>1 DEF Nums
<1> HIDE DEF m
<1>10. ASSUME NEW i \in 1..n
       PROVE  x[i] = x[i - 1] + Len(HintOf(a, i)) /\ Has(c, x[i - 1], HintOf(a, i), Len(HintOf(a, i)))
  <2> DEFINE h == HintOf(app, i)
             p == edge[i - 1]
  <2>1. i \in 0..n /\ i - 1 \in 0..n
    BY <1>1
  <2>2. x[i] = edge[i] /\ x[i - 1] = p /\ HintOf(a, i) = h
    BY <1>5, <1>8, <2>1
  <2>3. edge[i] = p + Len(h) /\ Has(b, p, h, Len(h)) /\ p \in Nat
    BY <1>3, <2>1
  <2>4. Len(h) \in Nat
    <3>1. app[i] \in Appended
      BY DEF n
    <3>2. app[i].entry \in Entries /\ Fits(app[i].entry) /\ app[i].value_pos \in Nat
      BY <3>1 DEF Appended, EntriesFit
    <3> QED
      BY <3>2, EncodeHintIs DEF HintOf
  <2> HIDE DEF h, p
  <2>5. p + Len(h) <= l /\ \A j \in 1..Len(h) : b[p + j] = h[j]
    BY <2>3 DEF Has, l
  <2>6. p + Len(h) <= Len(c)
    BY <1>2, <1>3, <1>4, <2>3, <2>4, <2>5
  <2>7. ASSUME NEW j \in 1..Len(h) PROVE c[p + j] = h[j]
    <3>1. p + j \in 1..l + m /\ p + j <= l
      BY <1>2, <1>3, <2>3, <2>4, <2>5
    <3> QED
      BY <1>4, <2>5, <3>1
  <2>8. Has(c, p, h, Len(h))
    BY <2>6, <2>7 DEF Has
  <2> QED
    BY <2>2, <2>3, <2>8
<1>11. Has(c, l, enc, m)
  <2>1. ASSUME NEW j \in 1..m PROVE c[l + j] = enc[j]
    <3>1. l + j \in 1..l + m /\ ~(l + j <= l) /\ (l + j) - l = j
      BY <1>2, <1>3
    <3> QED
      BY <1>4, <3>1
  <2>2. l + m <= Len(c)
    BY <1>2, <1>3, <1>4
  <2> QED
    BY <2>1, <2>2 DEF Has
<1>12. x[0] = 0 /\ x[n + 1] = Len(c) /\ x[n] = l
  <2>1. 0 \in 0..n /\ n \in 0..n
    BY <1>1
  <2> QED
    BY <1>3, <1>4, <1>5, <1>6, <2>1
<1>13. ASSUME NEW i \in 0..n + 1 PROVE x[i] \in Nat
  <2>1. i \in 0..n \/ i = n + 1
    BY <1>1
  <2> QED
    BY <1>2, <1>3, <1>5, <1>6, <2>1
<1>14. ASSUME NEW i \in 1..n + 1
       PROVE  x[i] = x[i - 1] + Len(HintOf(a, i)) /\ Has(c, x[i - 1], HintOf(a, i), Len(HintOf(a, i)))
  <2>1. CASE i = n + 1
    <3>1. i - 1 = n
      BY <1>1, <2>1
    <3> QED
      BY <1>6, <1>7, <1>11, <1>12, <2>1, <3>1 DEF m
  <2>2. CASE i # n + 1
    <3>1. i \in 1..n
      BY <1>1, <2>2
    <3> QED
      BY <1>10, <3>1
  <2> QED
    BY <2>1, <2>2
<1>15. HintRow(c, x, a)
  BY <1>1, <1>9, <1>12, <1>13, <1>14 DEF HintRow
<1>16. \E y : HintRow(c, y, a)
  BY <1>15
<1> QED
  BY <1>16 DEF c, a

\* No record at first.
LEMMA InitHint == Init => HintInv
<1> SUFFICES ASSUME Init PROVE HintInv
  OBVIOUS
<1>1. user \in {"engine", "merge"} /\ hint = <<>> /\ appended = <<>>
  BY DEF Init
<1> DEFINE x == [i \in 0..0 |-> 0]
<1>2. IsSeq(<<>>) /\ Len(<<>>) = 0 /\ 1..0 = {}
  <2>1. IsSeq(<<>>)
    <3>1. <<>> \in Seq({})
      OBVIOUS
    <3> QED
      BY <3>1, SeqIsSeq
  <2>2. Len(<<>>) = 0 /\ 1..0 = {}
    BY EmptySeq
  <2> QED
    BY <2>1, <2>2
<1>3. HintRow(<<>>, x, <<>>)
  <2>1. Nums(<<>>)
    BY <1>2 DEF Nums
  <2>2. x[0] = 0 /\ \A i \in 0..0 : x[i] \in Nat
    OBVIOUS
  <2> HIDE DEF x
  <2> QED
    BY <1>2, <2>1, <2>2 DEF HintRow
<1>4. Unsealed
  BY <1>1, <1>3 DEF Unsealed
<1> QED
  BY <1>1, <1>4 DEF HintInv

\* A merge adds the record of what it accepts.
LEMMA AcceptKeepsHint ==
    ASSUME EntriesFit, IInv, IInv', HintInv, pc = "write", Accepted, UNCHANGED user
    PROVE  HintInv'
<1> DEFINE e   == todo.entry
           pos == ValuePos(Len(EncodeEntry(e)), Len(e.value))
           new == [entry |-> e, value_pos |-> pos]
           enc == EncodeHint(e, pos)
<1>1. /\ appended' = Append(appended, new)
      /\ hint' = IF user = "merge" THEN hint \o enc ELSE hint
  BY DEF Accepted
<1>2. new.entry = e /\ new.value_pos = pos /\ enc = EncodeHint(new.entry, new.value_pos)
  OBVIOUS
<1> HIDE DEF e, pos, new, enc
<1>3. appended \in Seq(Appended) /\ appended' \in Seq(Appended)
  BY DEF IInv, StreamInv
<1>4. new \in Appended
  <2>1. ToSet(appended) \subseteq Appended
    BY <1>3, LenProperties DEF ToSet
  <2> DEFINE S == Appended \cup {new}
  <2>2. appended \in Seq(S) /\ new \in S
    BY <1>3, SeqMonotonic
  <2> HIDE DEF S
  <2>3. /\ Len(appended) \in Nat /\ Len(appended') = Len(appended) + 1
        /\ appended'[Len(appended) + 1] = new
    BY <1>1, <2>2, AppendProperties, LenProperties
  <2>4. Len(appended) + 1 \in 1..Len(appended')
    BY <2>3
  <2> QED
    BY <1>3, <2>3, <2>4
<1>5. CASE user = "engine" /\ hint = <<>>
  BY <1>1, <1>5 DEF HintInv
<1>6. CASE user = "merge" /\ Unsealed
  <2>1. PICK edge : HintRow(hint, edge, appended)
    BY <1>6 DEF Unsealed
  <2>2. \E x : HintRow(hint \o enc, x, Append(appended, new))
    BY <1>2, <1>3, <1>4, <2>1, HintGrows
  <2>3. Unsealed'
    BY <1>1, <1>6, <2>2 DEF Unsealed
  <2> QED
    BY <1>6, <2>3 DEF HintInv
<1> QED
  BY <1>5, <1>6 DEF HintInv, Sealed

\* Each step.
LEMMA NextKeepsHint ==
    ASSUME EntriesFit, IInv, IInv', HintInv, [Next]_vars
    PROVE  HintInv'
<1>1. CASE /\ UNCHANGED <<user, hint, appended>>
           /\ pc = "closed" => /\ UNCHANGED <<pc, file, buffer>>
                               /\ synced' \in {synced, Len(file)}
  <2>1. Unsealed => Unsealed'
    BY <1>1 DEF Unsealed
  <2>2. Sealed => Sealed'
    BY <1>1 DEF Sealed
  <2> QED
    BY <1>1, <2>1, <2>2 DEF HintInv
<1>2. CASE pc = "write" /\ Accepted /\ UNCHANGED user
  BY <1>2, AcceptKeepsHint
<1>3. CASE SyncData
  <2>1. /\ UNCHANGED <<user, file, buffer, appended>> /\ pc = "flushed" /\ synced' = Len(file)
        /\ user = "merge" => hint' = Append(hint, Crc(hint)) /\ pc' = "closed"
        /\ user # "merge" => hint' = hint
    BY <1>3 DEF SyncData
  <2>2. buffer = <<>>
    BY <2>1 DEF IInv, ControlInv
  <2>3. ~Sealed
    BY <2>1 DEF Sealed
  <2>4. user = "merge" /\ Unsealed => Sealed'
    BY <2>1, <2>2 DEF Unsealed, Sealed
  <2> QED
    BY <2>1, <2>3, <2>4 DEF HintInv
<1>4. ASSUME NEW n \in 1..Len(buffer), FlushSome(n)
      PROVE  UNCHANGED <<user, hint, appended>> /\ pc # "closed"
  BY <1>4 DEF FlushSome, MustFlushFirst, histVars
<1>5. CASE CopyToBuffer
  <2>1. pc = "write" /\ Accepted /\ UNCHANGED user
    BY <1>5 DEF CopyToBuffer
  <2> QED
    BY <1>2, <2>1
<1>6. ASSUME NEW n \in 1..Len(todo.cells), DirectWrite(n)
      PROVE  HintInv'
  <2>1. /\ pc = "write" /\ UNCHANGED user
        /\ Accepted \/ UNCHANGED <<hint, appended>>
    BY <1>6 DEF DirectWrite, Direct
  <2> QED
    BY <1>1, <1>2, <2>1
<1>7. CASE SyncDataOfHandle
  BY <1>1, <1>7 DEF SyncDataOfHandle, callVars
<1>8. CASE UNCHANGED vars
  BY <1>1, <1>8 DEF vars, fileVars, callVars, histVars
<1>9. \/ UNCHANGED <<user, hint, appended>> /\ pc # "closed"
      \/ SyncData
      \/ \E n \in 1..Len(buffer) : FlushSome(n)
      \/ CopyToBuffer
      \/ \E n \in 1..Len(todo.cells) : DirectWrite(n)
      \/ SyncDataOfHandle
      \/ UNCHANGED vars
  <2>1. ASSUME NEW e \in Entries, StartWrite(e)
        PROVE  UNCHANGED <<user, hint, appended>> /\ pc # "closed"
    BY <2>1 DEF StartWrite, fileVars, histVars
  <2>2. ASSUME NEW call \in {"sync", "sync_handle", "flush_only"}, StartFlush(call)
        PROVE  UNCHANGED <<user, hint, appended>> /\ pc # "closed"
    BY <2>2 DEF StartFlush, fileVars, histVars
  <2>3. ASSUME FlushReturns \/ SyncFlushed \/ HandleCloned \/ Dropped
        PROVE  UNCHANGED <<user, hint, appended>> /\ pc # "closed"
    BY <2>3 DEF FlushReturns, SyncFlushed, HandleCloned, Dropped, fileVars, histVars
  <2>4. ASSUME NEW kind \in FaultKinds, Fails(kind)
        PROVE  UNCHANGED <<user, hint, appended>> /\ pc # "closed"
    BY <2>4 DEF Fails, MustFlushFirst, Direct, fileVars
  <2> QED
    BY <2>1, <2>2, <2>3, <2>4 DEF Next
<1> QED
  BY <1>1, <1>3, <1>4, <1>5, <1>6, <1>7, <1>8, <1>9

\* An engine has no hint file; a trailer is needed for one to be used.
LEMMA EmptyHintUnused ==
    ASSUME NEW n
    PROVE  ~ScanHint(<<>>, n).used
<1>1. ~VerifyHintFile(<<>>)
  BY EmptySeq DEF VerifyHintFile, HintTrailerSize
<1>2. ~HintUsed(HintFrom(Front(<<>>))[0], <<>>, n)
  BY <1>1 DEF HintUsed
<1>3. ScanHint(<<>>, n) = [used |-> FALSE, records |-> <<>>]
  BY <1>2, ScanHintIs
<1> QED
  BY <1>3

\* What a scan of the file finds when every entry is whole in it.
LEMMA ScanOfClosed ==
    ASSUME EntriesFit, IInv, LayoutInv, pc = "closed", buffer = <<>>, NEW image,
           image = SubSeq(file, 1, Len(file))
    PROVE  /\ DOMAIN Scan(image) = 1..Len(appended)
           /\ \A i \in 1..Len(appended) : Scan(image)[i] = FoundOf(i)
<1> DEFINE K == Len(appended)
           L == Len(file)
<1>1. /\ K \in Nat /\ L \in Nat /\ L \in 0..Len(file) /\ K \in 0..Len(appended)
      /\ \A i \in 0..K : Edges(appended)[i] \in Nat
  BY OffsetInStream, IsSeqLen, LenProperties, EdgesAreNat
<1>2. Edges(appended)[K] = L
  <2>1. Len(buffer) = 0
    BY EmptySeq
  <2>2. offset = Total(file, buffer) /\ Edges(appended)[K] = offset
    BY DEF IInv, WriteInv, LayoutInv, Layout
  <2> QED
    BY <1>1, <2>1, <2>2 DEF Total
<1>3. ASSUME NEW i \in 0..K PROVE Edges(appended)[i] <= L
  <2>1. Laid(Ents(appended), Edges(appended), K)
    BY EntriesLaid
  <2>2. i \in 0..K /\ K \in i..K
    BY <1>1
  <2> QED
    BY <1>2, <2>1, <2>2, EdgesRise
<1>4. \A i \in K + 1..Len(appended) : L < Edges(appended)[i]
  BY <1>1
<1>5. Agrees(image, L, 0)
  BY <1>1, ImageAgrees
<1> HIDE DEF K, L
<1>6. /\ IsSeq(Scan(image)) /\ Len(Scan(image)) = K
      /\ \A i \in 1..K : Scan(image)[i] = FoundOf(i)
  BY <1>1, <1>3, <1>4, <1>5, ScanOfRow
<1>7. DOMAIN Scan(image) = 1..K
  BY <1>6, IsSeqLen
<1> QED
  BY <1>6, <1>7 DEF K

\* Whatever is left of the hint file, and of the data file, no record of it is wrong.
LEMMA HintsHonest ==
    ASSUME EntriesFit, IInv, LayoutInv, HintInv
    PROVE  HintsNeverLie
<1> SUFFICES ASSUME NEW h \in 0..Len(hint), NEW n \in synced..Len(file),
                    ScanHint(SubSeq(hint, 1, h), n).used, ~IsZeroStamp(SubSeq(hint, 1, h))
             PROVE  ScanHint(SubSeq(hint, 1, h), n).records = AsRecords(Scan(SubSeq(file, 1, n)))
  BY Zenon DEF HintsNeverLie
<1> DEFINE cells == SubSeq(hint, 1, h)
<1>1. appended \in Seq(Appended) /\ Len(file) \in Nat /\ synced \in 0..Len(file)
  BY IsSeqLen DEF IInv, StreamInv, SyncInv
<1>2. cells = SubSeq(hint, 1, h) /\ ~IsZeroStamp(cells) /\ ScanHint(cells, n).used
  OBVIOUS
<1> HIDE DEF cells
<1>3. CASE user = "engine" /\ hint = <<>>
  <2>1. cells = <<>>
    <3>1. h = 0
      BY <1>3, EmptySeq
    <3> QED
      BY <1>2, <1>3, <3>1
  <2> QED
    BY <1>2, <2>1, EmptyHintUnused
<1>4. CASE user = "merge" /\ Unsealed
  <2>1. PICK edge : HintRow(hint, edge, appended)
    BY <1>4 DEF Unsealed
  <2>2. hint = Append(hint, Crc(hint))
    <3>1. HintFile(hint, hint)
      BY DEF HintFile
    <3> QED
      BY <1>1, <1>2, <2>1, <3>1, OnlyWholeIsUsed
  <2>3. FALSE
    <3> DEFINE T == ToSet(hint) \cup {Crc(hint)}
    <3>1. hint \in Seq(T) /\ Crc(hint) \in T
      BY <2>1, SeqMonotonic DEF HintRow, Nums, IsSeq
    <3> HIDE DEF T
    <3>2. Len(hint) \in Nat /\ Len(Append(hint, Crc(hint))) = Len(hint) + 1
      BY <3>1, AppendProperties, LenProperties
    <3>3. Len(hint) = Len(hint) + 1
      BY <2>2, <3>2
    <3> QED
      BY <3>2, <3>3
  <2> QED
    BY <2>3
<1>5. CASE user = "merge" /\ Sealed
  <2>1. pc = "closed" /\ buffer = <<>> /\ synced = Len(file)
    BY <1>5 DEF Sealed
  <2>2. PICK b, edge : hint = Append(b, Crc(b)) /\ HintRow(b, edge, appended)
    BY <1>5 DEF Sealed
  <2>3. SaysAll(cells, n, appended)
    <3>1. /\ EntriesFit /\ appended \in Seq(Appended) /\ HintRow(b, edge, appended)
          /\ HintFile(hint, b)
          /\ h \in 0..Len(hint) /\ cells = SubSeq(hint, 1, h) /\ ~IsZeroStamp(cells)
          /\ ScanHint(cells, n).used
      BY <1>1, <1>2, <2>2 DEF HintFile
    <3> QED
      BY ONLY <3>1, OnlyWholeIsUsed
  <2>4. n = Len(file)
    BY <1>1, <2>1
  <2> DEFINE image   == SubSeq(file, 1, n)
             scanned == Scan(image)
  <2>5. image = SubSeq(file, 1, Len(file))
    BY <2>4
  <2> HIDE DEF image
  <2>6. /\ DOMAIN scanned = 1..Len(appended)
        /\ \A i \in 1..Len(appended) : scanned[i] = FoundOf(i)
    BY <2>1, <2>5, ScanOfClosed
  <2> HIDE DEF scanned
  <2>7. ASSUME NEW i \in 1..Len(appended)
        PROVE  HintRead(appended[i].entry, appended[i].value_pos).record =
                  [key |-> scanned[i].key, tomb |-> scanned[i].tomb, tstamp |-> scanned[i].tstamp,
                   value_size |-> Len(scanned[i].value), value_pos |-> scanned[i].value_pos]
    BY <2>6 DEF FoundOf, HintRead
  <2>8. ScanHint(cells, n).records = AsRecords(scanned)
    BY <2>3, <2>6, <2>7 DEF SaysAll, AsRecords
  <2> QED
    BY <2>8, Zenon DEF scanned, image, cells
<1> QED
  BY <1>3, <1>4, <1>5 DEF HintInv

-----------------------------------------------------------------------------
(* The theorems.                                                             *)

\* Each step, as long as no direct write fails.
LEMMA NextOK ==
    ASSUME "direct" \notin FaultKinds, IInv, [Next]_vars
    PROVE  IInv'
<1>1. ASSUME NEW e \in Entries, StartWrite(e) PROVE IInv'
  BY <1>1, StartWriteOK
<1>2. CASE QuietStep
  BY <1>2, QuietStepOK
<1>3. CASE SyncDataOfHandle
  BY <1>3, SyncDataOfHandleOK
<1>4. CASE FlushReturns \/ SyncData
  BY <1>4, PublishOK
<1>5. ASSUME NEW n \in 1..Len(buffer), FlushSome(n) PROVE IInv'
  BY <1>5, FlushSomeOK
<1>6. CASE CopyToBuffer
  BY <1>6, CopyToBufferOK
<1>7. ASSUME NEW n \in 1..Len(todo.cells), DirectWrite(n) PROVE IInv'
  BY <1>7, DirectWriteOK
<1>8. CASE UNCHANGED vars
  <2>1. UNCHANGED <<user, file, buffer, offset, synced, hint, pc, op, todo, appended, published,
                    fd, acked, faults>>
    BY <1>8 DEF vars, fileVars, callVars, histVars
  <2>2. StreamInv' /\ PublishedInv'
    BY <2>1, StreamStaysOK DEF StreamStays
  <2> QED
    BY <2>1, <2>2 DEF IInv, ControlInv, WriteInv, SyncInv, Written
<1> QED
  BY <1>1, <1>2, <1>3, <1>4, <1>5, <1>6, <1>7, <1>8 DEF Next, QuietStep

\* In every reachable state the file and its buffer are one stream that ends at the tracked
\* offset, or where the write in progress has come to (ActiveFile in datafile.rs).
THEOREM Inductive ==
    ASSUME "direct" \notin FaultKinds
    PROVE  Spec => []IInv
<1>1. Init => IInv
  BY InitOK
<1>2. IInv /\ [Next]_vars => IInv'
  BY NextOK
<1> QED
  BY <1>1, <1>2, PTL DEF Spec

\* The offset is the length of file and buffer between calls, and an fsync that returned
\* covers all that was appended before it, whichever flush or fsync failed.
THEOREM OffsetsCorrect ==
    ASSUME "direct" \notin FaultKinds
    PROVE  Spec => []OffsetsAreRight
<1>1. IInv => OffsetsAreRight
  BY IInvImplies
<1> QED
  BY <1>1, Inductive, PTL

\* append's returned position is always correct (datafile.rs 18-21): a read of a published
\* location finds exactly the value, whichever flush or fsync failed and whatever was buffered.
THEOREM PublishedReadable ==
    ASSUME "direct" \notin FaultKinds
    PROVE  Spec => []PublishedIsReadable
<1>1. IInv => PublishedIsReadable
  BY IInvImplies
<1> QED
  BY <1>1, Inductive, PTL

\* So is the layout: the stream is the encodings of the accepted entries, one after another, up
\* to the tracked offset (write_unflushed).
THEOREM LaidOut ==
    ASSUME "direct" \notin FaultKinds, EntriesFit
    PROVE  Spec => [](IInv /\ LayoutInv)
<1>1. Init => IInv /\ LayoutInv
  BY InitOK, InitLayout
<1>2. IInv /\ LayoutInv /\ [Next]_vars => IInv' /\ LayoutInv'
  BY NextOK, NextKeepsLayout
<1> QED
  BY <1>1, <1>2, PTL DEF Spec

\* Wherever a kill or a power loss cuts the file, scan_data_file (recovery.rs) finds the whole
\* entries in the order of their appends, where append said they are, and nothing else.
THEOREM ScanIsRight ==
    ASSUME "direct" \notin FaultKinds, EntriesFit
    PROVE  Spec => []ScanFindsWhole
<1>1. IInv /\ LayoutInv => ScanFindsWhole
  BY FindsWhole
<1> QED
  BY <1>1, LaidOut, PTL

\* One rotten cell costs no entry before it; and if it is not a size, the scan skips its entry
\* alone (recovery.rs 83-85).
THEOREM RotCostsOne ==
    ASSUME "direct" \notin FaultKinds, EntriesFit
    PROVE  Spec => []RotIsContained
<1>1. IInv /\ LayoutInv => RotIsContained
  BY RotContained
<1> QED
  BY <1>1, LaidOut, PTL

\* Whatever prefix of a merge's hint file a crash leaves, verify_hint_file rejects it or
\* try_scan_hint_file (recovery.rs) takes from it what a scan of the data file finds, unless
\* the prefix is just the first record's timestamp and that is 0.  The records are written as
\* the entries are accepted, and the trailer last, after the data file was synced
\* (output_writer.rs).
THEOREM HintsAreHonest ==
    ASSUME "direct" \notin FaultKinds, EntriesFit
    PROVE  Spec => []HintsNeverLie
<1>1. Init => IInv /\ LayoutInv /\ HintInv
  BY InitOK, InitLayout, InitHint
<1>2. IInv /\ LayoutInv /\ HintInv /\ [Next]_vars => IInv' /\ LayoutInv' /\ HintInv'
  BY NextOK, NextKeepsLayout, NextKeepsHint
<1>3. IInv /\ LayoutInv /\ HintInv => HintsNeverLie
  BY HintsHonest
<1> QED
  BY <1>1, <1>2, <1>3, PTL DEF Spec
=============================================================================
