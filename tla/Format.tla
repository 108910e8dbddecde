-------------------------------- MODULE Format --------------------------------
(* The bytes of data and hint files (src/format) and the two loops that read *)
(* them (src/recovery.rs, src/merge/mod.rs).  A file is a sequence of cells. *)
(* A cell holds a number below Base, the stand-in for 2^32, or the CRC of    *)
(* some other cells; a reader that has lost its place reads a CRC as the     *)
(* number CrcNum.  Two different contents never have the same CRC.  Keys and *)
(* values are sequences of cells, and a value may well be the bytes of an    *)
(* entry.  A cell is a u32 of the code, and also the u64 of a position, and  *)
(* a byte of a key or a value.  Positions count the cells before them.       *)
EXTENDS Integers, Sequences, SequencesExt

CONSTANTS Base,    \* one past the largest number a cell holds
          CrcNum   \* a CRC, read as a number

ASSUME FormatAssumption ==
    /\ Base \in Nat /\ Base > 0 /\ Base % 2 = 0
    /\ CrcNum \in 0..Base - 1

\* A cell that holds n.
Number(n) == [num |-> n, covers |-> <<>>]

\* crc32fast::hash; that of nothing is 0.
Crc(cells) == IF cells = <<>> THEN Number(0) ELSE [num |-> CrcNum, covers |-> cells]

HeaderSize      == 4  \* crc, tstamp, ksz_and_flags, value_sz
HintHeaderSize  == 4  \* tstamp, ksz_and_flags, value_sz, value_pos
HintTrailerSize == 1

-----------------------------------------------------------------------------
(* Sizes.                                                                    *)

TombstoneBit == Base \div 2
MaxKeyLen    == TombstoneBit - 1

\* Mutant of EncodeKeySize: the flag is not set.
KeySizeWithoutFlag(len, tomb) == len % Base

\* encode_key_size of a length cast to u32: a length that reaches the top bit sets the flag.
EncodeKeySize(len, tomb) ==
    LET n == len % Base IN IF tomb /\ n < TombstoneBit THEN n + TombstoneBit ELSE n

\* decode_key_size.
KeySize(raw) == raw % TombstoneBit
IsTomb(raw)  == raw >= TombstoneBit

\* read_up_to.
ReadUpTo(cells, pos, n) ==
    SubSeq(cells, pos + 1, IF pos + n <= Len(cells) THEN pos + n ELSE Len(cells))

-----------------------------------------------------------------------------
(* Entries of a data file.                                                   *)

\* encode_entry of a record with a key, a value, a tombstone flag and a timestamp.
EncodeEntry(e) ==
    LET rest == <<Number(e.tstamp), Number(EncodeKeySize(Len(e.key), e.tomb)),
                  Number(Len(e.value) % Base)>> \o e.key \o e.value
    IN  <<Crc(rest)>> \o rest

\* read_entry at pos.
ReadEntry(cells, pos) ==
    LET header == ReadUpTo(cells, pos, HeaderSize)
        ksz    == KeySize(header[3].num)
        vsz    == header[4].num
        body   == ReadUpTo(cells, pos + HeaderSize, ksz + vsz)
    IN  CASE header = <<>>             -> [kind |-> "eof"]
          [] Len(header) \in 1..HeaderSize - 1 -> [kind |-> "truncated"]
          [] OTHER ->
             IF Len(body) < ksz + vsz THEN [kind |-> "truncated"]
             ELSE IF header[1] # Crc(Tail(header) \o body)
             THEN [kind |-> "crc", len |-> HeaderSize + ksz + vsz]
             ELSE [kind  |-> "ok", len |-> HeaderSize + ksz + vsz,
                   entry |-> [key       |-> SubSeq(body, 1, ksz),
                              value     |-> SubSeq(body, ksz + 1, ksz + vsz),
                              tomb      |-> IsTomb(header[3].num),
                              tstamp    |-> header[2].num,
                              start     |-> pos,
                              value_pos |-> pos + HeaderSize + ksz]]

\* Mutant of SkipsCorrupt: the first corrupt entry ends the scan.
StopsAtCorrupt(r) == r.kind = "ok"

\* Whether the loop goes on after what it read.
SkipsCorrupt(r) == r.kind \in {"ok", "crc"}

\* The loop of scan_data_file: what it applies, in order.
Scan(cells) ==
    LET from[pos \in 0..Len(cells)] ==
            LET r == ReadEntry(cells, pos) IN
            (IF r.kind = "ok" THEN <<r.entry>> ELSE <<>>)
                \o (IF SkipsCorrupt(r) THEN from[pos + r.len] ELSE <<>>)
    IN  from[0]

-----------------------------------------------------------------------------
(* Hint files.                                                               *)

\* encode_hint for an entry whose value is at value_pos.
EncodeHint(e, value_pos) ==
    <<Number(e.tstamp), Number(EncodeKeySize(Len(e.key), e.tomb)),
      Number(Len(e.value) % Base), Number(value_pos)>> \o e.key

\* read_hint at pos.
ReadHint(cells, pos) ==
    LET header == ReadUpTo(cells, pos, HintHeaderSize)
        ksz    == KeySize(header[2].num)
        key    == ReadUpTo(cells, pos + HintHeaderSize, ksz)
    IN  CASE header = <<>>                     -> [kind |-> "eof"]
          [] Len(header) \in 1..HintHeaderSize - 1 -> [kind |-> "truncated"]
          [] OTHER ->
             IF Len(key) < ksz THEN [kind |-> "truncated"]
             ELSE [kind   |-> "ok", len |-> HintHeaderSize + ksz,
                   record |-> [key |-> key, tomb |-> IsTomb(header[2].num),
                               tstamp |-> header[1].num,
                               value_size |-> header[3].num, value_pos |-> header[4].num]]

\* Mutant of VerifyHintFile: the trailer is not compared.
HintHasTrailer(cells) == Len(cells) >= HintTrailerSize

\* verify_hint_file.
VerifyHintFile(cells) ==
    /\ Len(cells) >= HintTrailerSize
    /\ Last(cells) = Crc(Front(cells))

\* try_scan_hint_file: the records it applies, or that it uses none.
ScanHint(cells, data_len) ==
    LET content == Front(cells)
        from[pos \in 0..Len(content)] ==
            LET r == ReadHint(content, pos) IN
            IF r.kind # "ok" THEN <<r>> ELSE <<r>> \o from[pos + r.len]
        read == from[0]
        InBounds(r) == r.kind = "ok" => r.record.value_pos + r.record.value_size <= data_len
    IN  IF /\ VerifyHintFile(cells)
           /\ Last(read).kind = "eof"
           /\ \A i \in DOMAIN read : InBounds(read[i])
        THEN [used |-> TRUE, records |-> [i \in 1..Len(read) - 1 |-> read[i].record]]
        ELSE [used |-> FALSE, records |-> <<>>]
=============================================================================
