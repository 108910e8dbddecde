---------------------------- MODULE MCActiveFile ----------------------------
(* Small instances of ActiveFile for TLC. *)
EXTENDS ActiveFile

Text(ns) == [i \in DOMAIN ns |-> Number(ns[i])]

\* An entry that fits in the buffer, a tombstone, a value that holds the bytes of an entry,
\* and a key and a value of the largest sizes there are; two of them with the timestamp 0.
Small    == [key |-> Text(<<1>>), value |-> Text(<<2>>), tomb |-> FALSE, tstamp |-> 3]
Deleted  == [key |-> Text(<<1>>), value |-> <<>>, tomb |-> TRUE, tstamp |-> 3]
Nested   == [key |-> Text(<<1>>), value |-> EncodeEntry(Deleted), tomb |-> FALSE,
             tstamp |-> 0]
Largest  == [key |-> Text([i \in 1..MaxKeyLen |-> i]), value |-> Text([i \in 1..Base - 1 |-> i]),
             tomb |-> FALSE, tstamp |-> Base - 1]
LargestDeleted == [key |-> Largest.key, value |-> <<>>, tomb |-> TRUE, tstamp |-> 0]
TooLong  == [key |-> Text([i \in 1..MaxKeyLen + 1 |-> 1]), value |-> Text(<<2>>), tomb |-> FALSE,
             tstamp |-> 3]

SmallAndLarge == {Small, Deleted, Nested, Largest, LargestDeleted}
OneOfEach     == {Small, Nested}
WithTooLong   == {Small, TooLong}
=============================================================================
