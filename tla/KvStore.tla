------------------------------- MODULE KvStore -------------------------------
(* What a Bitcask handle promises about contents, without files or keydir: a *)
(* map, writes that take effect atomically between call and return, and a    *)
(* crash that loses nothing but may or may not let a write in flight take    *)
(* effect (api.rs, trait Bitcask).  0 stands for an absent key.              *)
EXTENDS Naturals

CONSTANTS Keys,
          Values  \* with 0 among them

VARIABLES map,      \* map[k]: the current value of k
          writing   \* the writes called and not yet in effect, with their values

Init == map = [k \in Keys |-> 0] /\ writing = {}

Begin(k, v) == writing' = writing \cup {<<k, v>>} /\ UNCHANGED map

TakeEffect(k, v) == /\ <<k, v>> \in writing
                    /\ map' = [map EXCEPT ![k] = v]
                    /\ writing' = writing \ {<<k, v>>}

Crash == /\ map' \in [Keys -> Values]
         /\ \A k \in Keys : map'[k] = map[k] \/ <<k, map'[k]>> \in writing
         /\ writing' = {}

Next == \/ \E k \in Keys, v \in Values : Begin(k, v) \/ TakeEffect(k, v)
        \/ Crash

Spec == Init /\ [][Next]_<<map, writing>>
=============================================================================
