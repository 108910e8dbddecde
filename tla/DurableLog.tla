----------------------------- MODULE DurableLog -----------------------------
(* What `put`/`delete` promise about durability, without locks, generations *)
(* or files: writes are issued in one order, the medium persists them when   *)
(* it likes, and every write is answered once.  With `should_sync_on_put`    *)
(* an `Ok` may only follow the write's persistence (api.rs 18-19, 104-110).  *)
EXTENDS Naturals, Sequences

CONSTANT SyncOnPut  \* Options::should_sync_on_put

VARIABLES outcome,  \* outcome[i]: the answer of the i-th write, "pending" until it has one
          durable   \* the writes that survive a power loss

Answers == {"ok", "err"}

Init == outcome = <<>> /\ durable = {}

Issue == outcome' = Append(outcome, "pending") /\ UNCHANGED durable

Persist == /\ \E S \in SUBSET (1..Len(outcome)) : durable' = durable \cup S
           /\ UNCHANGED outcome

Answer(i, a) == /\ outcome[i] = "pending"
                /\ a = "ok" /\ SyncOnPut => i \in durable
                /\ outcome' = [outcome EXCEPT ![i] = a]
                /\ UNCHANGED durable

Next == \/ Issue
        \/ Persist
        \/ \E i \in 1..Len(outcome), a \in Answers : Answer(i, a)

Spec == Init /\ [][Next]_<<outcome, durable>>
=============================================================================
