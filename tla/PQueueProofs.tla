---------------------------- MODULE PQueueProofs ----------------------------
(***************************************************************************)
(* The ring of queue/queue.c implements the bounded FIFO, for every        *)
(* capacity and every set of items.                                        *)
(***************************************************************************)
EXTENDS PQueue, SequenceTheorems, TLAPS

(* pqueue_dump shows a prefix of the queue and stands at the next slot. *)
DumpOK ==
    q_pc = "dump" =>
        /\ q_n <= q_count /\ Len(shown) = q_n
        /\ \A k \in 1 .. q_n : shown[k] = data[Slot(k)]
        /\ q_n < q_count => dump_slot = Slot(q_n + 1)

RingInv ==
    /\ QueueTypeOK /\ RingOK /\ DumpOK
    /\ q_pc = "new" => q_count = 0

(* The slots of queued items are in the ring. *)
LEMMA SlotInRing ==
    ASSUME RingInv, NEW k \in 1 .. q_count
    PROVE  Slot(k) \in 0 .. max_count - 1
BY DEF RingInv, QueueTypeOK, RingOK, Slot

-----------------------------------------------------------------------------
(* The invariant holds along every step. *)

LEMMA RingCreate ==
    ASSUME RingInv, NEW c \in Capacities, pqueue_create(c)
    PROVE  RingInv'
<1>1. c \in Nat  BY CapacitiesAssumption
<1>2. [s \in 0 .. c - 1 |-> 0] \in [0 .. c - 1 -> Values \cup {0}]
    OBVIOUS
<1> QED
    BY <1>1, <1>2
    DEF RingInv, QueueTypeOK, RingOK, DumpOK, Slot, pqueue_create, queue, dumped, NO_ENTRY, NO_MEMORY

LEMMA RingGet ==
    ASSUME RingInv, pqueue_get
    PROVE  RingInv'
<1>1. QueueTypeOK'
    BY DEF RingInv, QueueTypeOK, RingOK, pqueue_get, get_moves, next_slot, InRing, errno_at_get, queue, dumped, NO_ENTRY, NO_MEMORY
<1>2. RingOK'
    BY DEF RingInv, QueueTypeOK, RingOK, Slot, pqueue_get, get_moves, next_slot, InRing, queue
<1>3. DumpOK' /\ (q_pc = "new" => q_count = 0)'
    BY DEF RingInv, QueueTypeOK, RingOK, Slot, DumpOK, pqueue_get, InRing, queue
<1> QED  BY <1>1, <1>2, <1>3 DEF RingInv

LEMMA RingPut ==
    ASSUME RingInv, NEW v \in Values, pqueue_put(v)
    PROVE  RingInv'
<1>1. QueueTypeOK'
    BY SMTT(30) DEF RingInv, QueueTypeOK, RingOK, pqueue_put, is_full, put_slot, next_slot, InRing, queue, dumped, NO_ENTRY, NO_MEMORY
<1>2. CASE is_full
    BY <1>1, <1>2 DEF RingInv, QueueTypeOK, RingOK, Slot, DumpOK, pqueue_put, is_full, queue, dumped
<1>3. CASE ~is_full
    <2>1. InRing(put_slot)
        BY <1>3 DEF RingInv, QueueTypeOK, RingOK, Slot, is_full, put_slot, next_slot, InRing
    <2>2. /\ q_pc = "ready" /\ q_pc' = "ready" /\ q_count' = q_count + 1 /\ max_count' = max_count
          /\ head' = (IF q_count = 0 THEN 0 ELSE head) /\ tail' = put_slot
        BY <1>3, <2>1 DEF pqueue_put
    <2>3. RingOK'
        BY <1>3, <2>1, <2>2 DEF RingInv, QueueTypeOK, RingOK, Slot, put_slot, next_slot, is_full
    <2>4. DumpOK' /\ (q_pc = "new" => q_count = 0)'
        BY <2>2 DEF DumpOK
    <2> QED  BY <1>1, <2>3, <2>4 DEF RingInv
<1> QED  BY <1>2, <1>3

LEMMA RingDump ==
    ASSUME RingInv, pqueue_dump \/ dump_end
    PROVE  RingInv'
<1>1. UNCHANGED queue /\ UNCHANGED <<q_errno, q_rc>> /\ shown' = <<>> /\ q_n' = 0 /\ q_i' \in Int
    BY DEF RingInv, QueueTypeOK, pqueue_dump, dump_end
<1>2. QueueTypeOK' /\ RingOK' /\ (q_pc = "new" => q_count = 0)'
    BY <1>1 DEF RingInv, QueueTypeOK, RingOK, Slot, pqueue_dump, dump_end, queue
<1>3. DumpOK'
    <2>1. CASE q_pc' = "dump"
        <3>1. q_i' = head
            BY <2>1 DEF pqueue_dump, dump_end
        <3>2. Len(shown') = 0
            BY <1>1
        <3> QED  BY <1>1, <1>2, <3>1, <3>2 DEF QueueTypeOK, RingOK, DumpOK, Slot, dump_slot, queue
    <2> QED  BY <2>1 DEF DumpOK
<1> QED  BY <1>2, <1>3 DEF RingInv

LEMMA RingDumpItem ==
    ASSUME RingInv, dump_item
    PROVE  RingInv'
<1>1. dump_slot = Slot(q_n + 1) /\ Slot(q_n + 1) \in 0 .. max_count - 1
    BY SlotInRing DEF RingInv, QueueTypeOK, DumpOK, dump_item
<1>2. data[dump_slot] \in Values \cup {0}
    BY <1>1 DEF RingInv, QueueTypeOK
<1>3. QueueTypeOK'
    BY <1>1, <1>2 DEF RingInv, QueueTypeOK, dump_item, queue
<1>4. RingOK' /\ (q_pc = "new" => q_count = 0)'
    BY DEF RingInv, RingOK, Slot, dump_item, queue
<1>5. DumpOK'
    <2>1. q_n \in Nat /\ q_n' = q_n + 1 /\ q_n' <= q_count' /\ UNCHANGED <<q_count, data, head, max_count>>
        BY DEF RingInv, QueueTypeOK, dump_item, queue
    <2>2. Len(shown') = q_n' /\ \A k \in 1 .. q_n' : shown'[k] = data[Slot(k)]
        <3>1. /\ shown \in Seq(Values \cup {0}) /\ Len(shown) = q_n
              /\ \A k \in 1 .. q_n : shown[k] = data[Slot(k)]
              /\ shown' = Append(shown, data[dump_slot])
            BY DEF RingInv, QueueTypeOK, DumpOK, dump_item
        <3>2. /\ Len(shown') = q_n + 1 /\ shown'[q_n + 1] = data[dump_slot]
              /\ \A k \in 1 .. q_n : shown'[k] = shown[k]
            BY <1>2, <2>1, <3>1
        <3> QED  BY <1>1, <2>1, <3>1, <3>2
    <2>3. \A k \in 1 .. q_n' : Slot(k)' = Slot(k)
        BY <2>1 DEF Slot
    <2>4. q_n' < q_count' => dump_slot' = Slot(q_n' + 1)
        BY <1>1, <2>1 DEF RingInv, QueueTypeOK, RingOK, Slot, dump_slot, dump_item
    <2>5. Slot(q_n' + 1) = Slot(q_n + 1)'
        BY <2>1 DEF Slot
    <2> QED  BY <2>1, <2>2, <2>3, <2>4, <2>5 DEF DumpOK, Slot
<1> QED  BY <1>3, <1>4, <1>5 DEF RingInv

LEMMA RingFree ==
    ASSUME RingInv, pqueue_free \/ UNCHANGED queue_vars
    PROVE  RingInv'
BY DEF RingInv, QueueTypeOK, RingOK, DumpOK, Slot, dump_slot, pqueue_free, queue_vars, queue, dumped

(* The ring invariant holds throughout. *)
LEMMA RingAlways == QueueSpec => []RingInv
<1>1. QueueInit => RingInv
    BY DEF QueueInit, RingInv, QueueTypeOK, RingOK, DumpOK, NO_ENTRY, NO_MEMORY
<1>2. RingInv /\ [QueueNext]_queue_vars => RingInv'
    BY RingCreate, RingGet, RingPut, RingDump, RingDumpItem, RingFree DEF QueueNext
<1> QED  BY <1>1, <1>2, PTL DEF QueueSpec

(* count, head and tail stay within the array, whatever its size. *)
THEOREM RingTypes == QueueSpec => []QueueTypeOK
<1>1. RingInv => QueueTypeOK
    BY DEF RingInv
<1> QED  BY <1>1, RingAlways, PTL

(* The assertions of pqueue_get and pqueue_put never fail and head and tail
   always delimit the queued items. *)
THEOREM RingCorrect == QueueSpec => []RingOK
<1>1. RingInv => RingOK
    BY DEF RingInv
<1> QED  BY <1>1, RingAlways, PTL

-----------------------------------------------------------------------------
(* Every step of the ring is a step of the FIFO. *)

(* Contents is the sequence of count items. *)
LEMMA ContentsSeq ==
    ASSUME RingInv
    PROVE  /\ Contents \in Seq(Values \cup {0}) /\ Len(Contents) = q_count
           /\ \A k \in 1 .. q_count : Contents[k] = data[Slot(k)]
<1>1. q_count \in Nat
    BY DEF RingInv, QueueTypeOK
<1>2. \A k \in 1 .. q_count : data[Slot(k)] \in Values \cup {0}
    BY SlotInRing DEF RingInv, QueueTypeOK
<1> QED  BY <1>1, <1>2 DEF Contents

LEMMA RefineCreate ==
    ASSUME RingInv, RingInv', NEW c \in Capacities, pqueue_create(c)
    PROVE  Fifo!Create
<1>1. q_count = 0 /\ q_count' = 0
    BY DEF RingInv, pqueue_create, queue
<1>2. Contents' = Contents
    BY <1>1 DEF Contents
<1> QED  BY <1>2 DEF pqueue_create, queue, Fifo!Create, Phase

(* A sequence, and its tail, as functions. *)
LEMMA SeqFun ==
    ASSUME NEW S, NEW u \in Seq(S)
    PROVE  u = [k \in 1 .. Len(u) |-> u[k]]
OBVIOUS

LEMMA TailFun ==
    ASSUME NEW S, NEW s \in Seq(S), s # <<>>
    PROVE  Tail(s) = [k \in 1 .. Len(s) - 1 |-> s[k + 1]]
<1>1. Tail(s) \in Seq(S) /\ Len(Tail(s)) = Len(s) - 1
    BY HeadTailProperties
<1>2. \A k \in 1 .. Len(s) - 1 : Tail(s)[k] = s[k + 1]
    BY <1>1, HeadTailProperties
<1>3. Tail(s) = [k \in 1 .. Len(s) - 1 |-> Tail(s)[k]]
    BY <1>1, SeqFun
<1> QED  BY <1>2, <1>3

LEMMA RefineGet ==
    ASSUME RingInv, RingInv', pqueue_get
    PROVE  Fifo!Get
<1>0. q_pc = "ready" /\ Phase = "open" /\ (q_pc' = "ready" => Phase' = "open")
    BY DEF pqueue_get, Phase
<1>1. CASE q_count = 0
    <2>1. Contents = <<>>
        BY <1>1, ContentsSeq
    <2>2. q_out' = Failed("get") /\ UNCHANGED <<queue, q_pc>>
        BY <1>1 DEF pqueue_get, answer_get, NO_ENTRY
    <2>3. Contents' = Contents
        BY <2>2 DEF Contents, Slot, queue
    <2> QED  BY <1>0, <2>1, <2>2, <2>3 DEF Fifo!Get, Fifo!Failed, Failed, queue
<1>2. CASE q_count > 0
    <2>1. InRing(head) /\ Slot(1) = head
        BY <1>2 DEF RingInv, QueueTypeOK, RingOK, InRing, Slot
    <2>2. /\ get_moves /\ UNCHANGED <<data, max_count, q_pc>>
          /\ q_out' = Done("get", <<data[head]>>)
        BY <1>2, <2>1 DEF pqueue_get, answer_get, errno_at_get
    <2>3. q_count \in Nat /\ q_count' = q_count - 1
        BY <2>2 DEF RingInv, QueueTypeOK, get_moves
    <2>4. Contents # <<>> /\ Head(Contents) = data[head]
        BY <1>2, <2>1, <2>3, ContentsSeq
    <2>5. ASSUME NEW k \in 1 .. q_count'
          PROVE  Slot(k)' = Slot(k + 1)
        <3>1. head \in Int /\ max_count \in Int /\ head < max_count /\ q_count <= max_count /\ head >= 0
            BY <1>2 DEF RingInv, QueueTypeOK, RingOK
        <3>2. head' = next_slot(head) /\ max_count' = max_count
            BY <1>2, <2>2, <2>3 DEF get_moves
        <3> QED  BY <2>3, <3>1, <3>2 DEF next_slot, Slot
    <2>6. Contents' = [k \in 1 .. q_count - 1 |-> data[Slot(k + 1)]]
        BY <2>2, <2>3, <2>5 DEF Contents
    <2>7. Tail(Contents) = [k \in 1 .. q_count - 1 |-> Contents[k + 1]]
        BY <2>4, ContentsSeq, TailFun
    <2>8. \A k \in 1 .. q_count - 1 : Contents[k + 1] = data[Slot(k + 1)]
        BY <2>3, ContentsSeq
    <2>9. Contents' = Tail(Contents)
        BY <2>6, <2>7, <2>8
    <2> QED  BY <1>0, <2>2, <2>4, <2>9 DEF Fifo!Get, Fifo!Done, Done
<1> QED  BY <1>1, <1>2 DEF RingInv, QueueTypeOK

LEMMA RefinePut ==
    ASSUME RingInv, RingInv', NEW v \in Values, pqueue_put(v)
    PROVE  Fifo!Put(v)
<1>0. q_pc = "ready" /\ Phase = "open" /\ (q_pc' = "ready" => Phase' = "open")
    BY DEF pqueue_put, Phase
<1>1. CASE is_full
    <2>1. q_out' = Failed("put") /\ UNCHANGED <<queue, q_pc>>
        BY <1>1 DEF pqueue_put
    <2>2. Contents' = Contents
        BY <2>1 DEF Contents, Slot, queue
    <2>3. Len(Contents) >= max_count
        BY <1>1, ContentsSeq DEF is_full
    <2> QED  BY <1>0, <2>1, <2>2, <2>3 DEF Fifo!Put, Fifo!Failed, Failed, queue
<1>2. CASE ~is_full
    <2>1. /\ q_count \in Nat /\ max_count \in Nat /\ q_count < max_count
          /\ q_count > 0 => head \in 0 .. max_count - 1 /\ tail = Slot(q_count)
          /\ data \in [0 .. max_count - 1 -> Values \cup {0}]
        BY <1>2 DEF is_full, RingInv, QueueTypeOK, RingOK
    <2>2. put_slot \in 0 .. max_count - 1 /\ InRing(put_slot)
        BY <2>1 DEF put_slot, next_slot, InRing, Slot
    <2>3. /\ q_count' = q_count + 1 /\ head' = (IF q_count = 0 THEN 0 ELSE head)
          /\ data' = [data EXCEPT ![put_slot] = v]
          /\ q_out' = Done("put", <<v>>) /\ UNCHANGED <<max_count, q_pc>>
        BY <1>2, <2>2 DEF pqueue_put
    <2>4. ASSUME NEW k \in 1 .. q_count
          PROVE  Slot(k)' = Slot(k) /\ Slot(k) \in 0 .. max_count - 1 /\ Slot(k) # put_slot
        <3>1. head' = head /\ max_count' = max_count /\ head \in 0 .. max_count - 1
            BY <2>1, <2>3
        <3>2. Slot(k)' = Slot(k)
            BY <3>1 DEF Slot
        <3>3. Slot(k) \in 0 .. max_count - 1
            BY <2>1, <3>1 DEF Slot
        <3>4. Slot(k) # put_slot
            BY <2>1, <3>1 DEF Slot, put_slot, next_slot
        <3> QED  BY <3>2, <3>3, <3>4
    <2>5. ASSUME NEW k \in Nat, k = q_count + 1
          PROVE  Slot(k)' = put_slot
        <3>1. CASE q_count = 0
            BY <2>1, <2>3, <2>5, <3>1 DEF Slot, put_slot
        <3>2. CASE q_count > 0
            BY <2>1, <2>3, <2>5, <3>2, SMTT(30) DEF Slot, put_slot, next_slot
        <3> QED  BY <2>1, <3>1, <3>2
    <2>6. \A k \in 1 .. q_count : data'[Slot(k)'] = data[Slot(k)]
        BY <2>1, <2>2, <2>3, <2>4
    <2>7. data'[put_slot] = v
        BY <2>1, <2>2, <2>3
    <2>8. \A k \in 1 .. q_count + 1 :
             data'[Slot(k)'] = IF k <= q_count THEN data[Slot(k)] ELSE v
        <3> TAKE k \in 1 .. q_count + 1
        <3>1. k \in 1 .. q_count \/ k = q_count + 1
            BY <2>1
        <3>2. CASE k = q_count + 1
            BY <2>1, <2>5, <2>7, <3>2
        <3> QED  BY <2>1, <2>6, <3>1, <3>2
    <2>9. Contents' = [k \in 1 .. q_count + 1 |-> IF k <= q_count THEN data[Slot(k)] ELSE v]
        BY <2>3, <2>8 DEF Contents
    <2>10. Append(Contents, v) = [k \in 1 .. q_count + 1 |-> IF k <= q_count THEN Contents[k] ELSE v]
        BY <2>1, ContentsSeq
    <2>11. \A k \in 1 .. q_count : Contents[k] = data[Slot(k)]
        BY ContentsSeq
    <2>12. Contents' = Append(Contents, v)
        BY <2>1, <2>9, <2>10, <2>11
    <2>13. Len(Contents) < max_count
        BY <2>1, ContentsSeq
    <2> QED  BY <1>0, <2>3, <2>12, <2>13 DEF Fifo!Put, Fifo!Done, Done
<1> QED  BY <1>1, <1>2

LEMMA RefineDumpEnd ==
    ASSUME RingInv, RingInv', dump_end
    PROVE  Fifo!Dump
<1>1. /\ q_pc = "dump" /\ q_n = q_count /\ Len(shown) = q_count /\ q_count \in Nat
      /\ shown \in Seq(Values \cup {0})
      /\ \A k \in 1 .. q_count : shown[k] = data[Slot(k)]
    BY DEF RingInv, QueueTypeOK, DumpOK, dump_end
<1>2. shown = Contents
    BY <1>1, ContentsSeq
<1>3. UNCHANGED queue /\ Contents' = Contents /\ Phase = "open" /\ Phase' = "open"
    BY DEF dump_end, queue, Contents, Slot, Phase
<1> QED  BY <1>2, <1>3 DEF dump_end, queue, Fifo!Dump, Fifo!Done, Done

(* Steps the FIFO does not see, and the end of input. *)
LEMMA RefineOther ==
    ASSUME RingInv, pqueue_dump \/ dump_item \/ pqueue_free \/ UNCHANGED queue_vars
    PROVE  Fifo!Free \/ UNCHANGED Fifo!fifoVars
<1>1. UNCHANGED queue /\ q_out' = q_out
    BY DEF pqueue_dump, dump_item, pqueue_free, queue_vars
<1>2. Contents' = Contents /\ max_count' = max_count
    BY <1>1 DEF queue, Contents, Slot
<1>3. CASE pqueue_free
    BY <1>1, <1>2, <1>3 DEF pqueue_free, Fifo!Free, Phase
<1>4. CASE pqueue_dump \/ dump_item \/ UNCHANGED queue_vars
    <2>1. Phase' = Phase
        BY <1>4 DEF pqueue_dump, dump_item, queue_vars, Phase
    <2> QED  BY <1>1, <1>2, <2>1 DEF Fifo!fifoVars
<1> QED  BY <1>3, <1>4

(* queue.c is a first-in first-out queue (queue.h): under the commands of
   testq.c, every behaviour of the ring is one of BoundedFifo. *)
THEOREM RingIsFifo == QueueSpec => ImplementsFifo
<1>1. QueueInit => RingInv
    BY DEF QueueInit, RingInv, QueueTypeOK, RingOK, DumpOK, NO_ENTRY, NO_MEMORY
<1>2. RingInv /\ [QueueNext]_queue_vars => RingInv'
    BY RingCreate, RingGet, RingPut, RingDump, RingDumpItem, RingFree DEF QueueNext
<1>3. QueueInit => Fifo!Init
    <2> SUFFICES ASSUME QueueInit PROVE Fifo!Init
        OBVIOUS
    <2>1. Contents = <<>>
        BY <1>1, ContentsSeq DEF QueueInit
    <2> QED  BY <2>1 DEF QueueInit, Fifo!Init, Fifo!Failed, Failed, Phase
<1>4. RingInv /\ RingInv' /\ [QueueNext]_queue_vars => [Fifo!Next]_Fifo!fifoVars
    BY RefineCreate, RefineGet, RefinePut, RefineDumpEnd, RefineOther DEF QueueNext, Fifo!Next
<1> QED  BY <1>1, <1>2, <1>3, <1>4, PTL DEF QueueSpec, ImplementsFifo, Fifo!Spec

=============================================================================
