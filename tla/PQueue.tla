------------------------------- MODULE PQueue -------------------------------
(***************************************************************************)
(* The pointer queue queue/queue.c under the commands of queue/testq.c.    *)
(* Items live in the ring data[0 .. max_count-1]; head and tail are the    *)
(* slots of the oldest and the youngest, -1 when there is none.            *)
(*                                                                         *)
(* pqueue_get gives -1 for an empty queue, and -1 may also be an          *)
(* item: the caller tells them apart by errno.                             *)
(***************************************************************************)
EXTENDS Integers, Sequences

CONSTANTS
    Values,      \* the items main puts, as integers; -1 may be one of them
    Capacities   \* the capacities main may be given

ASSUME ValuesAssumption     == Values \subseteq Int
ASSUME CapacitiesAssumption == Capacities \subseteq Nat

\* ENOENT and ENOMEM.
NO_ENTRY == 2
NO_MEMORY == 12

VARIABLES
    data, max_count, q_count, head, tail,  \* struct pqueue
    q_errno,
    q_pc,             \* "new", "ready" for a command, "dump", "exit", "aborted"
    q_n, q_i, shown,  \* pqueue_dump: its counters, and what it printed so far
    q_out,            \* what main answered to the last command
    q_rc              \* main's exit status: what the last pqueue_put returned

queue == <<data, max_count, q_count, head, tail>>
dumped == <<q_n, q_i, shown>>
queue_vars == <<queue, q_errno, q_pc, dumped, q_out, q_rc>>

Done(op, items) == [op |-> op, ok |-> TRUE, items |-> items]
Failed(op)      == [op |-> op, ok |-> FALSE, items |-> <<>>]

QueueInit ==
    /\ data = <<>> /\ max_count = 0 /\ q_count = 0 /\ head = -1 /\ tail = -1
    /\ q_errno = 0 /\ q_pc = "new"
    /\ q_n = 0 /\ q_i = 0 /\ shown = <<>>
    /\ q_out = Failed("none") /\ q_rc = 0

-----------------------------------------------------------------------------

(* calloc may fail for the queue or for its ring; main then returns 1. *)
pqueue_create(capacity) ==
    /\ q_pc = "new"
    /\ \/ /\ data' = [s \in 0 .. capacity - 1 |-> 0]
          /\ max_count' = capacity /\ q_count' = 0
          /\ head' = -1 /\ tail' = -1
          /\ q_pc' = "ready"
          /\ UNCHANGED <<q_errno, q_rc>>
       \/ /\ q_errno' = NO_MEMORY
          /\ q_pc' = "exit" /\ q_rc' = 1
          /\ UNCHANGED queue
    /\ UNCHANGED <<dumped, q_out>>

InRing(s) == s >= 0 /\ s < max_count

(* Mutant: the index runs one slot past the ring. *)
next_slot_late(s) == IF s + 1 > max_count THEN 0 ELSE s + 1

(* The slot after s. *)
next_slot(s) == IF s + 1 >= max_count THEN 0 ELSE s + 1

(* The head after an item left. *)
get_moves ==
    /\ q_count' = q_count - 1
    /\ \/ q_count = 1 /\ head' = -1 /\ tail' = -1
       \/ q_count > 1 /\ head' = next_slot(head) /\ UNCHANGED tail

(* Mutant: main leaves errno as the last command did. *)
errno_at_get_stale == q_errno

(* main clears errno before it calls pqueue_get. *)
errno_at_get == 0

(* An error for main is -1 together with an errno. *)
answer_get(val, err) ==
    q_out' = IF val = -1 /\ err # 0 THEN Failed("get") ELSE Done("get", <<val>>)

pqueue_get ==
    /\ q_pc = "ready"
    /\ \/ /\ q_count = 0
          /\ q_errno' = NO_ENTRY
          /\ answer_get(-1, NO_ENTRY)
          /\ UNCHANGED <<queue, q_pc>>
       \/ /\ q_count > 0 /\ ~InRing(head)
          /\ q_pc' = "aborted"
          /\ UNCHANGED <<queue, q_errno, q_out>>
       \/ /\ q_count > 0 /\ InRing(head)
          /\ q_errno' = errno_at_get
          /\ answer_get(data[head], errno_at_get)
          /\ get_moves
          /\ UNCHANGED <<data, max_count, q_pc>>
    /\ UNCHANGED <<dumped, q_rc>>

(* The slot a new item goes to. *)
put_slot == IF q_count = 0 THEN 0 ELSE next_slot(tail)

(* Mutant: the limit is tested with > instead of >=. *)
is_full_late == q_count > max_count

is_full == q_count >= max_count

pqueue_put(val) ==
    /\ q_pc = "ready"
    /\ \/ /\ is_full
          /\ q_errno' = NO_MEMORY /\ q_rc' = -1
          /\ q_out' = Failed("put")
          /\ UNCHANGED <<queue, q_pc>>
       \/ /\ ~is_full /\ ~InRing(put_slot)
          /\ q_pc' = "aborted"
          /\ UNCHANGED <<queue, q_errno, q_out, q_rc>>
       \/ /\ ~is_full /\ InRing(put_slot)
          /\ q_count' = q_count + 1
          /\ head' = IF q_count = 0 THEN 0 ELSE head
          /\ tail' = put_slot
          /\ data' = [data EXCEPT ![put_slot] = val]
          /\ q_rc' = 0
          /\ q_out' = Done("put", <<val>>)
          /\ UNCHANGED <<max_count, q_errno, q_pc>>
    /\ UNCHANGED dumped

(* pqueue_dump walks the ring, one item a step. *)
pqueue_dump ==
    /\ q_pc = "ready" /\ q_pc' = "dump"
    /\ q_n' = 0 /\ q_i' = head /\ shown' = <<>>
    /\ UNCHANGED <<queue, q_errno, q_out, q_rc>>

dump_slot == IF q_i >= max_count THEN 0 ELSE q_i

dump_item ==
    /\ q_pc = "dump" /\ q_n < q_count
    /\ shown' = Append(shown, data[dump_slot])
    /\ q_n' = q_n + 1 /\ q_i' = dump_slot + 1
    /\ UNCHANGED <<queue, q_errno, q_pc, q_out, q_rc>>

dump_end ==
    /\ q_pc = "dump" /\ q_n >= q_count
    /\ q_out' = Done("dump", shown)
    /\ q_pc' = "ready"
    /\ q_n' = 0 /\ q_i' = 0 /\ shown' = <<>>
    /\ UNCHANGED <<queue, q_errno, q_rc>>

(* End of input. *)
pqueue_free ==
    /\ q_pc = "ready" /\ q_pc' = "exit"
    /\ UNCHANGED <<queue, q_errno, dumped, q_out, q_rc>>

QueueNext ==
    \/ \E c \in Capacities : pqueue_create(c)
    \/ pqueue_get
    \/ \E v \in Values : pqueue_put(v)
    \/ pqueue_dump \/ dump_item \/ dump_end
    \/ pqueue_free

QueueSpec == QueueInit /\ [][QueueNext]_queue_vars

-----------------------------------------------------------------------------
(* Properties. *)

QueueTypeOK ==
    /\ max_count \in Nat /\ q_count \in 0 .. max_count
    /\ data \in [0 .. max_count - 1 -> Values \cup {0}]
    /\ head \in -1 .. max_count - 1 /\ tail \in -1 .. max_count - 1
    /\ q_errno \in {0, NO_ENTRY, NO_MEMORY}
    /\ q_pc \in {"new", "ready", "dump", "exit", "aborted"}
    /\ q_n \in Nat /\ q_i \in Int /\ shown \in Seq(Values \cup {0})
    /\ q_rc \in {0, 1, -1}

(* The slot of the k-th oldest item. *)
Slot(k) == IF head + k - 1 < max_count THEN head + k - 1
                                       ELSE head + k - 1 - max_count

(* head and tail delimit exactly count slots of the ring, and are both -1
   when there are none: what the assertions of pqueue_get and pqueue_put
   need, however often the ring wrapped. *)
RingOK ==
    /\ q_pc # "aborted"
    /\ q_count = 0 => head = -1 /\ tail = -1
    /\ q_count > 0 => head >= 0 /\ tail = Slot(q_count)

(* The items queued, oldest first. *)
Contents == [k \in 1 .. q_count |-> data[Slot(k)]]

Phase == CASE q_pc = "new" -> "new" [] q_pc = "exit" -> "closed" [] OTHER -> "open"

Fifo == INSTANCE BoundedFifo
            WITH phase <- Phase, cap <- max_count, q <- Contents, out <- q_out

(* The ring implements the FIFO of queue.h: every item comes out once, in
   order, with its own value, -1 included; a full queue refuses and keeps what
   it has; a dump shows the items in order. *)
ImplementsFifo == Fifo!Spec

=============================================================================
