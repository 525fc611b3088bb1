------------------------------- MODULE NeRing -------------------------------
(***************************************************************************)
(* A packet ring of the dataplane (struct ne_ring of xdp_interface.c) and  *)
(* the UMEM frames that travel through it: worker threads take frames from *)
(* the pool and push them, one TX thread drains the ring to the NIC, the   *)
(* NIC hands the frames back to the pool, and the administration of a WAN  *)
(* flushes its rings from another thread (fwd_wan_flush_queue).            *)
(*                                                                         *)
(* head and tail are free-running unsigned counters; a step of this module *)
(* is one access to memory another thread may be using.                    *)
(***************************************************************************)
EXTENDS Naturals, Sequences, FiniteSets

CONSTANTS
  Producers,   \* threads that push
  Frames,      \* UMEM frames
  NoFrame, Nobody,
  Cap,         \* NE_RING, a power of two
  CntMod,      \* 2^32: where the counters wrap
  Batch,       \* NE_XSK_COPY_TX_BATCH
  PopLocked,   \* mpsc_pop
  Flusher      \* whether a flush may run beside the TX thread

ASSUME RingAssumption ==
  /\ Cap \in Nat \ {0, 1} /\ CntMod \in Nat /\ CntMod > Cap /\ CntMod % Cap = 0
  /\ Batch \in Nat \ {0}
  /\ PopLocked \in BOOLEAN /\ Flusher \in BOOLEAN

TX == "tx"
Flush == "flush"
Consumers == IF Flusher THEN {TX, Flush} ELSE {TX}

ASSUME NameAssumption == NoFrame \notin Frames /\ Nobody \notin Producers \cup Consumers

(* A descriptor: its frame and, for the head fragment of a datagram that   *)
(* was split, the frame of the tail fragment.                              *)
Item == [frame : Frames, mate : Frames \cup {NoFrame}]

VARIABLES
  head, tail, buf,
  pushLock,    \* the producer that holds push_lock
  popLock,     \* the consumer that holds pop_lock
  pool,        \* how often each frame is in the pool
  nic,         \* how often each frame is queued for transmission
  ppc, held,   \* where each producer stands, the frames it owns
  cpc,         \* where each consumer stands
  ctail,       \* its copy of tail
  cur,         \* the descriptor it copied out
  hand,        \* descriptors the TX thread popped for its batch
  reserved     \* TX descriptors it may still fill

prodVars == <<ppc, held>>
consVars == <<cpc, ctail, cur, hand, reserved>>
vars == <<head, tail, buf, pushLock, popLock, pool, nic, prodVars, consVars>>

Min2(a, b) == IF a < b THEN a ELSE b

(* ne_ring_count.                                                          *)
Count == (head + CntMod - tail) % CntMod

Whole(f) == [frame |-> f, mate |-> NoFrame]

(* The descriptors a producer pushes for the frames it owns.               *)
Items(fs) ==
  [i \in 1..Len(fs) |-> [frame |-> fs[i],
                         mate |-> IF i < Len(fs) THEN fs[i + 1] ELSE NoFrame]]

(* ne_frame_free.  The pool has room for every frame there is, so while no *)
(* frame is freed twice it is never full.                                  *)
Freed(fs) ==
  [f \in Frames |-> pool[f] + Cardinality({i \in 1..Len(fs) : fs[i] = f})]

Init ==
  /\ head = 0 /\ tail = 0
  /\ buf \in {[i \in 0..(Cap - 1) |-> Whole(f)] : f \in Frames}
  /\ pushLock = Nobody /\ popLock = Nobody
  /\ pool = [f \in Frames |-> 1] /\ nic = [f \in Frames |-> 0]
  /\ ppc = [p \in Producers |-> "idle"] /\ held = [p \in Producers |-> <<>>]
  /\ cpc = [c \in Consumers |-> "idle"] /\ ctail = [c \in Consumers |-> 0]
  /\ cur = [c \in Consumers |-> Whole(NoFrame)] /\ hand = <<>> /\ reserved = 0

----------------------------------------------------------------------------
(* Producers.                                                              *)

(* A packet arrives in a frame of the pool and is given to the producer.   *)
Receive(p, f) ==
  /\ ppc[p] = "idle" /\ pool[f] > 0
  /\ pool' = [pool EXCEPT ![f] = @ - 1]
  /\ held' = [held EXCEPT ![p] = <<f>>]
  /\ ppc' = [ppc EXCEPT ![p] = "ready"]
  /\ UNCHANGED <<head, tail, buf, pushLock, popLock, nic, consVars>>

(* Encryption made it too long: split_tail_take, crypto_option_split.      *)
Split(p, f) ==
  /\ ppc[p] = "ready" /\ Len(held[p]) = 1 /\ pool[f] > 0
  /\ pool' = [pool EXCEPT ![f] = @ - 1]
  /\ held' = [held EXCEPT ![p] = Append(@, f)]
  /\ UNCHANGED <<head, tail, buf, pushLock, popLock, nic, ppc, consVars>>

(* The packet is dropped and the producer's frames go back to the pool.    *)
Dropped(p) ==
  /\ pool' = Freed(held[p])
  /\ held' = [held EXCEPT ![p] = <<>>]
  /\ ppc' = [ppc EXCEPT ![p] = "idle"]

(* push_split_to_wan looks for room before it takes the lock.              *)
SplitNoRoom(p) ==
  /\ ppc[p] = "ready" /\ Len(held[p]) = 2 /\ Count + 2 > Cap
  /\ Dropped(p)
  /\ UNCHANGED <<head, tail, buf, pushLock, popLock, nic, consVars>>

PushLock(p) ==
  /\ ppc[p] = "ready" /\ pushLock = Nobody
  /\ pushLock' = p
  /\ ppc' = [ppc EXCEPT ![p] = "locked"]
  /\ UNCHANGED <<head, tail, buf, popLock, pool, nic, held, consVars>>

(* The checks of ne_ring_try_push and ne_ring_try_push_pair.               *)
Full(n) == IF n = 1 THEN Count >= Cap ELSE Count > Cap - 2

PushFull(p) ==
  /\ ppc[p] = "locked" /\ Full(Len(held[p]))
  /\ pushLock' = Nobody
  /\ Dropped(p)
  /\ UNCHANGED <<head, tail, buf, popLock, nic, consVars>>

PushRoom(p) ==
  /\ ppc[p] = "locked" /\ ~Full(Len(held[p]))
  /\ ppc' = [ppc EXCEPT ![p] = "room"]
  /\ UNCHANGED <<head, tail, buf, pushLock, popLock, pool, nic, held, consVars>>

Write(p) ==
  /\ ppc[p] = "room"
  /\ buf' = [buf EXCEPT ![head % Cap] = Items(held[p])[1]]
  /\ ppc' = [ppc EXCEPT ![p] = IF Len(held[p]) = 1 THEN "written" ELSE "second"]
  /\ UNCHANGED <<head, tail, pushLock, popLock, pool, nic, held, consVars>>

WriteSecond(p) ==
  /\ ppc[p] = "second"
  /\ buf' = [buf EXCEPT ![(head + 1) % Cap] = Items(held[p])[2]]
  /\ ppc' = [ppc EXCEPT ![p] = "written"]
  /\ UNCHANGED <<head, tail, pushLock, popLock, pool, nic, held, consVars>>

(* Mutant of Publish: the fragments of a pair are published one by one.    *)
PublishEach(p) ==
  /\ ppc[p] = "written"
  /\ head' = (head + 1) % CntMod
  /\ held' = [held EXCEPT ![p] = Tail(@)]
  /\ pushLock' = IF Len(held[p]) = 1 THEN Nobody ELSE p
  /\ ppc' = [ppc EXCEPT ![p] = IF Len(held[p]) = 1 THEN "idle" ELSE "written"]
  /\ UNCHANGED <<tail, buf, popLock, pool, nic, consVars>>

(* One store of head makes one or both descriptors visible.                *)
Publish(p) ==
  /\ ppc[p] = "written"
  /\ head' = (head + Len(held[p])) % CntMod
  /\ pushLock' = Nobody
  /\ held' = [held EXCEPT ![p] = <<>>]
  /\ ppc' = [ppc EXCEPT ![p] = "idle"]
  /\ UNCHANGED <<tail, buf, popLock, pool, nic, consVars>>

----------------------------------------------------------------------------
(* Consumers.                                                              *)

(* tx_drain_queue reserves n of the descriptors the NIC has free.          *)
TxBegin(n) ==
  /\ cpc[TX] = "idle"
  /\ n <= Min2(Count, Batch)
  /\ reserved' = n
  /\ cpc' = [cpc EXCEPT ![TX] = "pop"]
  /\ UNCHANGED <<head, tail, buf, pushLock, popLock, pool, nic, prodVars, ctail, cur, hand>>

(* A WAN is kicked, or its drain ends.                                     *)
FlushBegin ==
  /\ Flusher /\ cpc[Flush] = "idle"
  /\ cpc' = [cpc EXCEPT ![Flush] = "pop"]
  /\ UNCHANGED <<head, tail, buf, pushLock, popLock, pool, nic, prodVars, ctail, cur,
                 hand, reserved>>

(* Mutant of PopTail: the pop lock is not taken.                           *)
PopTailUnlocked(c) ==
  /\ cpc[c] = "pop"
  /\ ctail' = [ctail EXCEPT ![c] = tail]
  /\ cpc' = [cpc EXCEPT ![c] = "tail"]
  /\ UNCHANGED <<head, tail, buf, pushLock, popLock, pool, nic, prodVars, cur, hand,
                 reserved>>

(* ne_ring_try_pop: the lock, if the ring has one, and the load of tail.   *)
PopTail(c) ==
  /\ cpc[c] = "pop"
  /\ PopLocked => popLock = Nobody
  /\ popLock' = IF PopLocked THEN c ELSE Nobody
  /\ ctail' = [ctail EXCEPT ![c] = tail]
  /\ cpc' = [cpc EXCEPT ![c] = "tail"]
  /\ UNCHANGED <<head, tail, buf, pushLock, pool, nic, prodVars, cur, hand, reserved>>

PopEmpty(c) ==
  /\ cpc[c] = "tail" /\ ctail[c] = head
  /\ popLock' = Nobody
  /\ cpc' = [cpc EXCEPT ![c] = IF c = TX THEN "submit" ELSE "idle"]
  /\ UNCHANGED <<head, tail, buf, pushLock, pool, nic, prodVars, ctail, cur, hand, reserved>>

PopCopy(c) ==
  /\ cpc[c] = "tail" /\ ctail[c] # head
  /\ cur' = [cur EXCEPT ![c] = buf[ctail[c] % Cap]]
  /\ cpc' = [cpc EXCEPT ![c] = "copied"]
  /\ UNCHANGED <<head, tail, buf, pushLock, popLock, pool, nic, prodVars, ctail, hand,
                 reserved>>

(* The TX thread keeps the descriptor for its batch, a flush frees it.     *)
PopStore(c) ==
  /\ cpc[c] = "copied"
  /\ tail' = (ctail[c] + 1) % CntMod
  /\ popLock' = Nobody
  /\ IF c = TX
       THEN /\ hand' = Append(hand, cur[TX])
            /\ reserved' = reserved - 1
            /\ cpc' = [cpc EXCEPT ![TX] = IF reserved = 1 THEN "submit" ELSE "pop"]
            /\ UNCHANGED pool
       ELSE /\ pool' = Freed(<<cur[c].frame>>)
            /\ cpc' = [cpc EXCEPT ![c] = "pop"]
            /\ UNCHANGED <<hand, reserved>>
  /\ cur' = [cur EXCEPT ![c] = Whole(NoFrame)]
  /\ ctail' = [ctail EXCEPT ![c] = 0]
  /\ UNCHANGED <<head, buf, pushLock, nic, prodVars>>

(* The batch goes to the NIC; what was reserved in excess is given back.   *)
Submit ==
  /\ cpc[TX] = "submit"
  /\ nic' = [f \in Frames |->
               nic[f] + Cardinality({i \in 1..Len(hand) : hand[i].frame = f})]
  /\ hand' = <<>> /\ reserved' = 0
  /\ cpc' = [cpc EXCEPT ![TX] = "idle"]
  /\ UNCHANGED <<head, tail, buf, pushLock, popLock, pool, prodVars, ctail, cur>>

(* The NIC has sent the frame; drain_cq_queue returns it to the pool.      *)
Complete(f) ==
  /\ nic[f] > 0
  /\ nic' = [nic EXCEPT ![f] = @ - 1]
  /\ pool' = Freed(<<f>>)
  /\ UNCHANGED <<head, tail, buf, pushLock, popLock, prodVars, consVars>>

----------------------------------------------------------------------------
Produce(p) ==
  \/ \E f \in Frames : Receive(p, f) \/ Split(p, f)
  \/ SplitNoRoom(p) \/ PushLock(p) \/ PushFull(p) \/ PushRoom(p)
  \/ Write(p) \/ WriteSecond(p) \/ Publish(p)

Pop(c) == PopTail(c) \/ PopEmpty(c) \/ PopCopy(c) \/ PopStore(c)

Drain == (\E n \in 1..Batch : TxBegin(n)) \/ Pop(TX) \/ Submit

FlushStep == FlushBegin \/ (Flusher /\ Pop(Flush))

Next ==
  \/ \E p \in Producers : Produce(p)
  \/ Drain
  \/ FlushStep
  \/ \E f \in Frames : Complete(f)

Spec == Init /\ [][Next]_vars

----------------------------------------------------------------------------
(* What the ring holds: the descriptors between tail and head.             *)
Queue == [i \in 1..Count |-> buf[(tail + i - 1) % Cap]]

(* Every variable keeps its type, and the ring never holds more than Cap.  *)
TypeOK ==
  /\ head \in 0..(CntMod - 1) /\ tail \in 0..(CntMod - 1) /\ Count <= Cap
  /\ buf \in [0..(Cap - 1) -> Item]
  /\ pushLock \in Producers \cup {Nobody} /\ popLock \in Consumers \cup {Nobody}
  /\ pool \in [Frames -> Nat] /\ nic \in [Frames -> Nat]
  /\ ppc \in [Producers -> {"idle", "ready", "locked", "room", "second", "written"}]
  /\ held \in [Producers -> Seq(Frames)] /\ \A p \in Producers : Len(held[p]) <= 2
  /\ cpc \in [Consumers -> {"idle", "pop", "tail", "copied", "submit"}]
  /\ ctail \in [Consumers -> 0..(CntMod - 1)]
  /\ cur \in [Consumers -> Item \cup {Whole(NoFrame)}]
  /\ hand \in Seq(Item) /\ reserved \in 0..Batch

(* The places a frame is in: the pool, a producer's hands, the ring, the   *)
(* TX thread's batch, the NIC.                                             *)
Places(f) ==
  UNION { {<<"pool", i>> : i \in 1..pool[f]},
          {<<"held", x[1], x[2]>> :
             x \in {y \in Producers \X {1, 2} :
                      y[2] <= Len(held[y[1]]) /\ held[y[1]][y[2]] = f}},
          {<<"ring", i>> : i \in {j \in 1..Count : Queue[j].frame = f}},
          {<<"hand", i>> : i \in {j \in 1..Len(hand) : hand[j].frame = f}},
          {<<"nic", i>> : i \in 1..nic[f]} }

(* No frame is lost and none has two owners, whatever the ring, the        *)
(* producers, the TX thread, a flush and the NIC do at the same time: a    *)
(* frame in two places is overwritten while it is being sent.              *)
FrameOnce == \A f \in Frames : Cardinality(Places(f)) = 1

(* The ring, read through its counters, is the bounded queue: every store  *)
(* to it by any thread is one enqueue, one dequeue or invisible, and the   *)
(* fragments of a datagram become visible together, with nothing of        *)
(* another producer between them.                                          *)
Fifo == INSTANCE FrameQueue WITH
  Single <- {Whole(f) : f \in Frames},
  Pair <- {Items(<<fg[1], fg[2]>>) : fg \in Frames \X Frames},
  q <- Queue
FifoSpec == Fifo!Spec
=============================================================================
