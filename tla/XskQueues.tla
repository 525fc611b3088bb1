----------------------------- MODULE XskQueues -----------------------------
(***************************************************************************)
(* The AF_XDP sockets of a dataplane and the UMEM frames that go round     *)
(* through them (struct ne_pair of interface.h, xdp_interface.c): from the *)
(* pool to a fill queue, to a receive queue, to the workers, to a transmit *)
(* queue, and back to the pool when the NIC is done.                       *)
(*                                                                         *)
(* Ports are numbered, LANs first.  A port is an interface of the          *)
(* configuration, or a slot of the pair: p->locals[i] is slot i and        *)
(* p->wans[d] is slot Lans + d.  A WAN and its slot differ in number when  *)
(* a WAN before it is not on the dataplane.                                *)
(*                                                                         *)
(* The kernel's side (which interface has a program, which is promiscuous) *)
(* outlives the process; deleting a socket unmaps its rings, as libxdp     *)
(* does, so that a thread which still reads them may crash.                *)
(***************************************************************************)
EXTENDS Integers, FiniteSets, FiniteSetsExt

CONSTANTS
  Lans, Wans,   \* interfaces of the configuration
  NumQ,         \* queues of each interface
  RxSlots,      \* NE_RX_LAN_SLOTS, NE_RX_WAN_SLOTS
  NFrames,      \* NE_N_FRAMES
  Ring          \* NE_RING, also NE_FQ_PREFILL

Port == 0..(Lans + Wans - 1)
Lan == 0..(Lans - 1)
Wan == Port \ Lan
NoPort == -1

ASSUME XskAssumption ==
  /\ Lans \in Nat \ {0} /\ Wans \in Nat
  /\ NumQ \in [Port -> Nat \ {0}]
  /\ RxSlots \in Nat \ {0} /\ NFrames \in Nat \ {0} /\ Ring \in Nat \ {0}

Queue == Port \X (0..(Max({NumQ[p] : p \in Port}) - 1))

VARIABLES
  slot,      \* the pair's slots
  umem,      \* p->umem
  pool,      \* frames in p->pool
  fq, rx,    \* frames in each fill and receive queue
  pend,      \* rx_pending: received, not yet released
  out,       \* frames in each transmit or completion queue
  hand,      \* frames with the workers and in their rings
  readers,   \* RX threads: on the LANs, on the WANs
  link,      \* kernel: interfaces with an XDP program
  promisc    \* kernel: promiscuous interfaces

frameVars == <<pool, fq, rx, pend, out, hand>>
kernelVars == <<link, promisc>>
xskVars == <<slot, umem, frameVars, readers, kernelVars>>

(* A slot: interface, queue_count, sockets, bpf object, xdp_on, live.      *)
EmptySlot == [name |-> NoPort, nq |-> 0, xsk |-> 0, bpf |-> FALSE, on |-> FALSE,
              live |-> FALSE]

NoFrames == [q \in Queue |-> 0]

QueuesOf(s) == {<<s, i>> : i \in 0..(slot[s].nq - 1)}
SumOver(f, Q) == MapThenSumSet(LAMBDA q : f[q], Q)

(* xsk_queue_for_rx_slot: which RX thread reads queue i of nq.             *)
ReaderOf(i, nq) == i % Min({nq, RxSlots})

ReadersAt(s) == IF s \in Lan THEN readers.lan ELSE readers.wan
Running == readers.lan > 0

(* The queues some RX thread serves; the LAN and the WAN threads skip the  *)
(* slots that are not live.                                                *)
Served == {q \in Queue :
             /\ slot[q[1]].live /\ q \in QueuesOf(q[1])
             /\ ReaderOf(q[2], slot[q[1]].nq) < ReadersAt(q[1])}

(* Its sockets are there.                                                  *)
HasRings(q) == slot[q[1]].xsk > q[2]

XskInit ==
  /\ slot = [s \in Port |-> EmptySlot] /\ umem = FALSE
  /\ pool = 0 /\ fq = NoFrames /\ rx = NoFrames /\ pend = NoFrames /\ out = NoFrames
  /\ hand = 0 /\ readers = [lan |-> 0, wan |-> 0]
  /\ link = {} /\ promisc = {}

----------------------------------------------------------------------------
(* The threads at work.                                                    *)

(* refill_fq_queue: as many frames as fit and as the pool has.             *)
Refill(q) ==
  /\ Running /\ q \in Served /\ HasRings(q)
  /\ LET n == Min({Ring - fq[q], pool})
     IN  /\ n > 0
         /\ fq' = [fq EXCEPT ![q] = @ + n]
         /\ pool' = pool - n
  /\ UNCHANGED <<slot, umem, rx, pend, out, hand, readers, kernelVars>>

(* The kernel puts a packet the program redirects into a frame of the fill *)
(* queue.                                                                  *)
KernelReceives(q) ==
  /\ HasRings(q) /\ slot[q[1]].name \in link /\ fq[q] > 0 /\ rx[q] < Ring
  /\ fq' = [fq EXCEPT ![q] = @ - 1]
  /\ rx' = [rx EXCEPT ![q] = @ + 1]
  /\ UNCHANGED <<slot, umem, pool, pend, out, hand, readers, kernelVars>>

(* Mutant of Receive: what was received before is received again.          *)
ReceiveAgain(q) ==
  /\ Running /\ q \in Served /\ HasRings(q) /\ rx[q] > 0
  /\ pend' = [pend EXCEPT ![q] = rx[q]]
  /\ hand' = hand + rx[q]
  /\ UNCHANGED <<slot, umem, pool, fq, rx, out, readers, kernelVars>>

(* recv_queue: the frames go to the workers while their descriptors stay   *)
(* in the ring.                                                            *)
Receive(q) ==
  /\ Running /\ q \in Served /\ HasRings(q) /\ pend[q] = 0 /\ rx[q] > 0
  /\ pend' = [pend EXCEPT ![q] = rx[q]]
  /\ hand' = hand + rx[q]
  /\ UNCHANGED <<slot, umem, pool, fq, rx, out, readers, kernelVars>>

(* ne_recv_release_local_slot, ne_recv_release_wan_slot.                   *)
Release(q) ==
  /\ Running /\ q \in Served /\ HasRings(q) /\ pend[q] > 0
  /\ rx' = [rx EXCEPT ![q] = @ - pend[q]]
  /\ pend' = [pend EXCEPT ![q] = 0]
  /\ UNCHANGED <<slot, umem, pool, fq, out, hand, readers, kernelVars>>

(* A worker drops a packet.                                                *)
FrameFree ==
  /\ Running /\ hand > 0
  /\ hand' = hand - 1 /\ pool' = pool + 1
  /\ UNCHANGED <<slot, umem, fq, rx, pend, out, readers, kernelVars>>

(* tx_drain_queue: a packet goes to the NIC.                               *)
Transmit(q) ==
  /\ Running /\ hand > 0 /\ slot[q[1]].live /\ HasRings(q)
  /\ hand' = hand - 1 /\ out' = [out EXCEPT ![q] = @ + 1]
  /\ UNCHANGED <<slot, umem, pool, fq, rx, pend, readers, kernelVars>>

(* drain_cq_queue.                                                         *)
DrainCq(q) ==
  /\ Running /\ slot[q[1]].live /\ HasRings(q) /\ out[q] > 0
  /\ pool' = pool + out[q] /\ out' = [out EXCEPT ![q] = 0]
  /\ UNCHANGED <<slot, umem, fq, rx, pend, hand, readers, kernelVars>>

(* The threads go on with a slot that is live and whose sockets are gone.  *)
TouchesDeleted ==
  Running /\ \E s \in Port : slot[s].live /\ slot[s].nq > 0 /\ slot[s].xsk = 0

ThreadStep ==
  \/ \E q \in Queue :
       Refill(q) \/ KernelReceives(q) \/ Receive(q) \/ Release(q) \/ Transmit(q) \/ DrainCq(q)
  \/ FrameFree

----------------------------------------------------------------------------
(* What the control side does to slots, frames and links; the operators    *)
(* return the new value.                                                   *)

(* profile_iface_xdp_link_off on each of them.                             *)
LinkOff(ports) == link \ ports

(* Frames of the queues in Q are out of reach.                             *)
Forget(f, Q) == [q \in Queue |-> IF q \in Q THEN 0 ELSE f[q]]

(* The k-th queue filled gets a full fill queue while the pool lasts.      *)
Prefilled(Q) ==
  LET before(q) == Cardinality({p \in Q : p[1] < q[1] \/ (p[1] = q[1] /\ p[2] < q[2])})
      left(q) == Max({0, pool - Ring * before(q)})
  IN  [q \in Queue |-> IF q \in Q THEN Min({Ring, left(q)}) ELSE fq[q]]

(* open_iface_queues: a socket on each of the nq queues it is told to open. *)
Opened(sl, name, nq) == [sl EXCEPT !.name = name, !.nq = nq, !.xsk = nq]

(* profile_iface_xdp_bind_local, profile_iface_xdp_bind_wan, once the      *)
(* program is attached.                                                    *)
Bound(sl) == [sl EXCEPT !.bpf = TRUE, !.on = TRUE]

(* profile_iface_xdp_detach_wan leaves a slot without either alone.        *)
Detaches(sl) == sl.on \/ sl.bpf

(* Mutant of Detached: xdp_wan_on stays set.                               *)
DetachedStillOn(sl) == [sl EXCEPT !.xsk = 0, !.bpf = FALSE]

Detached(sl) == [sl EXCEPT !.xsk = 0, !.bpf = FALSE, !.on = FALSE]

(* Every frame is in at most one place.                                    *)
Accounted ==
  pool + hand + SumOver(fq, Queue) + SumOver(rx, Queue) - SumOver(pend, Queue)
  + SumOver(out, Queue)
=============================================================================
