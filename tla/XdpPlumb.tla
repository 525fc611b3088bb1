------------------------------ MODULE XdpPlumb ------------------------------
(***************************************************************************)
(* How a dataplane gets its interfaces and gives them back: the pair is    *)
(* opened and the programs attached when the forwarder starts              *)
(* (forwarder_init, ne_pair_open, profile_xdp.c), a hot reload attaches    *)
(* the WANs it adds or rolls them back (profile_lifecycle.c), a WAN that   *)
(* was drained is detached, and forwarder_cleanup closes everything.  Any  *)
(* step may fail, and the process may die at any point: the programs and   *)
(* flags it left on the interfaces are what the next start finds.          *)
(*                                                                         *)
(* A configuration is the set of its dataplane WANs; every configuration   *)
(* names all ports, as a reload between others is a full restart.          *)
(***************************************************************************)
EXTENDS XskQueues

CONSTANTS
  Cfgs,       \* the sets of dataplane WANs of the configurations
  MaxFaults   \* bound: steps that fail, between two starts

ASSUME PlumbAssumption == Cfgs \subseteq SUBSET Wan /\ MaxFaults \in Nat

VARIABLES
  pc,         \* where the forwarder thread, TX slot 0 or main stands
  at,         \* the slot it is opening or attaching
  cfg,        \* fwd->cfg
  next,       \* the configuration a reload installs
  wanCount,   \* p->wan_count
  added,      \* sess->wan_added
  draining,   \* slots of wan_drains
  faults,     \* steps that failed so far
  crashed     \* the process died and was not started since

ctlVars == <<pc, at, cfg, next, wanCount, added, draining, faults, crashed>>
vars == <<xskVars, ctlVars>>

(* config_wan_dp_to_cfg: the port whose sockets slot s holds.              *)
NameAt(c, s) ==
  IF s \in Lan THEN s
  ELSE CHOOSE w \in c : Cardinality({v \in c : v < w}) = s - Lans

Planned(c) == 0..(Lans + Cardinality(c) - 1)
InUse == 0..(Lans + wanCount - 1)

(* ne_rx_slots_for_queues.                                                 *)
Threads(total) == IF total = 0 THEN 1 ELSE Min({total, RxSlots})

QueueTotal(c, ports) == MapThenSumSet(LAMBDA s : NumQ[NameAt(c, s)], ports)

Init ==
  /\ XskInit
  /\ pc = "down" /\ at = 0 /\ cfg \in Cfgs /\ next = cfg /\ wanCount = 0
  /\ added = {} /\ draining = {} /\ faults = 0 /\ crashed = FALSE

Fault == faults < MaxFaults /\ faults' = faults + 1

----------------------------------------------------------------------------
(* forwarder_init.                                                         *)

(* profile_iface_xdp_prepare_init scrubs what an earlier process left.     *)
Start(c) ==
  /\ pc = "down"
  /\ cfg' = c /\ next' = c /\ crashed' = FALSE
  /\ link' = LinkOff(Port)
  /\ pc' = "open"
  /\ UNCHANGED <<slot, umem, frameVars, readers, promisc, at, wanCount, added, draining, faults>>

(* A stop, or a failure with no plumbing under way: crypto contexts, the   *)
(* packet rings, the threads.                                              *)
InitAborts ==
  /\ pc \in {"open", "rings"}
  /\ pc' = "xsk"
  /\ UNCHANGED <<xskVars, at, cfg, next, wanCount, added, draining, faults, crashed>>

(* ne_pair_open up to the UMEM: queue counts, the pool, promiscuous mode,  *)
(* a scrub of the ports it is about to bind.                               *)
OpenPair ==
  /\ pc = "open"
  /\ slot' = [s \in Port |->
       IF s \in Planned(cfg) THEN [EmptySlot EXCEPT !.nq = NumQ[NameAt(cfg, s)]] ELSE EmptySlot]
  /\ wanCount' = Cardinality(cfg)
  /\ pool' = NFrames
  /\ LET ports == {NameAt(cfg, s) : s \in Planned(cfg)}
     IN  promisc' = promisc \cup ports /\ link' = LinkOff(ports)
  /\ umem' = TRUE
  /\ at' = 0 /\ pc' = "sockets"
  /\ UNCHANGED <<fq, rx, pend, out, hand, readers, cfg, next, added, draining, faults, crashed>>

(* One of these fails: detach and close.                                   *)
OpenPairFails ==
  /\ pc = "open" /\ Fault
  /\ slot' = [s \in Port |->
       IF s \in Planned(cfg) THEN [EmptySlot EXCEPT !.nq = NumQ[NameAt(cfg, s)]] ELSE EmptySlot]
  /\ wanCount' = Cardinality(cfg)
  /\ \E n \in Planned(cfg) : promisc' = promisc \cup {NameAt(cfg, s) : s \in 0..n}
  /\ link' = LinkOff(Port)
  /\ pc' = "xsk"
  /\ UNCHANGED <<umem, frameVars, readers, at, cfg, next, added, draining, crashed>>

OpenPort ==
  /\ pc = "sockets" /\ at \in Planned(cfg)
  /\ slot' = [slot EXCEPT ![at] = Opened(@, NameAt(cfg, at), slot[at].nq)]
  /\ at' = at + 1
  /\ UNCHANGED <<umem, frameVars, readers, kernelVars, pc, cfg, next, wanCount, added,
                 draining, faults, crashed>>

(* A socket cannot be bound.  The rollback sets queue_count to 0, and the  *)
(* retry opens queue_count queues: none, which succeeds.                   *)
OpenRetried ==
  /\ pc = "sockets" /\ at \in Planned(cfg) /\ Fault
  /\ link' = LinkOff({NameAt(cfg, at)})
  /\ slot' = [slot EXCEPT ![at] = Opened(@, NameAt(cfg, at), 0)]
  /\ at' = at + 1
  /\ UNCHANGED <<umem, frameVars, readers, promisc, pc, cfg, next, wanCount, added,
                 draining, crashed>>

(* The interface is not there, nor is it the second time.                  *)
OpenPortFails ==
  /\ pc = "sockets" /\ at \in Planned(cfg) /\ Fault
  /\ link' = LinkOff(Port)
  /\ pc' = "xsk"
  /\ UNCHANGED <<slot, umem, frameVars, readers, promisc, at, cfg, next, wanCount, added,
                 draining, crashed>>

(* prefill_iface for all of them, then live.                               *)
OpenDone ==
  /\ pc = "sockets" /\ at \notin Planned(cfg)
  /\ LET Q == UNION {QueuesOf(s) : s \in Planned(cfg)}
     IN  fq' = Prefilled(Q) /\ pool' = pool - SumOver(fq', Q)
  /\ slot' = [s \in Port |-> [slot[s] EXCEPT !.live = s \in Planned(cfg)]]
  /\ at' = 0 /\ pc' = "attach"
  /\ UNCHANGED <<umem, rx, pend, out, hand, readers, kernelVars, cfg, next, wanCount, added,
                 draining, faults, crashed>>

(* profile_iface_xdp_attach_init.                                          *)
AttachPort ==
  /\ pc = "attach" /\ at \in Planned(cfg)
  /\ slot' = [slot EXCEPT ![at] = Bound(@)]
  /\ link' = link \cup {slot[at].name}
  /\ at' = at + 1
  /\ UNCHANGED <<umem, frameVars, readers, promisc, pc, cfg, next, wanCount, added,
                 draining, faults, crashed>>

(* The object does not load or the program does not attach, or the socket  *)
(* map cannot be filled, with the program attached already.                *)
AttachPortFails ==
  /\ pc = "attach" /\ at \in Planned(cfg) /\ Fault
  /\ \/ UNCHANGED <<slot, link>>
     \/ link' = LinkOff({slot[at].name}) /\ UNCHANGED slot
     \/ slot' = [slot EXCEPT ![at] = Bound(@)] /\ link' = link \cup {slot[at].name}
  /\ pc' = "xsk"
  /\ UNCHANGED <<umem, frameVars, readers, promisc, at, cfg, next, wanCount, added,
                 draining, crashed>>

AttachDone ==
  /\ pc = "attach" /\ at \notin Planned(cfg)
  /\ pc' = "rings" /\ at' = 0
  /\ UNCHANGED <<xskVars, cfg, next, wanCount, added, draining, faults, crashed>>

(* forwarder_run: RX threads by the queues counted when the pair opened.   *)
RunBegins ==
  /\ pc = "rings"
  /\ readers' = [lan |-> Threads(QueueTotal(cfg, Planned(cfg) \cap Lan)),
                 wan |-> Threads(QueueTotal(cfg, Planned(cfg) \cap Wan))]
  /\ pc' = "run"
  /\ UNCHANGED <<slot, umem, frameVars, kernelVars, at, cfg, next, wanCount, added, draining,
                 faults, crashed>>

----------------------------------------------------------------------------
(* TX slot 0: a hot reload, and the end of a drain.                        *)

(* fwd_wan_configure_live_drains, then profile_iface_xdp_sync_wan_live.    *)
Reload(c) ==
  /\ pc = "run" /\ c # cfg
  /\ draining' = draining \cup
       {s \in InUse \cap Wan : slot[s].name \in cfg \ c /\ slot[s].on}
  /\ next' = c /\ added' = {}
  /\ pc' = "sync"
  /\ UNCHANGED <<xskVars, at, cfg, wanCount, faults, crashed>>

(* pair_wan_dp_slot_live: a drained slot still counts.                     *)
Missing == {w \in next : ~\E s \in InUse : slot[s].live /\ slot[s].name = w}

(* fwd_alloc_wan_slot.                                                     *)
FreeSlot ==
  LET free == {s \in InUse \cap Wan : ~slot[s].live}
  IN  IF free # {} THEN Min(free) ELSE Lans + wanCount

(* ne_pair_plumb_wan_dp.                                                   *)
PlumbWan ==
  /\ pc = "sync" /\ Missing # {} /\ FreeSlot \in Port
  /\ LET w == Min(Missing)
         Q == {<<FreeSlot, i>> : i \in 0..(NumQ[w] - 1)}
     IN  /\ link' = LinkOff({w}) /\ promisc' = promisc \cup {w}
         /\ slot' = [slot EXCEPT ![FreeSlot] = [Opened(@, w, NumQ[w]) EXCEPT !.live = TRUE]]
         /\ fq' = Prefilled(Q) /\ pool' = pool - SumOver(fq', Q)
         /\ wanCount' = Max({wanCount, FreeSlot - Lans + 1})
         /\ at' = FreeSlot /\ pc' = "bind"
  /\ UNCHANGED <<umem, rx, pend, out, hand, readers, cfg, next, added, draining, faults, crashed>>

(* The interface, its rings, its queues, its flags or its sockets fail;    *)
(* the queue count may stay behind in a slot that is not live.             *)
PlumbWanFails ==
  /\ pc = "sync" /\ Missing # {}
  /\ \/ FreeSlot \notin Port /\ UNCHANGED <<slot, kernelVars, faults>>
     \/ Fault /\ UNCHANGED <<slot, kernelVars>>
     \/ /\ Fault /\ FreeSlot \in Port
        /\ link' = LinkOff({Min(Missing)}) /\ UNCHANGED promisc
        /\ slot' = [slot EXCEPT ![FreeSlot].nq = NumQ[Min(Missing)]]
     \/ /\ Fault /\ FreeSlot \in Port
        /\ link' = LinkOff({Min(Missing)}) /\ promisc' = promisc \cup {Min(Missing)}
        /\ slot' = [slot EXCEPT ![FreeSlot] = EmptySlot]
  /\ pc' = "rollback"
  /\ UNCHANGED <<umem, frameVars, readers, at, cfg, next, wanCount, added, draining, crashed>>

BindWan ==
  /\ pc = "bind"
  /\ slot' = [slot EXCEPT ![at] = Bound(@)]
  /\ link' = link \cup {slot[at].name}
  /\ added' = added \cup {at}
  /\ pc' = "sync"
  /\ UNCHANGED <<umem, frameVars, readers, promisc, at, cfg, next, wanCount, draining, faults,
                 crashed>>

(* As in AttachPortFails; the slot then goes the way of those before it.   *)
BindWanFails ==
  /\ pc = "bind" /\ Fault
  /\ \/ UNCHANGED <<slot, link>>
     \/ link' = LinkOff({slot[at].name}) /\ UNCHANGED slot
     \/ slot' = [slot EXCEPT ![at] = Bound(@)] /\ link' = link \cup {slot[at].name}
  /\ added' = added \cup {at}
  /\ pc' = "rollback"
  /\ UNCHANGED <<umem, frameVars, readers, promisc, at, cfg, next, wanCount, draining, crashed>>

(* profile_iface_life_reconcile_counts.                                    *)
LiveCount == Max({0} \cup {s - Lans + 1 : s \in {w \in Wan : slot[w].live}})

SyncDone ==
  /\ pc = "sync" /\ Missing = {}
  /\ cfg' = next /\ wanCount' = IF added = {} THEN wanCount ELSE LiveCount
  /\ added' = {}
  /\ pc' = "run"
  /\ UNCHANGED <<xskVars, at, next, draining, faults, crashed>>

(* reclaim_iface_umem_frames: what the slot's queues give back to the pool. *)
Unplumbed(s) ==
  IF Detaches(slot[s]) THEN 0 ELSE SumOver(rx, QueuesOf(s)) + SumOver(out, QueuesOf(s))

(* profile_iface_life_attach_rollback, last one first: ne_pair_unplumb_wan. *)
RollbackWan ==
  /\ pc = "rollback" /\ added # {}
  /\ LET s == Max(added)
     IN  /\ link' = IF Detaches(slot[s]) THEN LinkOff({slot[s].name}) ELSE link
         /\ pool' = Min({NFrames, pool + Unplumbed(s)})
         /\ fq' = Forget(fq, QueuesOf(s)) /\ rx' = Forget(rx, QueuesOf(s))
         /\ pend' = Forget(pend, QueuesOf(s)) /\ out' = Forget(out, QueuesOf(s))
         /\ slot' = [slot EXCEPT ![s] = EmptySlot]
         /\ added' = added \ {s}
  /\ UNCHANGED <<umem, hand, readers, promisc, pc, at, cfg, next, wanCount, draining, faults,
                 crashed>>

(* The reload fails, and main stops the dataplane.                         *)
RollbackDone ==
  /\ pc = "rollback" /\ added = {}
  /\ wanCount' = LiveCount
  /\ pc' = "failed"
  /\ UNCHANGED <<xskVars, at, cfg, next, added, draining, faults, crashed>>

(* wan_drain_finish_slot: the sockets go, the slot stays live.             *)
DrainEnds(s) ==
  /\ pc = "run" /\ s \in draining
  /\ slot' = [slot EXCEPT ![s] = Detached(@)]
  /\ link' = LinkOff({slot[s].name})
  /\ fq' = Forget(fq, QueuesOf(s)) /\ rx' = Forget(rx, QueuesOf(s))
  /\ pend' = Forget(pend, QueuesOf(s)) /\ out' = Forget(out, QueuesOf(s))
  /\ draining' = draining \ {s}
  /\ UNCHANGED <<umem, pool, hand, readers, promisc, pc, at, cfg, next, wanCount, added,
                 faults, crashed>>

----------------------------------------------------------------------------
(* The end: forwarder_cleanup, after the threads are joined.               *)

Stop ==
  /\ pc \in {"run", "failed"}
  /\ readers' = [lan |-> 0, wan |-> 0]
  /\ pc' = "xsk"
  /\ UNCHANGED <<slot, umem, frameVars, kernelVars, at, cfg, next, wanCount, added, draining,
                 faults, crashed>>

(* Mutant of DeleteXsks: only live slots, as in the threads' loops.        *)
DeleteXsksLive ==
  /\ pc = "xsk"
  /\ slot' = [s \in Port |-> IF slot[s].live THEN [slot[s] EXCEPT !.xsk = 0] ELSE slot[s]]
  /\ pc' = "bpf"
  /\ UNCHANGED <<umem, frameVars, readers, kernelVars, at, cfg, next, wanCount, added,
                 draining, faults, crashed>>

(* delete_all_live_xsks: the slots that are live or have queues.           *)
DeleteXsks ==
  /\ pc = "xsk"
  /\ slot' = [s \in Port |->
       IF slot[s].live \/ slot[s].nq > 0 THEN [slot[s] EXCEPT !.xsk = 0] ELSE slot[s]]
  /\ pc' = "bpf"
  /\ UNCHANGED <<umem, frameVars, readers, kernelVars, at, cfg, next, wanCount, added,
                 draining, faults, crashed>>

CloseBpf ==
  /\ pc = "bpf"
  /\ slot' = [s \in Port |->
       IF s \in InUse THEN [slot[s] EXCEPT !.bpf = FALSE, !.on = FALSE] ELSE slot[s]]
  /\ pc' = "off"
  /\ UNCHANGED <<umem, frameVars, readers, kernelVars, at, cfg, next, wanCount, added,
                 draining, faults, crashed>>

(* Mutant of AllLinksOff: only the WANs the configuration puts on the      *)
(* dataplane.                                                              *)
DataplaneLinksOff ==
  /\ pc = "off"
  /\ link' = LinkOff(Lan \cup cfg)
  /\ pc' = "umem"
  /\ UNCHANGED <<slot, umem, frameVars, readers, promisc, at, cfg, next, wanCount, added,
                 draining, faults, crashed>>

(* profile_iface_xdp_detach_config.                                        *)
AllLinksOff ==
  /\ pc = "off"
  /\ link' = LinkOff(Port)
  /\ pc' = "umem"
  /\ UNCHANGED <<slot, umem, frameVars, readers, promisc, at, cfg, next, wanCount, added,
                 draining, faults, crashed>>

(* The UMEM, the pool, the buffers; the pair is zeroed.                    *)
DeleteUmem ==
  /\ pc = "umem"
  /\ umem' = FALSE /\ pool' = 0 /\ hand' = 0
  /\ fq' = NoFrames /\ rx' = NoFrames /\ pend' = NoFrames /\ out' = NoFrames
  /\ slot' = [s \in Port |-> EmptySlot]
  /\ wanCount' = 0 /\ added' = {} /\ draining' = {} /\ faults' = 0
  /\ pc' = "promisc"
  /\ UNCHANGED <<readers, kernelVars, at, cfg, next, crashed>>

(* runtime_stop_forwarder: interface_promisc_off_config.                   *)
PromiscOff ==
  /\ pc = "promisc"
  /\ promisc' = {} /\ at' = 0
  /\ pc' = "down"
  /\ UNCHANGED <<slot, umem, frameVars, readers, link, cfg, next, wanCount, added, draining,
                 faults, crashed>>

(* The process dies: all but the kernel's side is gone.                    *)
Dies ==
  /\ pc' = "down" /\ crashed' = TRUE /\ at' = 0
  /\ slot' = [s \in Port |-> EmptySlot] /\ umem' = FALSE
  /\ pool' = 0 /\ hand' = 0 /\ readers' = [lan |-> 0, wan |-> 0]
  /\ fq' = NoFrames /\ rx' = NoFrames /\ pend' = NoFrames /\ out' = NoFrames
  /\ wanCount' = 0 /\ added' = {} /\ draining' = {} /\ faults' = 0
  /\ UNCHANGED <<kernelVars, cfg, next>>

Killed == pc # "down" /\ Dies

(* A thread, or the rollback after it detached a slot, reads rings that    *)
(* were unmapped: it may find nothing, or crash.                           *)
UseAfterDelete ==
  /\ \/ TouchesDeleted
     \/ pc = "rollback" /\ added # {} /\ Detaches(slot[Max(added)])
  /\ Dies

Next ==
  \/ \E c \in Cfgs : Start(c) \/ Reload(c)
  \/ InitAborts \/ OpenPair \/ OpenPairFails \/ OpenPort \/ OpenRetried \/ OpenPortFails
  \/ OpenDone \/ AttachPort \/ AttachPortFails \/ AttachDone \/ RunBegins
  \/ PlumbWan \/ PlumbWanFails \/ BindWan \/ BindWanFails \/ SyncDone
  \/ RollbackWan \/ RollbackDone \/ \E s \in Wan : DrainEnds(s)
  \/ Stop \/ DeleteXsks \/ CloseBpf \/ AllLinksOff \/ DeleteUmem \/ PromiscOff
  \/ Killed \/ UseAfterDelete
  \/ ThreadStep /\ UNCHANGED ctlVars

Spec == Init /\ [][Next]_vars

----------------------------------------------------------------------------
(* Every variable keeps its type; the pool never exceeds the UMEM.         *)
TypeOK ==
  /\ slot \in [Port -> [name : Port \cup {NoPort}, nq : Nat, xsk : Nat, bpf : BOOLEAN,
                        on : BOOLEAN, live : BOOLEAN]]
  /\ umem \in BOOLEAN /\ pool \in 0..NFrames /\ hand \in 0..NFrames
  /\ fq \in [Queue -> 0..Ring] /\ rx \in [Queue -> 0..Ring]
  /\ pend \in [Queue -> 0..Ring] /\ out \in [Queue -> 0..NFrames]
  /\ readers \in [lan : 0..RxSlots, wan : 0..RxSlots]
  /\ link \subseteq Port /\ promisc \subseteq Port
  /\ pc \in {"down", "open", "sockets", "attach", "rings", "run", "sync", "bind", "rollback",
             "failed", "xsk", "bpf", "off", "umem", "promisc"}
  /\ at \in 0..(Lans + Wans) /\ cfg \in Cfgs /\ next \in Cfgs /\ wanCount \in 0..Wans
  /\ added \subseteq Wan /\ draining \subseteq Wan
  /\ faults \in 0..MaxFaults /\ crashed \in BOOLEAN

(* No frame is handed out twice, by a receive queue reclaimed under its    *)
(* reader, a pool refilled or a rollback; and as long as no socket of a    *)
(* live slot was deleted, none is lost either.                             *)
FramesKept ==
  /\ Accounted <= NFrames
  /\ pc \in {"attach", "rings", "run", "sync", "bind"} =>
       (Accounted = NFrames \/ \E s \in Port : slot[s].live /\ slot[s].xsk < slot[s].nq)

(* What the process believes is what the kernel does: outside the closing  *)
(* sequence the interfaces with a program are those whose slot says so,    *)
(* after a start over what a crash left, every failure of a bind and every *)
(* rollback.                                                               *)
ProgramsTracked ==
  pc \notin {"down", "bpf", "off", "umem", "promisc"} =>
    link = {slot[s].name : s \in {t \in InUse : slot[t].on}}

(* Whatever failed or was half done on the way, a dataplane that was       *)
(* stopped leaves nothing behind: no program, no promiscuous interface, no *)
(* socket and no object, of WANs a reload added or took off included.      *)
AllReleased ==
  pc = "down" /\ ~crashed =>
    /\ link = {} /\ promisc = {} /\ ~umem
    /\ \A s \in Port : slot[s] = EmptySlot

(* The UMEM is deleted when no socket uses it any more; xsk_umem__delete   *)
(* refuses otherwise, and its memory is unmapped all the same.             *)
UmemLast ==
  [][umem /\ ~umem' /\ ~crashed' => \A s \in Port : slot[s].xsk = 0 /\ ~slot[s].bpf]_vars
=============================================================================
