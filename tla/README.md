# Verification of network-encryptor

TLA+ models of the layer-2 encryptor in this repository (AF_XDP dataplane, bonded
WANs, PQC keys), the TLC configurations that check them on small instances, and
proofs that TLAPS checks for every instance. `PROJECT.json` is the index: components,
runs, mutants, the map from definitions to source lines, findings, hazards, theorems.

    tlc -workers 2 -config MCUdpReorder_live.cfg MCUdpReorder      # a run
    tlapm UdpReorderProofs.tla                                      # a component's proofs

## 1. The system

A daemon (`main.c`) waits for profile notifications on a local socket, loads the
profile's configuration from a database and runs a *forwarder*: RX threads take
frames from the LAN and WAN interfaces, crypto workers encrypt LAN frames and
decrypt WAN frames, TX threads send them. Frames live in UMEM pools and travel
between threads as descriptors in rings. A datagram too long for the WAN is split in
two fragments; UDP datagrams of one flow go over several WANs and are put back in
order at the far side.

| Component | State | Operations | Talks to |
|---|---|---|---|
| Daemon (`main.c`) | two configuration slots, the active one, forwarder thread, stop flag | notify, load, compare, start, stop, hot reload, signal | forwarder, database, WAN administration |
| Forwarder (`forwarder.c`) | running flag, threads, rings, `fwd->cfg` | init, run, stop, cleanup; RX, crypto and TX loops | everything below |
| Configuration reload (`config_reload.c`) | request, answer | queue and wait (main), apply (TX slot 0), shut down | daemon, WAN scheduler, crypto runtime |
| Rings and pools (`xdp_interface.c`, `packet_util.c`) | head, tail, buffer, locks; free frames | push, push pair, pop, TX drain, completion | all dataplane threads |
| UDP reorder (`udp_reorder.c`) | flow entries, held datagrams, counters, GC cursor | submit, gc, reset | crypto worker, LAN TX |
| WAN scheduler, administration (`wan_scheduler.c`, `wan_admin.c`, `wan_failover.c`) | per WAN: drain, hold, stopped, blend and ramp weights | pick, drain, blend, kick, restore | CFM, flow table, rings |
| Flow table (`flow_table.c`) | weighted round-robin state per flow and thread | pick | WAN scheduler |
| CFM (`cfm_diag.c`) | per link: learned peer, failures, successes, up/down | tick, receive | WAN scheduler |
| Idle (`idle.c`) | sleeping flag and eventfd per worker | arm, wait, disarm, wake | rings |
| Worker routing (`crypto_route.c`) | flow to worker and TX slot, sender sequence numbers | lookup | LAN egress |
| LAN egress, WAN ingress (`local_egress.c`, `wan_ingress.c`) | none of their own | encrypt, split, push; decrypt, reassemble, reorder, push | crypto runtime, rings, reorder |
| Fragments (`pqc_l2_option.c`) | table of half datagrams | split, join, time out | WAN ingress |
| Crypto runtime (`crypto_runtime.c`) | contexts, generations, previous keys with a grace period | build, switch, look up | handshake, workers |
| PQC handshake and traffic keys (`crypto/pqc`) | sessions, retries, keys, vault | offer, answer, confirm, expire | crypto runtime |
| MAC learning, ARP bridge (`mac_learn.c`, `arp_bridge.c`) | forwarding table, pending requests | learn, look up, expire, answer | RX threads |
| Interfaces (`xdp_interface.c`, `profile_xdp.c`, `profile_lifecycle.c`) | sockets, attached programs, live WANs | attach, roll back, detach | forwarder |
| Database, statistics, parsing, XDP programs | | input and output, byte layout, counters | |

What is hard here, and a test would hardly reach:

* threads share rings, pools and `fwd->cfg` with few locks: which orders of their
  steps are possible decides whether a frame is sent twice or a configuration is
  overwritten while it is read;
* stop, reload, restart and timeout meet each other in any order;
* datagrams arrive late, twice, far ahead, across the 2^32 wrap of their sequence
  numbers and across a change of the sender's epoch;
* tables and pools run full; GC frees entries in the middle of a set;
* the two ends of a tunnel restart, lose messages and change keys independently;
* the process dies with programs on the interfaces and lines in its log, and starts again;
* a frame passes through five owners, each with error paths of its own;
* something must happen in the end: a held datagram leaves, a submit returns, a stop
  completes, a ring drains.

`PROJECT.json` lists the hazards at their lines, each with the properties that would catch
it going wrong; what no property covers is in sections 4 and 6.

## 2. The modules

### UdpReorder: `udp_reorder.c`

One set of the flow table with all its ways and the slots of each, for one worker; sets
and workers share only `g_held_by_worker` (per worker), so one set with its own cap
shows what the cap can do. A call of `dp_udp_reorder_submit` is a chain of steps (`pc`): look the flow up or reset an
entry (`Submit`), skip a gap that waited too long (`ExpireGap`), then emit (`EmitNext`),
make room in the window one iteration of the loop at a time (`RoomSkip`,
`RoomMade`), skip at the cap (`CapSkip`), drop (`DropItem`) or hold (`StoreItem`).
`Gc`, `ResetWorker` and the clock (`Tick`) come between calls; `ToggleCrypto` is a
reload that switches `crypto_enabled`, on which the worker's call of GC depends.
Time is kept as ages, saturated where the code stops telling values apart; LRU stamps
as the order they give. `owned`, `last` and `out` are history.

### Lifecycle: `main.c`, `forwarder.c`, `config_reload.c`

Three threads: main (`mpc`), the forwarder thread (`tpc`) and TX slot 0 while it
applies a reload (`apc`), step by step between accesses to what they share: the
`running` flag, the reload request, `fwd->cfg`, the slots. A configuration is a
model value; `Topo` gives the part of it that `forwarder_same_topology` compares. A
load fails or not, an initialisation step fails or not, a wait times out or not, as
the environment likes; a stop signal may come at any time.

### NeRing, FrameQueue: rings and pools

`NeRing` is one `mid_to_wan` ring with its pool, at the granularity of the accesses
of `ne_ring_try_push`, `ne_ring_try_push_pair` and `ne_ring_try_pop`: lock, read the
counters, write the slot, publish. Producers are crypto workers that push single
packets and pairs of fragments; the consumers are the TX thread (batch, submit to the NIC,
completion) and `fwd_wan_flush_queue`. The counters wrap at `CntMod`, which stands
for 2^32. The buffer slot of a popped descriptor is read before `tail` is stored, as
in the code. `FrameQueue` is what a ring promises: a bounded FIFO whose pairs are
enqueued together; `FifoSpec` says that `NeRing` implements it, with the queue read
through the counters.

### FlowTable: `flow_table.c`

One set of a worker's flow table and the entry for packets without a flow. `PickFlow`
finds the flow's way, or takes the last free one, or the least recently used
(`WayOf`), resets the entry if the flow or the list of WANs is another, adds the
weights, takes the largest counter from `tie` on and charges it the total (`Served`).
A pick brings any pool: what the scheduler builds changes under a flow, and the
entry keeps its counters as long as the list of WANs is the same. `given` and `steady`
are history: the picks of the current round and the pool, as long as it is one.

### WanSched: `wan_scheduler.c`, `wan_admin.c`, `wan_failover.c`, the WAN part of a reload

A WAN has an index in the configuration, a dataplane slot (`cfgIdx`) and a CFM link
that claims a slot (`linkDp`). TX slot 0 applies a reload in the steps of
`forwarder_reload_config_impl`: start drains (`ReloadDrains`), attach the WANs without a
slot or roll back (`ReloadAttach`, `ReloadFails`), install the configuration, begin
the blend, start CFM afresh; and runs `Maint`. Main kicks and restores WANs. These
hold `runtime_lock`, which is free exactly while `rpc` is `"idle"`. A kick flushes the rings
(`KickFlush`) and then holds the slot (`KickHold`); the end of a drain flushes and detaches
(`MaintFlush`) and then stops it (`MaintStop`).

The senders (crypto workers, LAN RX threads for bypassed traffic) do not take the lock. Each
builds a pool (`PickBegin`), turns the WAN the flow table chose into a slot and asks the
first of its flags (`PickSlot`: stopped, held), asks the rest (`PickCheck`: drain, link,
number of slots), looks for room, there or in the ring of another WAN (`PickRoom`,
`PickOther`), and pushes (`PushWan`), with anything in between. TX threads take from the
rings and pass over stopped and held slots (`Send`). Which WAN of the pool it is, which
rings look full and which datagrams the policy or the encryption drops is left open. Rings are
counted, the rings of all TX threads of a slot together (`queued`); a split datagram is one.
`late` is history: who put a datagram into a closed slot since its flags last changed.

Links go up and down, the clock ticks. The profile has all the WANs; there is one profile,
as in the code (`profiles[0]`). The attach of several WANs is one step, and so is a
flush, whose pops are NeRing's subject; drains that end in one tick are flushed together and
stopped together, where the code does one after the other.

### FlowRoute, Fragments, Datapath: `crypto_route.c`, `pqc_l2_option.c`, `local_egress.c`, `wan_ingress.c`

`FlowRoute` is one set of the route table with the counters that balance new
connections, the insert under its lock (`Insert`, with the second look-up it makes),
the canonical route of a saturated set, and the sequence numbers a sender draws, with the
fallback table of connections that are in no set. `Fragments` is a worker's reassembly
table: slot choice by probing, `Prepare`, the time-out, the join and the collector.
`Datapath` composes them into one site: LAN RX thread, crypto workers and WAN RX
thread pass frames of one pool through `local_to_mid`, `wan_to_mid`, `mid_to_wan` and
`mid_to_local`. A packet is admitted, numbered, encrypted or not, split with a tail
from the worker's cache, pushed or dropped; in the other direction it is decrypted or
not, joined, held by the reorder stage and emitted or dropped by it (any choice:
`UdpReorder` is the detail). A thread stops between its lock-free look-up and its
insert, which is where another one can get in. The peer is the same program: it sends
whole and split datagrams, its halves are lost, late or duplicated, and it may restart
with a new epoch and its clocks at 0. ARP of the kinds in `LanArps` and `WanArps`
takes the same path. Rings are sequences here; `NeRing` justifies that.

### MacLearn, ArpBridge: `mac_learn.c`, `arp_bridge.c`

`MacLearn` is the LAN table and the log on disk: learning with its moves and
evictions, the merge of the table with the lines of ports that left the
configuration, the save, and the load at a restart or reload. A learner drops the lock
between the change and its save, so these are two steps (`saving`). `ArpBridge`
composes it with the ARP of clients and of the WAN, on ports that may hear each other
(`Hears`), and with the ring of relay stamps; the stamp is made before the delivery, in
a step of its own. `last` and `raced` are history.

### PqcHandshake: `pqc_handshake.c`, the exchange

Initiator and responder of one policy, each with the worker that runs the handshake
and the dispatcher that shares its binding. Messages are HELLO, RESP, READY, COMMIT,
KEEPALIVE and POKE; the responder's cache answers a repeated HELLO without a new key;
NEXT, CURRENT and PREV are the key slots of a binding. The worker's program counter
has the code's waiting places. Fresh keys, sessions and requests are numbers; what a
signature or a fingerprint decides is equality of these. Timers fire when what they wait for is lost or late, which
counts as a fault.

### PqcBinding, CryptoRuntime: the rest of `pqc_handshake.c`, `crypto_runtime.c`, `packet_crypto.c`

`PqcBinding` is the life of bindings: `sig_pqc_prepare_reload`, bind, the start of
workers by load, supervisor and manual retry, the wait of two seconds for a worker
that will not stop, `sig_pqc_finalize_reload`. A worker promotes or stages a key when
it likes; `PqcHandshake` says when it does. `CryptoRuntime` adds the dataplane's
side: contexts in configuration order, the index that packets read without the
lock, generations and the workers' copies, the refresh from the bindings, the discard
of PREV on both sides of an unlock, the grace snapshot of a reload and the tick that
asks for a new key.

### XskQueues, XdpPlumb: `xdp_interface.c`, `profile_xdp.c`, `profile_lifecycle.c`

`XskQueues` counts the frames of each socket (fill, receive, received but not
released, transmit), the pool and the frames in the hands of workers, and has what the
kernel keeps: programs and promiscuous flags, which outlive the process. `XdpPlumb`
opens the pair port by port, attaches, adds and rolls back WANs in a reload, ends
drains and closes, in the order of the code, with a fault at any step and a crash at any
point; `Start` scrubs what it finds. Deleting a socket unmaps its rings; a thread
that goes on reading them may crash the process (`UseAfterDelete`).

## 3. The runs

| Run | Module | Checks | Shows |
|---|---|---|---|
| `pqc_main` | MCPqcHandshake | `CutoverWindow`, `CommitAgrees`, `OldKeyForgotten`, `Converges` | Initiator and responder, each with its worker and its dispatcher, over a network that may lose or delay a message, with a key expiry, a manual retry or a restart of the initiator: no rotation cuts the traffic, COMMIT leaves both on one key, the replaced key is forgotten, and the tunnel always comes back. |
| `pqc_reboot` (violation) | MCPqcHandshake | `RebootRecovers` | The responder restarts, nothing is lost and every thread is scheduled fairly: the initiator repeats READY for ever and the two never share a key again. |
| `udp_shared` | MCUdpReorder | `HeldCounts`, `HeldBounded`, `Ownership` | Two keys compete for two ways under a cap of two held frames: the counters equal the occupied slots, the cap holds and every frame handed over has exactly one owner through evictions, resets, overflow and GC. |
| `udp_live` | MCUdpReorder | `HeldAhead`, `InOrder`, `SubmitReturns`, `HeldLeaves` | With the cap out of reach, an entry emits strictly increasing sequence numbers across the 32-bit wrap and all it holds stays inside the window ahead of next_seq, whatever arrives late, twice or far ahead and however epochs, reloads, resets and GC interleave; every submit returns, and unless a reload disables crypto for good every held datagram leaves. |
| `life_main` | MCLifecycle | `SlotAgrees`, `NoOrphanRequest`, `LiveCfgStable`, `RunningStops` | Main, the forwarder thread and TX slot 0 interleave over notifications, failed, timed-out and stopped reloads, restarts and signals: main never writes the configuration slot in use, never disagrees with the dataplane about which one that is, never leaves a request behind, and once initialisation is over a stop always completes. |
| `ring_locked` | MCNeRing | `FrameOnce`, `FifoSpec` | Two producers, single packets and split pairs, the TX thread and a flush on a ring with a pop lock, full and with wrapping counters: the ring implements the bounded queue, a split datagram enters at once, and no frame is lost or doubled. |
| `flow_swrr` | MCFlowTable | `Proportional`, `DebtBounded` | Three flows share a set of two ways with a default entry, and each pick may bring another pool: an undisturbed entry follows the configured ratio exactly in every round and gives no WAN a pick ahead of its share, and whatever changes of weights or list come, the debts sum to zero and no WAN owes a whole round of the heaviest pool. |
| `wan_main` | MCWanSched | `Conserved`, `Stranded`, `LateOnce`, `Settles`, `DrainEnds` | Reloads, failed attaches, restarts, kicks, restores and a flapping link over three WANs, between any two steps of a sender that goes from pool to slot to ring: a closed slot gets at most one more of its datagrams and a stopped one keeps at most two, no weight is lost to rounding, every drain ends and the pool settles on the configuration. |
| `crypto_main` | MCCryptoRuntime | `WorkerHasBoundIdentity`, `KeptIsRestartable`, `ExpiryIsPursued`, `ContextOfItsPolicy`, `DiscardedUnused` | Two policies whose handshake workers produce keys while a load reorders them, changes the keys of one, removes one or unloads everything, with workers that will not stop in time, failing binds and manual retries: the worker of a binding signs with its identity, dataplane workers get the context of their policy and no discarded key, and an expired key is asked to be replaced. |
| `data_main` | MCDatapath | `FrameOwnedOnce`, `OneWorker`, `NumberedInOrder`, `JoinedWhole` | One site's packet path in both directions, with a full route set, rings and a frame pool at their limits, encryption and lookups that may fail, and a peer whose split datagrams are lost, duplicated, late or from before its restart: frames are neither leaked nor freed twice, a connection keeps its worker, its datagrams are numbered in order, and only halves that belong together are joined. |
| `arp_main` | MCArpBridge | `OnlyClients`, `OnePlace`, `Remembered` | Two LAN ports on one segment, so that everything sent comes back, clients that move, two workers that learn, a remote host, hot reloads, restarts that drop and return ports, and crashes: only LAN clients are learned, none in two places, and a port's client survives. |
| `plumb_main` | MCXdpPlumb | `FramesKept`, `ProgramsTracked`, `AllReleased`, `UmemLast` | A LAN and two WANs are opened, attached, added by a reload, rolled back, drained and closed, with a failure at any step, threads that move frames meanwhile, and a process that dies at any point and starts again over the programs it left: no frame is in two places, the programs on the interfaces are those the process knows of, a stopped dataplane leaves nothing behind, and the UMEM goes last. |

Bounds. In UdpReorder the window, cap, ways and hold time are small numbers with the
order relations of the real ones (window smaller than half the sequence space, cap
above the window or at its edge, backtrack below the window); the sequence numbers
lie on both sides of the wrap and span more than a window, so that late, duplicate,
in-window and far-ahead datagrams all occur. `udp_shared` has three frames, to hold two
while a third arrives; `udp_live` keeps the cap out of reach, because at the cap the
code breaks its properties (section 4).
In Lifecycle two profiles, three configurations with two topologies and two signals
give every branch of the notification handler. In NeRing two producers, three
frames and a ring of two make the ring full, make a pair meet a ring with one free
place, and wrap the counters; symmetry is used only where no liveness is checked.
A ring without pop lock and without a flush does nothing that `ring_locked` does not
show too: with one consumer the lock is always free.
In FlowTable three flows on two ways make evictions happen; two pools of the same list
and different weights, a longer list and a single WAN give every relation between
an entry and the pool of its next pick. In WanSched three WANs are the least with
a remainder to share and a slot that is renumbered; a grace period of two ticks has a
beginning, a middle and an end. What may happen is one of three `Budgets`: three reloads, so that
a second and a third one overtake the drains and blends of the first, with two kicks or
restores and a link change, but no traffic; traffic through a reload; or traffic through a kick and its
restore. Three datagrams are one more than a closed ring may keep of a sender. There is one
sender: senders meet only in a ring that is full, which `PushWan` and `PickRoom` allow for; the
theorems are about any number.
In Datapath two tunnelled connections and one that bypasses share two workers, a
route set and a fallback set of one way each and a reassembly table of one slot, so that every
table is full as soon as a second connection comes; three frames, rings of one and two
places run out in either direction; three arrivals in all, one of them duplicated or
one restart of the peer, mix the halves of two datagrams in one slot. The ARPs are a stray
one and a flood; the others leak or are freed twice (section 4).
In ArpBridge two ports that hear each other, two clients, a remote host and the
appliance's own address, two workers and two stamps: a client moves, an echo comes
back, a save is overtaken. The log is never full.
In PqcHandshake one fault, one reset and one expiry meet in any order. Two faults make
the code break the properties (section 4). Two HELLOs stand for the attempts before the
give-up, a queue of two can run full.
In CryptoRuntime two policies, four configurations (reordered, keys changed, one
removed, none), one load on top of the first, two keys and two events; a second
worker only repeats the first, since workers do not see each other. In XdpPlumb one
LAN and two WANs, one of them with two queues, two frames, rings of one: the pool
cannot fill every queue, a slot is renumbered, a WAN is added while another leaves; one
fault between two starts, any number of crashes.

Fairness. UdpReorder: a worker runs a call to its end (weak fairness of its steps);
it calls GC every 2048 iterations of a loop that never blocks for longer than a
millisecond, and the clock advances: both are disabled for the length of a call,
hence strong fairness. Nothing is assumed of arrivals. Lifecycle: each of the three
threads is scheduled; notifications and signals need not come.
WanSched: TX slot 0 finishes the reload it began and runs its maintenance to the end, main
lets go of the lock once it has taken it for a kick, and the clock advances; nothing is
assumed of the links or the senders.
PqcHandshake: both workers and dispatchers are scheduled, a message that is not lost
arrives, and timers fire; faults, resets and expiries need not happen.
Deadlock is not checked where the system may stop: the process may end (Lifecycle), or
the bounded arrivals, loads and moves are used up (Datapath, ArpBridge, CryptoRuntime).

Each component module states its `TypeOK`. Those of UdpReorder, Lifecycle, NeRing,
CryptoRuntime, WanSched and ArpBridge are proved, for every instance, and the runs are spent on
what a test would hardly reach.

A mutant in the modules (an operator named after the definition it replaces, above
it, with a comment) is that definition with a plausible bug; the index lists, for
each property of each passing run, one that breaks it.

## 4. What the models show to go wrong

`pqc_reboot` is the finding of a run: after a restart of the responder alone the initiator
repeats READY for ever and the two never share a key again. It is described under "findings" in `PROJECT.json`.

The rest are observations: behaviours of the models, or of the code beside them, that
contradict a comment or a document or would surprise a reader. Where a run avoids one
by its bounds, the way to see it is given.

UDP reorder
* At `UDP_REORDER_HELD_CAP` a datagram is stored behind `next_seq` (`udp_reorder.c:347`: the skip
  may pass it and `delta` is not computed again). If it is the only one held, the next
  datagram beyond the window makes `flow_make_window_room` loop for ever, against
  `DATAPLANE_AI_TRAINING.md:1529`. With `HeldCap = 1` in `MCUdpReorder_live.cfg`
  TLC finds `SubmitReturns` violated.
* `flow_lookup` stops at the first unused way (`udp_reorder.c:168`). After GC has freed an earlier
  way a key gets a second entry, and the old epoch's datagrams are emitted instead of
  dropped (`DATAPLANE_AI_TRAINING.md:1511`).
* GC runs only while crypto is enabled (`forwarder.c:509`); after a reload that disables
  it a quiet flow's held datagrams stay, against `DATAPLANE_AI_TRAINING.md:1575`;
  `HeldLeaves` therefore assumes that crypto comes back.

Lifecycle
* `forwarder_init` ends by storing `running = 1` (`forwarder.c:621`), after its last check of
  the flag: a stop requested in between is lost and main waits in `pthread_join` for
  ever. `RunningStops` therefore begins where initialisation ends.
* A hot reload that fails is logged as leaving the dataplane unchanged (`main.c:652`), and
  `handle_profile_notify` then tears it down (`main.c:793`).
* `forwarder_run` joins `NE_TX_SLOTS` threads whatever number it created
  (`forwarder.c:747`): action `JoinCrashes`.
* `forwarder_init` that fails before `mac_learn_bootstrap` makes `forwarder_cleanup` take a spin
  lock that was never initialised (`forwarder.c:631`).

Rings
* `fwd_wan_flush_queue` pops the rings of a WAN beside their TX threads, and the rings
  made at start have no pop lock (`forwarder.c:604`), against the comment at
  `forwarder.c:121`: a frame is freed while the NIC sends it. With `PopLocked = FALSE`
  in `MCNeRing_locked.cfg` TLC finds `FrameOnce` violated.
* `DATAPLANE_AI_TRAINING.md:1786` describes the split as two pushes; the code pushes the
  pair under one lock.

WAN scheduler
* After a hot reload that takes a WAN off the dataplane CFM numbers its links anew
  (`cfm_diag.c:681`) while the scheduler keeps its slots: the WAN whose link is down stays in the
  pool and a healthy one is excluded, against the comment at `wan_failover.c:49`.
* The fallback is slot 0 unconditionally, held, drained, down or of weight 0, which
  `LateOnce` and `Stranded` leave out and the comment at `wan_scheduler.c:556` does not say. While
  slot 0 is held its rings fill up with what falls back to it.
* A kick flushes the rings before it holds the slot (`wan_admin.c:88`). What is pushed in
  between, and one datagram of each sender after it, stays in the held ring and is sent, old,
  when the WAN is restored. The end of a drain flushes before it stops the slot
  (`wan_scheduler.c:174`); what comes after the flush, up to two datagrams of each sender, is
  never sent and its frames are lost until a restart. Two, because a sender may read
  `wan_stopped` before it is set and the drain's flag after it is cleared: with
  `queued[d] <= Cardinality(Sender)` TLC finds `Stranded` violated.
* A WAN that a hot reload attaches gets a slot that is never below `wan_active_dp_count`, and
  one that was drained and comes back stays stopped: both wait for a full restart.
* The share of a draining WAN in the pool goes to slot 0, because `PickCheck` asks for a
  slot that takes new traffic. A kick by the name of a WAN without slot may hold a
  slot that is not in use.
* The round robin of a flow is smooth in one direction only. No WAN runs ahead of its share by
  a pick, but with five WANs of weights 1, 1, 3, 14 and 14 one falls behind it by more than
  a pick; and with four WANs whose weights change from pick to pick (25, 25, 25, 25 and
  1, 33, 33, 33 and 1, 1, 49, 49) one is owed more than a round. Both ends of the range are
  what `Proportional` and `DebtBounded` say for any number of WANs.

Packet path
* An ARP the bridge ignores is neither sent nor freed, and one that a full ring refused is
  freed by the push and again by its caller, while the comment at `wan_ingress.c:411` says
  "dp_ring_push already returned the UMEM frame to the pool". With
  `LanArps = {"lan", "echo"}` and `WanArps = {"flood", "uni"}` TLC finds
  `FrameOwnedOnce` violated.
* The flood of an ARP copies from a frame it has already handed over (`arp_bridge.c:419`).
  All workers share one ARP crypto context, and an ARP whose encryption fails is sent in
  plain.
* The fallback table of sequence numbers starts an evicted connection again at 0 in the
  same epoch (`crypto_route.c:408`); the far side takes the numbers for late ones.
* A peer that restarts within the reassembly time-out and draws the same epoch could have
  halves of two datagrams joined; the model gives a restart a new epoch, as the clock
  does.

MAC learning and ARP
* One port can have two clients after a move (`mac_learn.h:45` promises one), and each such
  move leaves an entry behind.
* A reload between a learner's change and its save undoes the change, or leaves one MAC on
  two ports (`mac_learn.c:243`); `OnePlace` and `Remembered` leave that case out
  (`raced`).
* A full log drops the newest client (`mac_learn.c:769`); more than 32 relayed ARPs evict a
  stamp before its echo is back.
* `prof->bridges[].wan_dp` is a number of the loaded configuration and is compared with
  a slot of the running one (`arp_bridge.c:235`).

PQC handshake
* The responder's request for a new key reuses its request identifier, so a second one is
  ignored as a duplicate (`pqc_handshake.h:222` says otherwise).
* With two faults the responder can promote an older key over a newer one, and a late
  HELLO of a session that left the cache overwrites NEXT.
* After a restart or give-up of the initiator alone it promotes the key at once while the
  responder only stages it; the traffic of the responder cannot be read until a keepalive
  shows the difference.

Bindings and crypto runtime
* An unload that meets one worker outlasting its stop leaves the binding with its stop
  request (`pqc_handshake.c:2481`); loading the policy again makes it active, and no
  starter accepts it, against the comment near line 2064.
* A refresh between the two halves of the discard of PREV brings it back
  (`crypto_runtime.c:180`), and the grace snapshot keeps a PREV discarded meanwhile;
  `DiscardedUnused` speaks of lookups that began after the discard, outside such a refresh.
* A packet that overlaps a reload, from the snapshot before the rebuild to its end, pairs the
  index of one configuration with the contexts of the other (`config_reload.c:83` and `:93`);
  `ContextOfItsPolicy` and `DiscardedUnused` leave that interval out.
* The tick may ask for a rotation of a key that was replaced a moment ago. The key bytes of
  removed contexts stay in memory.

Interfaces
* The retry after a failed bind opens `queue_count` queues, which the rollback set to 0
  (`xdp_interface.c:949`): it succeeds without a socket, and the port is live and deaf
  (`OpenRetried`).
* RX threads are sized at start (`forwarder.c:721`): a WAN with more queues that a reload
  adds has queues nobody reads.
* The end of a drain deletes the sockets of a slot that stays live
  (`wan_scheduler.c:176`), and a rollback deletes them before it reclaims their rings: the
  threads and the rollback read unmapped memory. The frames in the fill queues of such
  a slot are lost until a restart.

## 5. What is proved

TLAPS proves the theorems below for every value of the constants that the modules'
assumptions allow. Each proof module says which component it is about; its inductive
invariant (`IInv`, or the name given here) was first checked by TLC on the run of the component. Each
action is a lemma, each conjunct it can disturb a step of it. What several proofs need about
finite sets (the least and the greatest of a set of numbers, ranks, sums, folds) are lemmas at the
head of the modules that use them. Where they need an induction it is the library's well-founded
one, stated for a set (the arguments for which the fact holds) and not for an operator.

| Module | Theorems | Hypotheses beyond the assumptions |
|---|---|---|
| `UdpReorderProofs` | `TypeCorrect`; `CountersExact`: `HeldCounts`; `CapRespected`: `HeldBounded`; `OwnershipKept`: `Ownership` | |
| | `HeldStaysAhead`: `HeldAhead` | `held < HeldCap` throughout |
| | `EmittedInOrder`: `InOrder` | that, and `Near`: no datagram is half the sequence space ahead |
| `LifecycleProofs` | `TypeCorrect`; `SlotsAgree`: `SlotAgrees`; `RequestsEnd`: `NoOrphanRequest`; `ConfigStable`: `LiveCfgStable` | |
| `NeRingProofs` | `TypeCorrect`; `RingIsQueue`: `FifoSpec`; `FramesConserved`: `FrameOnce` | `PopsExclude`: the ring has a pop lock, or no flush |
| `CryptoRuntimeProofs` | `TypeCorrect`; `BoundIdentity`: `WorkerHasBoundIdentity`; `KeptRestarts`: `KeptIsRestartable`; `OwnContext`: `ContextOfItsPolicy`; `DiscardHolds`: `DiscardedUnused`; `ExpiryPursued`: `ExpiryIsPursued` | |
| `XdpPlumbProofs` | `Tracked`: `ProgramsTracked`; `Released`: `AllReleased`; `UmemOutlives`: `UmemLast`; `FramesAccounted`: `FramesKept` | |
| `DatapathProofs` | `OneHomeEach`: `OneWorker`; `Joined`: `JoinedWhole` | |
| | `NumberedRising`: `NumberedInOrder` | `FewConnections`: every connection of the set has a way or a place in the fallback list |
| | `FramesOwned`: `FrameOwnedOnce` | `ArpsOwned`: ARPs of the kinds whose handlers give back what they take |
| `WanSchedProofs` | `TypeCorrect`; `OneLateEach`: `LateOnce`; `FewStranded`: `Stranded`; `BandwidthConserved`: `Conserved` | |
| | of FlowTable, `SharesExact`: `Proportional`; `DebtsBounded`: `DebtBounded` | |
| `ArpBridgeProofs` | `TypeCorrect`; `ClientsOnly`: `OnlyClients`; `PlacesUnique`: `OnePlace` | |
| | `ClientsRemembered`: `Remembered` | `FewClients`: the table has room for every client |

**UDP reorder.** The counters alone are not inductive: that a decrement does not fall below
zero, and that GC may zero an entry whose `held` is 0 without looking at its slots, need the
counter of every entry to be exact; that `CapSkip` leaves room below the cap needs to
know where in a call the worker stands (`pc`) and that an entry in hand is valid; that a
frame is not released twice needs slots to hold distinct frames and none of them the
call's argument. The order theorems add `AheadInv` (what an entry holds is in the window
ahead of `next_seq`, in the slot of its number, and the datagram in hand is in the window once room was
made) and `LastInv` (`next_seq` is past the last number emitted); `Moves` says that a step
leaves an entry as it is, gives it up, or lets it emit one datagram. They rest on the
window being less than half the sequence space (256 and 2^32 in the code).
Their hypotheses are where the code breaks them (section 4). One set of the table cannot
hold 8192 datagrams by itself; the other sets of the worker, which share the cap, can,
and so the cap is a hypothesis on the state and not on the constants. A datagram half
the sequence space ahead of `next_seq` makes the skip jump to where "later" turns into "earlier".

**Lifecycle.** `SlotAgrees` is not inductive by itself: a reload moves `fwd->cfg` before main
moves `rt->active_slot`, and a time-out or a stop may come between the two. `ThreadInv` ties the
places of main to those of the forwarder thread, `ReloadInv` says who still works on a
request, `SlotInv` where `fwd->cfg` is while main waits.

**Rings.** `RingInv`: a producer past the lock holds it and the room it found is still there,
what it wrote is in the buffer, a consumer inside a pop is alone there and its copies are those
of the descriptor at `tail`. The refinement maps the queue of `FrameQueue` to the buffer between
`tail` and `head`; the stores of the counters are its steps, all others stutter. `OwnerInv`
gives every frame one of five owners. `PopsExclude` is needed: without it TLC
violates `FrameOnce` (section 4).

**Crypto runtime and bindings.** Three chains meet in one invariant: the index leads to the
context of its policy (`IndexInv`, `BuiltInv`) and so do a worker's copy of current generation
(`CopyInv`) and a lookup that no reload overtook (`LookInv`); a key is in one slot of its binding at
most, and a discarded one in none, in the bindings, the contexts and the copies (`KeyInv`); a key
marked as asked for is being asked for or on its way out (`PursuedInv`). `BindInv` and `TickInv` say what the
operations rely on. `PqcBinding` assumes that a configuration names a policy once, which the primary
key of `ne_policies` and the check at `db_config.c:516` ensure.

**Interfaces.** `LinkInv` is `ProgramsTracked` interface by interface, through every place of
an open, a reload, a rollback and a close; it needs live slots to hold different interfaces
(`LiveInv`) and the slots being opened to be those of the configuration in its order (`OpenInv`).
`CloseInv` follows the closing sequence, and that sockets, objects and programs come and go together.
`FramesKept` has an invariant of its own on top, `FrameInv`. `FrameType`: what a queue received
and did not release is among what it received. `PlaceInv`: only live slots have frames in their
queues, and a slot without program has received nothing, so that a rollback gives back no frame a
worker holds. `RingInv`: no slot has more sockets than queues. `KeptInv` is the sum itself, pool and
hands included; every step moves frames from one term to another, or takes a slot's terms out
with the slot.

**Packet path.** `PathInv`: `DataType` (what the queues, rings and hands hold), `RouteInv` (a connection
has one way at most, and the home its frames were given is that way's, or the canonical one of
a set that is full without it), `TagInv` (epoch and datagram number name one
datagram among the packets on the way and the halves that wait), `PairInv` (the halves that were joined belong
together). `FrameInv` says that a map from frames to places exists with which the pool, the queues,
the hands, the stock of tails and the rings agree, each naming a frame at most once;
`FrameOwnedOnce` counts what the map says. The ARP kinds that `ArpsOwned` leaves out leak
or are freed twice in the code (section 4), and TLC shows it.

`NumberedInOrder` needs the way of a frame from the RX thread to its number. `LineInv`: the frames that wait
in a worker's queue and in its hand are in the order in which they came, none is newer than
the last that came, and they are of connections at home there. `GivenInv`: what was
numbered came before what waits, which `OneWorker` makes true across workers. `ListInv`: a
fallback list has a connection once, and only connections a full set has no way for.
`DrawnInv`: the next number, in the way or in the list of the home's worker, is above those
given, and a connection that has a number stays where its next one is kept. `FewConnections` is
what the code does not ensure: a list of `DP_UDP_SEQ_FALLBACK_WAYS` that is full gives up its
least recent entry, whose connection starts again at 0 (section 4). It follows by counting that a list then has
room (`RoomLeft`).

**WAN scheduler.** `LateInv`: a slot that somebody was late for is closed still, and who was late
is on its way there again only at a step that has yet to ask a flag that is against it. That takes the
flags as they stand between any two steps of a sender, each of which reads half of them, and
the fact that nothing but a change of the flags themselves forgets who was late (`FlagsTell`).
`StrandInv` counts for `Stranded`: from the flush of a drain on, the datagrams in a closing slot's
rings and the senders about to add one are at most one for each sender; once the slot is stopped,
at most two. A rollback finds rings that nobody had chosen. `Conserved` needs slots and WANs to
name each other one to one (`SlotsOnce`), through a reload that attaches the WANs without slot
and one that fails half way and rolls back; then every WAN of the pool appears in one term
of the sum, and what rounding takes away the remainder gives back.

**Flow table.** `WanSchedProofs` extends `FlowTable` too, whose specification is `FlowSpec`.
`Balanced`: the counters of an entry sum to zero and none is a round of the heaviest pool below
zero. `Shared`: as long as the pool is one, a counter is what the WAN was due less what it was given in this round. Once the weights are
added the counters sum to the total, so the largest is above zero: its WAN
had picks left in the round (`PicksLeft`), and after paying the total it owes less than a
round. At the end of a round every counter is a multiple of the total and at least
0, and their sum is zero: each WAN was given its weight exactly (`RoundOver`). What a WAN can be owed is what the others
can owe (`ZeroSum`), hence the two ends of the ranges.

**MAC table and ARP bridge.** `AirInv` gives the types. `StampInv`: a frame in the air that is from neither a
client nor the appliance bears a stamp, so the bridge does not learn it. `MacInv`: table and
log hold entries of clients only, one place for a MAC, and agree on the configured ports when no
save is due. `LastInv`: the last speaker of a port is in the table, or in what the next start
loads. Loads, merges and saves are folds over sequences; what
they return is shown by induction on the prefix they have taken. `FewClients` is needed: with
`MaxEntries = 1` TLC violates `Remembered`, since a full table refuses a new client and a full log
drops the newest (section 4). The assumption that there is a port is `forwarder_init`'s, which refuses a configuration
without one (`forwarder.c:527`).

Only model-checked, and why:

* liveness (`SubmitReturns`, `HeldLeaves`, `RunningStops`, `Settles`, `DrainEnds`, `OldKeyForgotten`,
  `Converges`): out of the prover's reach;
* `CutoverWindow` and `CommitAgrees` of PqcHandshake: they hold for one fault and not for two
  (section 4), so that an inductive invariant has to say which messages can be in flight after
  each single fault, and the theorem would be about `MaxFault = 1`, `MaxReset = 1` and
  `MaxRekey = 1`, the instance that `pqc_main` explores completely.

None of the modules declares a RECURSIVE operator.

## 6. What is not modelled

* Database queries, the vault, parsing, statistics and XDP programs: input and output,
  byte layout and counters that nothing reads. A load yields any configuration of
  the instance, or fails.
* `idle.c`: it decides when a thread takes its next step, never which. The sleeping flag
  is stored with release and read with acquire order only, so a wake-up can be lost; the poll
  then ends after 1 ms by itself. The models let every thread pause anywhere.
* The hysteresis of CFM (two missed CCMs take a link down, three heard ones bring it
  up, a tick without silence counting as heard): WanSched lets links go up and down at any
  time, which includes whatever the hysteresis does.
* TCP, ICMP, OSPF on the datapath: the same path as UDP without numbering, split, join and
  reorder. `NE_UDP_REORDER=0`, which bypasses the reorder buffer.
* A worker's stale copy of `fwd->cfg` across two quick reloads: nothing in the code
  prevents it, only time does.
* The cryptography: signatures, KEM and AEAD are perfect or fail as a whole.
* The memory order of the ring's accesses is taken as the acquire and release pairs in
  the code give it.
* Code without a caller: `ne_pair_plumb_local`, `ne_pair_teardown_live`,
  `ne_pair_create_umem_on_local`, `fwd_wan_refresh_active`.
