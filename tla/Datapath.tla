------------------------------ MODULE Datapath ------------------------------
(***************************************************************************)
(* One site's packet path, both ways: the RX threads of                    *)
(* src/core/forwarder/forwarder.c hand frames to the crypto workers, which *)
(* run dataplane_process_local (encrypt, split, to the WAN rings) and      *)
(* dataplane_process_wan (decrypt, reassemble, reorder, to the LAN rings). *)
(* Every frame is a UMEM frame of one pool: whoever holds it must pass it  *)
(* on or free it, exactly once, on every error path.                       *)
(*                                                                         *)
(* The peer is the same program at the other end of the WAN: it sends      *)
(* datagrams, whole or split, and may restart.  The UDP reorder stage is   *)
(* modelled by UdpReorder; here it is a set of held items that it emits or *)
(* drops.                                                                  *)
(***************************************************************************)
EXTENDS FlowRoute, Fragments

CONSTANTS
    Frame,      \* the frames of the UMEM
    NPort,      \* LAN ports
    PortOf,     \* port the MAC table gives for each connection's host
    PeerWorker, \* worker the peer's own route table gives each connection
    Bypass,     \* connections whose policy is POLICY_ACTION_BYPASS
    Sizes,      \* does a connection send datagrams that must be split?
    PeerSizes,  \* the same for what the peer sends
    MidCap,     \* capacity of local_to_mid and wan_to_mid
    TxCap,      \* capacity of mid_to_wan and mid_to_local
    Margin,     \* NE_BATCH_SIZE of fwd_wan_has_tx_room
    Refill,     \* SPLIT_TAIL_REFILL_BATCH
    LanArps,    \* ARPs the LAN sends: "echo" of a relayed one,
                \* "stray" from a port no bridge pairs with a WAN, "lan" any other
    WanArps,    \* ARPs the WAN sends: "flood" who-has, "uni" unicast
    MaxLan,     \* bound: frames that arrive from the LAN
    MaxWan,     \* bound: frames and datagrams the peer sends
    MaxAll,     \* bound: both together
    MaxFault    \* bound: frames the WAN duplicates and restarts of the peer

ASSUME DatapathAssumption ==
    /\ {NPort, MidCap, TxCap, Refill} \subseteq Nat \ {0}
    /\ {Margin, MaxLan, MaxWan, MaxAll, MaxFault} \subseteq Nat
    /\ Bypass \subseteq Conn /\ IsFiniteSet(Frame)
    /\ PortOf \in [Conn -> 1 .. NPort]
    /\ {Sizes, PeerSizes} \subseteq [Conn -> SUBSET BOOLEAN]
    /\ PeerWorker \in [Conn -> Worker]
    /\ LanArps \subseteq {"echo", "stray", "lan"} /\ WanArps \subseteq {"flood", "uni"}

Port == 1 .. NPort
Tunnelled == Conn \ Bypass
Thread == Worker \cup {NoHint}
LanRx == NoHint                       \* the LAN RX thread, which has no worker

VARIABLES
    free,     \* how often each frame is in the pool
    tails,    \* split_tail_cache of each worker
    lanQ,     \* local_to_mid
    wanQ,     \* wan_to_mid
    cur,      \* the packet a thread is in the middle of, <<>> or one job
    held,     \* the items in each worker's reorder stage
    toWan,    \* mid_to_wan of each TX slot
    toLan,    \* mid_to_local of each port and TX slot
    reasm,    \* reassembly table of each worker
    net,      \* frames of the peer on the WAN
    peer,     \* the peer: epoch, datagram clocks, sequence numbers
    came,     \* frames that came from the LAN, and faults, so far
    homes,    \* worker and slot each connection's frames were given
    given     \* number and sequence number of each datagram sent
pathVars == <<free, tails, lanQ, wanQ, cur, held, toWan, toLan, reasm, net, peer,
              came, homes, given>>
vars == <<routeVars, pathVars>>

Init ==
    /\ RouteInit
    /\ free = [f \in Frame |-> 1]
    /\ tails = [w \in Worker |-> {}]
    /\ lanQ = [w \in Worker |-> <<>>] /\ wanQ = [w \in Worker |-> <<>>]
    /\ cur = [t \in Thread |-> <<>>]
    /\ held = [w \in Worker |-> {}]
    /\ toWan = [s \in TxSlot |-> <<>>]
    /\ toLan = [r \in Port \X TxSlot |-> <<>>]
    /\ reasm = [w \in Worker |-> [s \in FragSlot |-> Cleared]]
    /\ net = {}
    /\ peer = [epoch |-> 1, clock |-> [w \in Worker |-> 0],
               seq |-> [k \in Conn |-> 0], sent |-> 0]
    /\ came = [lan |-> 0, fault |-> 0]
    /\ homes = [k \in Conn |-> {}] /\ given = [k \in Conn |-> <<>>]

-----------------------------------------------------------------------------
(* The frame pool.  ne_frame_alloc pops some free frame, which one does    *)
(* not matter; ne_frame_free pushes whatever it is given.                  *)

Available == {f \in Frame : free[f] > 0}
Without(b, S) == [f \in Frame |-> b[f] - (IF f \in S THEN 1 ELSE 0)]
With(b, S) == [f \in Frame |-> b[f] + (IF f \in S THEN 1 ELSE 0)]

Free(S) == free' = With(free, S)
Idle(t) == cur[t] = <<>>
Working(t, pc) == cur[t] # <<>> /\ cur[t][1].pc = pc
J(t) == cur[t][1]
Busy(t, j) == cur' = [cur EXCEPT ![t] = <<j>>]
Done(t) == cur' = [cur EXCEPT ![t] = <<>>]

\* dp_ring_push to a WAN ring and to a LAN ring: a full ring frees the frame.
PushWan(s, job) ==
    IF Len(toWan[s]) < TxCap
    THEN toWan' = [toWan EXCEPT ![s] = Append(@, job)] /\ UNCHANGED free
    ELSE UNCHANGED toWan /\ Free({job.f})
PushLan(r, job) ==
    IF Len(toLan[r]) < TxCap
    THEN toLan' = [toLan EXCEPT ![r] = Append(@, job)] /\ UNCHANGED free
    ELSE UNCHANGED toLan /\ Free({job.f})

\* fwd_wan_has_tx_room, of the slot the thread is bound to
HasRoom(s) == Len(toWan[s]) + Margin < TxCap

-----------------------------------------------------------------------------
(* From the LAN: local_rx_thread, then dataplane_process_local. *)

Quiet == came.lan + peer.sent < MaxAll
LanCame == /\ came.lan < MaxLan /\ Quiet /\ Idle(LanRx)
           /\ came' = [came EXCEPT !.lan = @ + 1]

\* A bypass frame never meets a worker: the RX thread picks the slot by the
\* hash and pushes.
LanBypass(k, f) ==
    /\ k \in Bypass /\ LanCame
    /\ LET s == Canonical(k).slot
           job == [f |-> f, k |-> k, part |-> "plain"] IN
       IF HasRoom(s)
       THEN /\ toWan' = [toWan EXCEPT ![s] = Append(@, job)]
            /\ free' = Without(free, {f})
       ELSE UNCHANGED <<toWan, free>>
    /\ UNCHANGED <<routeVars, tails, lanQ, wanQ, cur, held, toLan, reasm, net,
                   peer, homes, given>>

\* ne_ring_try_push of the RX thread; a frame that finds the ring full is free
\* again.  b is the pool without the frame.
Queue(j, rt, b) ==
    LET job == [pc |-> "data", f |-> j.f, k |-> j.k, n |-> j.n, big |-> j.big,
                slot |-> rt.slot]
    IN /\ homes' = [homes EXCEPT ![j.k] = @ \cup {rt}]
       /\ IF Len(lanQ[rt.worker]) < MidCap
          THEN lanQ' = [lanQ EXCEPT ![rt.worker] = Append(@, job)] /\ free' = b
          ELSE UNCHANGED lanQ /\ free' = With(b, {j.f})

\* A frame for a worker: dp_crypto_pick_local_worker looks the connection up
\* without a lock and, if it is not there, goes for the insert lock.
LanArrive(k, big, f) ==
    /\ k \in Tunnelled /\ LanCame
    /\ LET j == [f |-> f, k |-> k, n |-> came'.lan, big |-> big] IN
       IF Known(k)
       THEN Queue(j, Route(k), Without(free, {f})) /\ UNCHANGED cur
       ELSE /\ Busy(LanRx, [pc |-> "insert", f |-> f, k |-> k, n |-> j.n, big |-> big])
            /\ free' = Without(free, {f})
            /\ UNCHANGED <<lanQ, homes>>
    /\ UNCHANGED <<routeVars, tails, wanQ, held, toWan, toLan, reasm, net, peer,
                   given>>
LanInsert ==
    /\ Working(LanRx, "insert") /\ Done(LanRx)
    /\ Insert(J(LanRx).k, NoHint)
    /\ Queue(J(LanRx), Routed(J(LanRx).k, NoHint), free)
    /\ UNCHANGED <<fb, tails, wanQ, held, toWan, toLan, reasm, net, peer, came,
                   given>>

\* dataplane_process_local of a data frame up to the key: the policy, the WAN
\* and its room, the readiness of the key.
LocalAdmit(w, ok) ==
    /\ Idle(w) /\ lanQ[w] # <<>> /\ Head(lanQ[w]).pc = "data"
    /\ lanQ' = [lanQ EXCEPT ![w] = Tail(@)]
    /\ LET j == Head(lanQ[w]) IN
       IF ok /\ HasRoom(j.slot)
       THEN Busy(w, [j EXCEPT !.pc = "encrypt"]) /\ UNCHANGED free
       ELSE Free({j.f}) /\ UNCHANGED cur
    /\ UNCHANGED <<routeVars, tails, wanQ, held, toWan, toLan, reasm, net, peer,
                   came, homes, given>>

\* The sequence number of encrypt_to_wan, drawn before anything can fail.
Number(w, j) ==
    /\ Count(w, j.k)
    /\ given' = [given EXCEPT ![j.k] = Append(@, <<j.n, NextSeq(w, j.k)>>)]
    /\ UNCHANGED workerRr

\* encrypt_to_wan without a split; enc is the result of the encryption.
LocalWhole(w, enc) ==
    /\ Working(w, "encrypt") /\ ~J(w).big
    /\ Number(w, J(w)) /\ Done(w)
    /\ IF enc
       THEN PushWan(J(w).slot, [f |-> J(w).f, k |-> J(w).k, part |-> "full"])
       ELSE Free({J(w).f}) /\ UNCHANGED toWan
    /\ UNCHANGED <<tails, lanQ, wanQ, held, toLan, reasm, net, peer, came, homes>>

\* split_tail_take: an empty cache takes up to Refill frames, S, from the pool.
Refills(w) ==
    IF tails[w] # {} THEN {{}}
    ELSE {S \in SUBSET Available :
            Cardinality(S) = Min({Refill, Cardinality(Available)})}

\* Mutant of SplitFailed: the tail is forgotten when the split fails.
SplitFailedTail(b, j, tail) == With(b, {j.f})

\* Encryption failed or the pair does not fit: the callee frees the tail, the
\* caller the job.
SplitFailed(b, j, tail) == With(b, {j.f, tail})

\* ne_ring_try_push_pair: both halves or none.
FitsPair(s) == Len(toWan[s]) + 2 <= TxCap

\* crypto_option_split into the tail, then push_split_to_wan
SplitInto(w, j, S, tail, enc) ==
    /\ tails' = [tails EXCEPT ![w] = (@ \cup S) \ {tail}]
    /\ IF enc /\ FitsPair(j.slot)
       THEN /\ toWan' = [toWan EXCEPT ![j.slot] =
                   @ \o <<[f |-> j.f, part |-> "first"], [f |-> tail, part |-> "second"]>>]
            /\ free' = Without(free, S)
       ELSE free' = SplitFailed(Without(free, S), j, tail) /\ UNCHANGED toWan

\* encrypt_to_wan with a split
LocalSplit(w, enc) ==
    /\ Working(w, "encrypt") /\ J(w).big
    /\ Number(w, J(w)) /\ Done(w)
    /\ \E S \in Refills(w) :
         IF tails[w] \cup S = {}
         THEN Free({J(w).f}) /\ UNCHANGED <<tails, toWan>>
         ELSE \E tail \in tails[w] \cup S : SplitInto(w, J(w), S, tail, enc)
    /\ UNCHANGED <<lanQ, wanQ, held, toLan, reasm, net, peer, came, homes>>

-----------------------------------------------------------------------------
(* From the WAN: wan_rx_thread, then dataplane_process_wan. *)

\* The frame stays on the WAN when the WAN duplicates it.
WanCame(p, again) ==
    /\ p \in net
    /\ again => came.fault < MaxFault
    /\ net' = IF again THEN net ELSE net \ {p}
    /\ came' = IF again THEN [came EXCEPT !.fault = @ + 1] ELSE came

\* The LAN ring of a connection's host: the port the MAC table gives, which
\* the profile must own.
RingOf(k, slot) == <<PortOf[k], slot>>

\* Plain traffic is handled by the RX thread itself (wan_profile_pi_bypass,
\* forward_wan_to_local); known tells whether policy and MAC table accept it.
WanBypass(p, known, f) ==
    /\ p \in net /\ p.part = "plain" /\ WanCame(p, FALSE)
    /\ LET r == RingOf(p.k, Canonical(p.k).slot)
           job == [f |-> f, first |-> p.id, second |-> p.id] IN
       IF known /\ Len(toLan[r]) < TxCap
       THEN /\ toLan' = [toLan EXCEPT ![r] = Append(@, job)]
            /\ free' = Without(free, {f})
       ELSE UNCHANGED <<toLan, free>>
    /\ UNCHANGED <<routeVars, tails, lanQ, wanQ, cur, held, toWan, reasm, peer,
                   homes, given>>

\* dp_crypto_pick_wan_worker: the worker is the one the header names.
WanArrive(p, again, f) ==
    /\ p \in net /\ p.part # "plain" /\ WanCame(p, again)
    /\ IF Len(wanQ[p.worker]) < MidCap
       THEN /\ wanQ' = [wanQ EXCEPT ![p.worker] = Append(@, [f |-> f, p |-> p])]
            /\ free' = Without(free, {f})
       ELSE UNCHANGED <<wanQ, free>>
    /\ UNCHANGED <<routeVars, tails, lanQ, cur, held, toWan, toLan, reasm, peer,
                   homes, given>>

\* What decrypt_wan leaves in the frame, and what it leaves in the table.
Item(w, j) ==
    LET e == Filled(reasm[w], j.p) IN
    IF j.p.part = "full"
    THEN [f |-> j.f, k |-> j.p.k, first |-> j.p.id, second |-> j.p.id]
    ELSE [f |-> j.f, k |-> j.p.k, first |-> e.first, second |-> e.second]
Complete(w, j) == j.p.part = "full" \/ Whole(Filled(reasm[w], j.p))
Table(w, j) ==
    IF j.p.part = "full" THEN reasm[w] ELSE Reassembled(reasm[w], j.p)

\* dataplane_process_wan of an encrypted frame, up to dp_udp_reorder_submit:
\* dec is the success of the decryption, pass that of the policy check.  A
\* half that has to wait has been copied, so its frame is freed as well.
WanDecrypt(w, dec, pass) ==
    /\ Idle(w) /\ wanQ[w] # <<>> /\ Head(wanQ[w]).p.part \notin WanArps
    /\ wanQ' = [wanQ EXCEPT ![w] = Tail(@)]
    /\ LET j == Head(wanQ[w]) IN
       /\ reasm' = IF dec THEN [reasm EXCEPT ![w] = Table(w, j)] ELSE reasm
       /\ IF dec /\ Complete(w, j) /\ pass
          THEN held' = [held EXCEPT ![w] = @ \cup {Item(w, j)}] /\ UNCHANGED free
          ELSE Free({j.f}) /\ UNCHANGED held
    /\ UNCHANGED <<routeVars, tails, lanQ, cur, toWan, toLan, net, peer, came,
                   homes, given>>

\* forward_wan_to_local; a host the MAC table does not know is dropped by the
\* reorder stage, to which the emit reports -1.
Forward(it, slot, known) ==
    IF known
    THEN PushLan(RingOf(it.k, slot),
                 [f |-> it.f, first |-> it.first, second |-> it.second])
    ELSE Free({it.f}) /\ UNCHANGED toLan

\* The reorder stage gives an item back: udp_reorder_emit looks the
\* connection's slot up, with the worker as hint, and forwards ...
Emit(w, it, known) ==
    /\ Idle(w) /\ it \in held[w]
    /\ held' = [held EXCEPT ![w] = @ \ {it}]
    /\ IF Known(it.k)
       THEN Forward(it, Route(it.k).slot, known) /\ UNCHANGED cur
       ELSE /\ Busy(w, [pc |-> "insert", f |-> it.f, k |-> it.k,
                        first |-> it.first, second |-> it.second])
            /\ UNCHANGED <<free, toLan>>
    /\ UNCHANGED <<routeVars, tails, lanQ, wanQ, toWan, reasm, net, peer, came,
                   homes, given>>
EmitInsert(w, known) ==
    /\ Working(w, "insert") /\ Done(w)
    /\ Insert(J(w).k, w)
    /\ Forward(J(w), Routed(J(w).k, w).slot, known)
    /\ UNCHANGED <<fb, tails, lanQ, wanQ, held, toWan, reasm, net, peer, came,
                   homes, given>>

\* ... or udp_reorder_drop frees it.
DropHeld(w, it) ==
    /\ Idle(w) /\ it \in held[w]
    /\ held' = [held EXCEPT ![w] = @ \ {it}]
    /\ Free({it.f})
    /\ UNCHANGED <<routeVars, tails, lanQ, wanQ, cur, toWan, toLan, reasm, net,
                   peer, came, homes, given>>

\* fwd_crypto_frag_gc_worker_tick
FragGc(w) ==
    /\ Idle(w) /\ Collected(reasm[w]) # reasm[w]
    /\ reasm' = [reasm EXCEPT ![w] = Collected(@)]
    /\ UNCHANGED <<routeVars, free, tails, lanQ, wanQ, cur, held, toWan, toLan, net,
                   peer, came, homes, given>>

\* More than OPT_FRAG_TIMEOUT_NS passes for the halves that wait.
Wait ==
    /\ \E w \in Worker : Aged(reasm[w]) # reasm[w]
    /\ reasm' = [w \in Worker |-> Aged(reasm[w])]
    /\ UNCHANGED <<routeVars, free, tails, lanQ, wanQ, cur, held, toWan, toLan, net,
                   peer, came, homes, given>>

-----------------------------------------------------------------------------
(* ARP: an ARP frame goes to a worker by its hash and through the bridge,  *)
(* arp_bridge_from_local and arp_bridge_from_wan.                          *)

ArpSlot == 0

LanArp(w, kind, f) ==
    /\ kind \in LanArps /\ LanCame
    /\ IF Len(lanQ[w]) < MidCap
       THEN /\ lanQ' = [lanQ EXCEPT ![w] = Append(@, [pc |-> kind, f |-> f])]
            /\ free' = Without(free, {f})
       ELSE UNCHANGED <<lanQ, free>>
    /\ UNCHANGED <<routeVars, tails, wanQ, cur, held, toWan, toLan, reasm, net,
                   peer, homes, given>>

\* The frames freed by an ARP from the LAN, as a count: an echo is neither
\* sent nor freed; a stray one, or one that finds no usable WAN (up is FALSE),
\* is freed at the caller's drop label; a full ring frees it in dp_ring_push
\* and again there.
ArpLocalFrees(kind, up) ==
    IF kind = "echo" THEN 0 ELSE IF kind = "stray" \/ ~up THEN 1
    ELSE IF Len(toWan[ArpSlot]) < TxCap THEN 0 ELSE 2

LocalArp(w, up) ==
    /\ Idle(w) /\ lanQ[w] # <<>> /\ Head(lanQ[w]).pc \in LanArps
    /\ lanQ' = [lanQ EXCEPT ![w] = Tail(@)]
    /\ LET j == Head(lanQ[w])
           sent == j.pc = "lan" /\ up /\ Len(toWan[ArpSlot]) < TxCap
       IN /\ free' = [free EXCEPT ![j.f] = @ + ArpLocalFrees(j.pc, up)]
          /\ toWan' = IF sent
                      THEN [toWan EXCEPT ![ArpSlot] = Append(@, [f |-> j.f])]
                      ELSE toWan
    /\ UNCHANGED <<routeVars, tails, wanQ, cur, held, toLan, reasm, net, peer,
                   came, homes, given>>

\* arp_flood_to_profile_locals: the first ring with room gets the frame
\* itself, every further one a clone, while there are frames for clones.
Roomy == {li \in Port : Len(toLan[<<li, ArpSlot>>]) < TxCap}
Flood(f) ==
    LET rank(li) == Cardinality({x \in Roomy : x < li})
        cloned == {li \in Roomy : rank(li) \in 1 .. Cardinality(Available)}
        Give(ring, g) == Append(ring, [f |-> g])
    IN IF Roomy = {} THEN Free({f}) /\ UNCHANGED toLan
       ELSE \E clone \in {g \in [cloned -> Available] : IsInjective(g)} :
            /\ free' = Without(free, Range(clone))
            /\ toLan' = [r \in DOMAIN toLan |->
                  IF r[2] # ArpSlot THEN toLan[r]
                  ELSE IF r[1] = Min(Roomy) THEN Give(toLan[r], f)
                  ELSE IF r[1] \in cloned THEN Give(toLan[r], clone[r[1]])
                  ELSE toLan[r]]

\* A unicast ARP to port li: the full ring again frees twice.
ArpUnicast(f, known, li) ==
    LET r == <<li, ArpSlot>> IN
    IF known /\ Len(toLan[r]) < TxCap
    THEN toLan' = [toLan EXCEPT ![r] = Append(@, [f |-> f])] /\ UNCHANGED free
    ELSE /\ free' = [free EXCEPT ![f] = @ + (IF known THEN 2 ELSE 1)]
         /\ UNCHANGED toLan

WanArp(w, known) ==
    /\ Idle(w) /\ wanQ[w] # <<>> /\ Head(wanQ[w]).p.part \in WanArps
    /\ wanQ' = [wanQ EXCEPT ![w] = Tail(@)]
    /\ LET j == Head(wanQ[w]) IN
       IF j.p.part = "uni" THEN \E li \in Port : ArpUnicast(j.f, known, li)
       ELSE Flood(j.f)
    /\ UNCHANGED <<routeVars, tails, lanQ, cur, held, toWan, reasm, net, peer,
                   came, homes, given>>

-----------------------------------------------------------------------------
(* The TX threads, and the peer. *)

\* A frame is sent and its completion drained: it is back in the pool.
TxWan(s) ==
    /\ toWan[s] # <<>>
    /\ Free({Head(toWan[s]).f})
    /\ toWan' = [toWan EXCEPT ![s] = Tail(@)]
    /\ UNCHANGED <<routeVars, tails, lanQ, wanQ, cur, held, toLan, reasm, net, peer,
                   came, homes, given>>
TxLan(r) ==
    /\ toLan[r] # <<>>
    /\ Free({Head(toLan[r]).f})
    /\ toLan' = [toLan EXCEPT ![r] = Tail(@)]
    /\ UNCHANGED <<routeVars, tails, lanQ, wanQ, cur, held, toWan, reasm, net, peer,
                   came, homes, given>>

\* crypto_option_udp_set_tx_seq and l2_split at the peer: the connection's
\* number, the worker's datagram clock.
PeerSend(k, big) ==
    /\ k \in Tunnelled /\ peer.sent < MaxWan /\ Quiet
    /\ LET w == PeerWorker[k] IN
       /\ net' = net \cup
            {[part |-> part, k |-> k, worker |-> w, epoch |-> peer.epoch,
              dg |-> peer.clock[w], seq |-> peer.seq[k], id |-> <<k, peer.sent>>] :
               part \in Parts(big)}
       /\ peer' = [peer EXCEPT !.clock[w] = @ + 1, !.seq[k] = @ + 1, !.sent = @ + 1]
    /\ UNCHANGED <<routeVars, free, tails, lanQ, wanQ, cur, held, toWan, toLan,
                   reasm, came, homes, given>>

\* The peer's other traffic: plain frames of bypass connections, and ARPs.
PeerOther(part, k) ==
    /\ peer.sent < MaxWan /\ Quiet
    /\ net' = net \cup {[part |-> part, k |-> k, worker |-> Hash[k] % NWorker,
                         id |-> <<k, peer.sent>>]}
    /\ peer' = [peer EXCEPT !.sent = @ + 1]
    /\ UNCHANGED <<routeVars, free, tails, lanQ, wanQ, cur, held, toWan, toLan,
                   reasm, came, homes, given>>

CanRestart == /\ came.fault < MaxFault
              /\ came' = [came EXCEPT !.fault = @ + 1]

\* The peer's process restarts: a new epoch, everything from zero.
PeerReboot ==
    /\ CanRestart
    /\ peer' = [peer EXCEPT !.epoch = @ + 1, !.clock = [w \in Worker |-> 0],
                            !.seq = [k \in Conn |-> 0]]
    /\ UNCHANGED <<routeVars, free, tails, lanQ, wanQ, cur, held, toWan, toLan,
                   reasm, net, homes, given>>

\* The peer's runtime restarts inside the process: the route table and the
\* epoch are static, the worker threads and their datagram clocks are new.
\* It takes longer than OPT_FRAG_TIMEOUT_NS, so nothing is left on the way.
PeerRuntimeRestart ==
    /\ CanRestart
    /\ peer' = [peer EXCEPT !.clock = [w \in Worker |-> 0]]
    /\ net' = {} /\ \A w \in Worker : wanQ[w] = <<>>
    /\ reasm' = [w \in Worker |-> Aged(reasm[w])]
    /\ UNCHANGED <<routeVars, free, tails, lanQ, wanQ, cur, held, toWan, toLan,
                   homes, given>>

-----------------------------------------------------------------------------
Next ==
    \/ \E f \in Available, k \in Conn :
         LanBypass(k, f) \/ \E big \in Sizes[k] : LanArrive(k, big, f)
    \/ LanInsert
    \/ \E f \in Available, w \in Worker, kind \in LanArps : LanArp(w, kind, f)
    \/ \E w \in Worker, b \in BOOLEAN :
         \/ LocalAdmit(w, b) \/ LocalWhole(w, b) \/ LocalSplit(w, b)
         \/ LocalArp(w, b) \/ WanArp(w, b)
         \/ EmitInsert(w, b)
         \/ \E pass \in BOOLEAN : WanDecrypt(w, b, pass)
    \/ \E w \in Worker : FragGc(w)
    \/ \E w \in Worker : \E it \in held[w] :
         DropHeld(w, it) \/ \E known \in BOOLEAN : Emit(w, it, known)
    \/ \E f \in Available, p \in net, b \in BOOLEAN :
         WanBypass(p, b, f) \/ WanArrive(p, b, f)
    \/ \E s \in TxSlot : TxWan(s)
    \/ \E r \in Port \X TxSlot : TxLan(r)
    \/ \E k \in Tunnelled : \E big \in PeerSizes[k] : PeerSend(k, big)
    \/ \E k \in Bypass, part \in {"plain"} \cup WanArps : PeerOther(part, k)
    \/ PeerReboot \/ PeerRuntimeRestart \/ Wait

Spec == Init /\ [][Next]_vars

-----------------------------------------------------------------------------
(* Properties. *)

\* How often a frame is in a family q of sequences of things with a frame.
Times(q, f) ==
    Cardinality({xi \in UNION {{x} \X DOMAIN q[x] : x \in DOMAIN q} :
                   q[xi[1]][xi[2]].f = f})

\* The places a frame is in, other than the pool.
Places(f) ==
    Times(lanQ, f) + Times(wanQ, f) + Times(cur, f) + Times(toWan, f) + Times(toLan, f)
    + Cardinality({w \in Worker : f \in tails[w]})
    + Cardinality({wi \in UNION {{w} \X held[w] : w \in Worker} : wi[2].f = f})

\* The state is one the structures of the code can hold.
TypeOK ==
    /\ table \in Seq(RouteEntry) /\ Len(table) <= Ways
    /\ \A w \in Worker : Len(fb[w]) <= FbWays
    /\ free \in [Frame -> Nat]
    /\ \A w \in Worker : /\ tails[w] \subseteq Frame /\ Cardinality(tails[w]) <= Refill
                          /\ Len(lanQ[w]) <= MidCap /\ Len(wanQ[w]) <= MidCap
    /\ \A s \in TxSlot : Len(toWan[s]) <= TxCap
    /\ \A r \in Port \X TxSlot : Len(toLan[r]) <= TxCap

\* A UMEM frame is in exactly one place: the pool, a worker's stock of tails,
\* a queue, a ring, a thread's hands or the reorder stage.  It is never freed
\* twice and never forgotten, whatever fails on the way ("dp_ring_push already
\* returned the UMEM frame to the pool.", wan_ingress.c:411).
FrameOwnedOnce == \A f \in Frame : free[f] + Places(f) = 1

\* The frames of a connection are all given to one worker and one TX slot,
\* even while the RX thread and a worker enter the connection at once, and
\* whether or not the set has room for it.
OneWorker == \A k \in Conn : Cardinality(homes[k]) <= 1

\* The datagrams of a connection are numbered in the order in which they
\* came, and no number is used twice: that is what the peer's reorder stage
\* takes for granted.
NumberedInOrder ==
    \A k \in Conn : \A i, j \in DOMAIN given[k] :
        i < j => given[k][i][1] < given[k][j][1] /\ given[k][i][2] < given[k][j][2]

\* What leaves the reassembly is one datagram: its two halves belong together,
\* in spite of lost, late and duplicated halves, evictions and restarts.
JoinedWhole ==
    /\ \A w \in Worker : \A it \in held[w] : it.first = it.second
    /\ \A r \in Port \X TxSlot : \A i \in DOMAIN toLan[r] :
         "first" \in DOMAIN toLan[r][i] => toLan[r][i].first = toLan[r][i].second
=============================================================================
