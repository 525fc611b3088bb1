----------------------------- MODULE ArpBridge ------------------------------
(***************************************************************************)
(* The ARP bridge (src/core/dataplane/arp_bridge.c) over the forwarding    *)
(* table of MacLearn: ARP of LAN clients is learned and sent to a WAN, ARP *)
(* from a WAN is flooded to every LAN port or sent to the one its target   *)
(* is behind.  What leaves on one port can come back on another one of the *)
(* same LAN segment; the stamps of mac_relay_stamp keep such an echo from  *)
(* being taken for a client.                                               *)
(*                                                                         *)
(* Which WAN an ARP leaves by, its encryption and its frame are Datapath.  *)
(***************************************************************************)
EXTENDS MacLearn

CONSTANTS
    Hears,      \* for each port, the ports that hear what is sent on it
    StampMax,   \* MAC_RELAY_STAMP_MAX
    MaxAir      \* bound: ARPs under way to the LAN ports

ASSUME ArpAssumption ==
    /\ Hears \in [Port -> SUBSET Port]
    /\ {StampMax, MaxAir} \subseteq Nat \ {0}

VARIABLES
    air,      \* ARPs under way to a LAN port
    stamps,   \* g_mac_relay, oldest first
    job       \* the ARP a worker has from a WAN, between stamp and delivery
vars == <<locals, table, log, saving, last, raced, air, stamps, job>>

Broadcast == "broadcast"
Arp(p, m, op) == [port |-> p, mac |-> m, op |-> op]

Init ==
    /\ MacInit
    /\ air = {} /\ stamps = <<>> /\ job = <<>>

-----------------------------------------------------------------------------

\* The segment of port p carries a frame of m to the ports that hear it.
Heard(p, m, op) == {Arp(q, m, op) : q \in Hears[p] \cap locals}

\* A client, wherever it is plugged in now, asks or answers; the
\* appliance's own kernel asks.
Speak ==
    /\ \E p \in locals :
         \/ \E m \in Client : \E op \in {"request", "reply"} :
              air' = air \cup Heard(p, m, op) \cup {Arp(p, m, op)}
         \/ \E m \in Own : air' = air \cup Heard(p, m, "request")
    /\ Cardinality(air') <= MaxAir
    /\ UNCHANGED <<macVars, stamps, job>>

\* mac_relay_recent
Recent(m) == m \in ToSet(stamps)

\* An ARP arrives on a LAN port: arp_bridge_from_local.  An echo, the
\* appliance's own and a reply from another port than its sender's are
\* dropped, the rest is learned.
Ignored(f) ==
    \/ Recent(f.mac)
    \/ f.mac \in Own
    \/ f.op = "reply" /\ Lookup(f.mac) \notin {None, f.port}
FromLocal(w) ==
    /\ \E f \in air :
         /\ air' = air \ {f}
         /\ IF Ignored(f) \/ f.port \notin locals
            THEN w \notin saving /\ UNCHANGED macVars
            ELSE Learn(w, f.port, f.mac)
    /\ UNCHANGED <<stamps, job>>

\* An echo is heard again long before its stamp expires (3 s) or is the
\* StampMax-th oldest.
EchoGone(m) == \A f \in air : f.mac # m

\* Mutant of Stamped: only a broadcast leaves a stamp.
StampedBroadcast(m, dst) == IF dst = Broadcast THEN <<m>> ELSE stamps

\* mac_relay_stamp
Stamped(m, dst) ==
    IF Len(stamps) < StampMax THEN Append(stamps, m)
    ELSE Append(Tail(stamps), m)

\* An ARP of a remote host arrives from a WAN: arp_bridge_from_wan up to the
\* stamp.
FromWan ==
    /\ job = <<>>
    /\ \E m \in Remote : \E dst \in Client \cup {Broadcast} :
         /\ Len(stamps) = StampMax => EchoGone(Head(stamps))
         /\ stamps' = Stamped(m, dst)
         /\ job' = <<[mac |-> m, dst |-> dst]>>
    /\ UNCHANGED <<macVars, air>>

\* It is flooded, or sent to the port its target is behind; unknown targets
\* are dropped.  What is sent may come back.
Targets(dst) == IF dst = Broadcast THEN locals ELSE {Lookup(dst)} \ {None}
Deliver ==
    /\ job # <<>> /\ job' = <<>>
    /\ air' = air \cup
         UNION {Heard(p, job[1].mac,
                      IF job[1].dst = Broadcast THEN "request" ELSE "reply")
                  : p \in Targets(job[1].dst)}
    /\ UNCHANGED <<macVars, stamps>>

\* A stamp is 3 s old.
Expire ==
    /\ stamps # <<>> /\ job = <<>>
    /\ EchoGone(Head(stamps))
    /\ stamps' = Tail(stamps)
    /\ UNCHANGED <<macVars, air, job>>

\* What the table does apart from learning.  A process that starts again has
\* no stamps; it is down for longer than an echo takes.
Keep ==
    \/ /\ (\E w \in Worker : Save(w)) \/ Reload \/ Tick
       /\ UNCHANGED <<air, stamps, job>>
    \/ /\ Restart \/ Crash
       /\ job = <<>> /\ \A m \in Remote : EchoGone(m)
       /\ air' = {} /\ stamps' = <<>>
       /\ UNCHANGED job

Next ==
    \/ Speak \/ FromWan \/ Deliver \/ Expire \/ Keep
    \/ \E w \in Worker : FromLocal(w)

Spec == Init /\ [][Next]_vars

-----------------------------------------------------------------------------
(* Properties. *)

\* The type of the state: bounds of the tables and of what is under way.
TypeOK ==
    /\ locals \in SUBSET Port /\ locals # {}
    /\ \A s \in {table, log} : s \in Seq(Entry) /\ Len(s) <= MaxEntries
    /\ saving \subseteq Worker /\ raced \in BOOLEAN /\ last \in [Port -> Mac \cup {None}]
    /\ air \subseteq [port : Port, mac : Mac, op : {"request", "reply"}]
    /\ stamps \in Seq(Remote) /\ Len(stamps) <= StampMax
    /\ job \in Seq([mac : Remote, dst : Client \cup {Broadcast}])

\* "ARP relay WAN->LAN is stamped - not learned" (mac_learn.h:47): no remote
\* host and no port of the appliance is ever taken for a LAN client.
OnlyClients == \A s \in {table, log} : MacsOf(s) \subseteq Client
=============================================================================
