----------------------------- MODULE FlowRoute -----------------------------
(***************************************************************************)
(* The table that pins a connection to a crypto worker and a TX slot, and  *)
(* numbers its UDP datagrams (src/core/dataplane/crypto_route.c).  It is   *)
(* read without a lock by the RX threads and the workers; only the first   *)
(* packet of a connection takes the insert lock, and an entry never        *)
(* changes once its valid flag is up.  One set of the table is modelled:   *)
(* the connections of Conn all hash to it.                                 *)
(***************************************************************************)
EXTENDS Naturals, Sequences, SequencesExt, FiniteSets, FiniteSetsExt

CONSTANTS
    Conn,      \* the connections (dp_route_key: both directions are one key)
    NWorker,   \* NE_CRYPTO_WORKERS
    NSlot,     \* dp_active_tx_slots()
    Hash,      \* dp_route_key_hash of each connection
    Ways,      \* DP_ROUTE_WAYS
    FbWays     \* DP_UDP_SEQ_FALLBACK_WAYS

ASSUME RouteAssumption ==
    /\ {NWorker, NSlot, Ways, FbWays} \subseteq Nat \ {0}
    /\ Hash \in [Conn -> Nat]

Worker == 0 .. NWorker - 1
TxSlot == 0 .. NSlot - 1
NoHint == NWorker

VARIABLES
    table,     \* the valid entries of the set, in the order of their ways
    workerRr,  \* g_worker_rr (g_tx_rr is the number of entries)
    fb         \* tls_udp_seq_fallback of each worker, least recent first
routeVars == <<table, workerRr, fb>>

\* The LAN sends a connection's datagrams in one direction, so one of the two
\* counters of an entry (udp_tx_seq[direction]) is used.
RouteEntry == [key : Conn, worker : Worker, slot : TxSlot, seq : Nat]

RouteInit ==
    /\ table = <<>>
    /\ workerRr = 0
    /\ fb = [w \in Worker |-> <<>>]

Canonical(k) == [worker |-> Hash[k] % NWorker, slot |-> Hash[k] % NSlot]

\* The ways that hold k; more than one would split the connection.
WaysOf(k) == {i \in DOMAIN table : table[i].key = k}
Known(k) == WaysOf(k) # {}
WayOf(k) == Min(WaysOf(k))
Route(k) == [worker |-> table[WayOf(k)].worker, slot |-> table[WayOf(k)].slot]

\* dp_route_least_loaded: the counters count the entries.
LeastLoaded(count, n, start) ==
    LET Pos(i) == (start + i) % n
        best == CHOOSE i \in 0 .. n - 1 :
                  \A j \in 0 .. n - 1 :
                    \/ count[Pos(i)] < count[Pos(j)]
                    \/ count[Pos(i)] = count[Pos(j)] /\ i <= j
    IN Pos(best)

OnWorker == [w \in Worker |-> Cardinality({i \in DOMAIN table : table[i].worker = w})]
OnSlot == [s \in TxSlot |-> Cardinality({i \in DOMAIN table : table[i].slot = s})]

NewEntry(k, hint) ==
    [key |-> k, seq |-> 0,
     worker |-> IF hint # NoHint THEN hint
                ELSE LeastLoaded(OnWorker, NWorker, workerRr % NWorker),
     slot |-> LeastLoaded(OnSlot, NSlot, Len(table) % NSlot)]

\* The locked half of dp_flow_route_get: look again, then take an empty way.
\* A full set changes nothing and the caller gets the canonical hash.
Insert(k, hint) ==
    IF ~Known(k) /\ Len(table) < Ways
    THEN /\ table' = Append(table, NewEntry(k, hint))
         /\ workerRr' = IF hint = NoHint THEN (workerRr + 1) % NWorker
                        ELSE workerRr
    ELSE UNCHANGED <<table, workerRr>>

\* Mutant of Routed: the key is not looked for again under the lock.
RoutedNoRecheck(k, hint) ==
    IF Len(table) < Ways
    THEN [worker |-> NewEntry(k, hint).worker, slot |-> NewEntry(k, hint).slot]
    ELSE Canonical(k)

\* What dp_flow_route_get returns once the locked half is over.
Routed(k, hint) ==
    IF Known(k) THEN Route(k)
    ELSE IF Len(table) < Ways
         THEN [worker |-> NewEntry(k, hint).worker, slot |-> NewEntry(k, hint).slot]
         ELSE Canonical(k)

-----------------------------------------------------------------------------
(* dp_udp_next_tx_seq, called by worker w for a datagram of k. *)

FbWaysOf(w, k) == {i \in DOMAIN fb[w] : fb[w][i].key = k}

\* Mutant of NextSeq: the fallback entry is looked up and not advanced.
NextSeqStuck(w, k) ==
    IF Known(k) THEN table[WayOf(k)].seq
    ELSE 0

\* The number the datagram gets.
NextSeq(w, k) ==
    IF Known(k) THEN table[WayOf(k)].seq
    ELSE IF FbWaysOf(w, k) # {} THEN fb[w][Min(FbWaysOf(w, k))].next ELSE 0

\* The table or, in a full set, the worker's own list moves on; the least
\* recent entry of a full list is given to the new connection.
Count(w, k) ==
    IF Known(k)
    THEN /\ table' = [table EXCEPT ![WayOf(k)].seq = @ + 1]
         /\ fb' = fb
    ELSE /\ table' = table
         /\ LET list == fb[w]
                kept == IF FbWaysOf(w, k) # {}
                        THEN RemoveAt(list, Min(FbWaysOf(w, k)))
                        ELSE IF Len(list) < FbWays THEN list ELSE Tail(list)
            IN fb' = [fb EXCEPT ![w] =
                        Append(kept, [key |-> k, next |-> NextSeq(w, k) + 1])]
=============================================================================
