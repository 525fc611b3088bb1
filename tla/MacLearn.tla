------------------------------ MODULE MacLearn ------------------------------
(***************************************************************************)
(* The LAN forwarding table (src/core/flow/mac_learn.c): which client MAC  *)
(* is behind which LAN port, kept in memory by mac_table and on disk in    *)
(* mac_lan.log.  The log outlives the process and keeps the lines of ports *)
(* that have left the configuration.                                       *)
(*                                                                         *)
(* A learner drops the table's lock to print the table before it saves, so *)
(* the change and its save are two steps.  Parsing and printing of the     *)
(* log, and file errors, are left out; the rename that replaces the log is *)
(* atomic.                                                                 *)
(***************************************************************************)
EXTENDS Naturals, Sequences, SequencesExt, FiniteSets

CONSTANTS
    Port,         \* names of LAN ports
    Client,       \* MACs of hosts on the LAN side
    Remote,       \* MACs of hosts behind the tunnel
    Own,          \* MACs of the appliance's own LAN ports
    MaxEntries,   \* MAC_LEARN_MAX_ENTRIES
    Worker        \* threads that learn

\* forwarder_init refuses a configuration without a LAN port.
ASSUME MacAssumption == Port # {} /\ MaxEntries \in Nat \ {0}

Mac == Client \cup Remote \cup Own
None == "none"
Entry == [mac : Mac, if : Port]
E(m, p) == [mac |-> m, if |-> p]

VARIABLES
    locals,   \* LAN ports of the configuration in force
    table,    \* mac_learn_table.list
    log,      \* lines of mac_lan.log
    saving,   \* threads between a change of the table and its save
    last,     \* history: the client a port belongs to, when that is plain
    raced     \* history: a reload came between a change and its save
macVars == <<locals, table, log, saving, last, raced>>

-----------------------------------------------------------------------------
(* Tables and lines. *)

MacsOf(t) == {t[i].mac : i \in DOMAIN t}
PortsOf(t) == {t[i].if : i \in DOMAIN t}
IdxOfMac(t, m) == SelectInSeq(t, LAMBDA e : e.mac = m)
IdxOfPort(t, p) == SelectInSeq(t, LAMBDA e : e.if = p)

\* Mutant of Upsert: a client that moves is entered a second time.
UpsertAgain(t, p, m) ==
    IF E(m, p) \in ToSet(t) THEN t
    ELSE IF p \in PortsOf(t) THEN [t EXCEPT ![IdxOfPort(t, p)].mac = m]
    ELSE IF Len(t) >= MaxEntries THEN t ELSE Append(t, E(m, p))

\* upsert_locked: move a known MAC, else replace the port's, else add.
Upsert(t, p, m) ==
    IF m \in MacsOf(t) THEN [t EXCEPT ![IdxOfMac(t, m)].if = p]
    ELSE IF p \in PortsOf(t) THEN [t EXCEPT ![IdxOfPort(t, p)].mac = m]
    ELSE IF Len(t) >= MaxEntries THEN t ELSE Append(t, E(m, p))

\* enforce_one_mac_per_ifname_locked: a port's last entry takes the place of
\* its first.
PutPort(u, e) ==
    IF e.if \in PortsOf(u) THEN [u EXCEPT ![IdxOfPort(u, e.if)] = e] ELSE Append(u, e)
OnePerPort(t) == FoldLeft(PutPort, <<>>, t)

\* The entries of t that are in S, in their order.
KeepIf(S, u, e) == IF e \in S THEN Append(u, e) ELSE u
Kept(t, S) == FoldLeft(LAMBDA u, e : KeepIf(S, u, e), <<>>, t)

\* purge_local_iface_macs_locked and table_purge_orphan_locked.
NotOwn(t) == Kept(t, {e \in ToSet(t) : e.mac \notin Own})
Configured(t, ports) == Kept(t, {e \in ToSet(t) : e.if \in ports})

\* mac_fdb_persist_save_locked: lines seed the merge, memory overrides them,
\* and of the lines memory does not know only those of ports outside the
\* configuration stay.
Seed(l) ==
    LET s == NotOwn(l)
    IN  SubSeq(s, 1, IF Len(s) < MaxEntries THEN Len(s) ELSE MaxEntries)
PutMac(u, e) ==
    IF e.mac \in MacsOf(u) THEN [u EXCEPT ![IdxOfMac(u, e.mac)].if = e.if]
    ELSE IF Len(u) < MaxEntries THEN Append(u, e) ELSE u
Overlay(l, t) == FoldLeft(PutMac, l, t)

\* Mutant of Prune: lines of ports outside the configuration go as well.
PruneAll(l, t, ports) == Kept(l, {e \in ToSet(l) : e.mac \in MacsOf(t)})
Prune(l, t, ports) ==
    Kept(l, {e \in ToSet(l) : e.mac \in MacsOf(t) \/ e.if \notin ports})
Merged(l, t, ports) ==
    IF t = <<>> /\ l # <<>> THEN l ELSE Prune(Overlay(Seed(l), t), t, ports)

\* mac_fdb_persist_load_locked of the lines l into t.  The hash it looks a
\* MAC up with is the one of the table before.
LoadLine(old, u, e) ==
    LET known == \E i \in DOMAIN old : old[i].mac = e.mac /\ u[i].mac = e.mac IN
    IF e.if \in PortsOf(u) THEN [u EXCEPT ![IdxOfPort(u, e.if)].mac = e.mac]
    ELSE IF known \/ Len(u) >= MaxEntries THEN u ELSE Append(u, e)
Usable(l, ports) == Kept(l, {e \in ToSet(l) : e.mac \notin Own /\ e.if \in ports})
LoadLines(t, v) == FoldLeft(LAMBDA u, e : LoadLine(t, u, e), t, v)
Loaded(t, l, ports) == OnePerPort(NotOwn(LoadLines(t, Usable(l, ports))))

-----------------------------------------------------------------------------

MacInit ==
    /\ locals = Port
    /\ table = <<>> /\ log = <<>> /\ saving = {}
    /\ last = [p \in Port |-> None] /\ raced = FALSE

\* mac_lookup: the live port a MAC is behind.
Lookup(m) ==
    IF m \in MacsOf(table) /\ table[IdxOfMac(table, m)].if \in locals
    THEN table[IdxOfMac(table, m)].if ELSE None

\* The history: m is the client of p unless p keeps another entry as well.
Belongs(p, m) ==
    [q \in Port |->
        IF q = p
        THEN IF \E i \in DOMAIN table' : table'[i].if = p /\ table'[i].mac # m
             THEN None ELSE m
        ELSE IF last[q] = m THEN None ELSE last[q]]

\* mac_learn, table_learn: MAC m speaks on port p; thread w will save.
Learn(w, p, m) ==
    /\ w \notin saving
    /\ IF m \in Own THEN UNCHANGED <<table, saving, last>>
       ELSE /\ table' = Upsert(table, p, m)
            /\ saving' = IF table' # table THEN saving \cup {w} ELSE saving
            /\ last' = IF E(m, p) \in ToSet(table') THEN Belongs(p, m) ELSE last
    /\ UNCHANGED <<locals, log, raced>>

\* The learner has the lock again and saves what the table now is.
Save(w) ==
    /\ w \in saving
    /\ log' = Merged(log, table, locals)
    /\ saving' = saving \ {w}
    /\ UNCHANGED <<locals, table, last, raced>>

\* mac_learn_restore of a table t with the ports of the configuration: what
\* it loads it also saves.
Restored(t, l, ports) ==
    /\ table' = Loaded(t, l, ports)
    /\ log' = IF Usable(l, ports) = <<>> THEN l ELSE Merged(l, table', ports)

\* A hot reload leaves the ports as they are and merges the log again; a
\* change that is not saved yet may give way to the log's older line.
Reload ==
    /\ Restored(table, log, locals)
    /\ raced' = (raced \/ saving # {})
    /\ UNCHANGED <<locals, saving, last>>

\* forwarder_cleanup and forwarder_init: the ports may change.
Restart ==
    /\ saving = {}
    /\ \E ports \in (SUBSET Port) \ {{}} :
         /\ locals' = ports
         /\ Restored(<<>>, Merged(log, table, locals), ports)
    /\ UNCHANGED <<saving, last, raced>>

\* The process dies and starts again on the same configuration; a change that
\* was not saved is lost with it.
Crash ==
    /\ Restored(<<>>, log, locals)
    /\ saving' = {}
    /\ last' = [p \in Port |-> IF saving = {} THEN last[p] ELSE None]
    /\ UNCHANGED <<locals, raced>>

\* mac_learn_tick, from the maintenance of TX slot 0.
Tick ==
    /\ table' = Configured(table, locals)
    /\ UNCHANGED <<locals, log, saving, last, raced>>

-----------------------------------------------------------------------------
(* Properties. *)

\* No MAC is behind two ports at once, in memory or in the log: table_lookup
\* takes the first entry its hash chain meets.  (A reload that comes before an
\* unsaved change is saved can break it; see raced.)
OnePlace ==
    ~raced => \A s \in {table, log} :
        \A i, j \in DOMAIN s : i # j => s[i].mac # s[j].mac

\* A port does not lose its client: through saves, reloads, crashes and
\* restarts that drop the port and bring it back, the client that last spoke
\* there is found again (mac_fdb_persist_save_locked, ..._load_locked).
Remembered ==
    saving = {} /\ ~raced =>
        \A p \in Port : last[p] # None =>
            E(last[p], p) \in ToSet(IF p \in locals THEN table ELSE log)
=============================================================================
