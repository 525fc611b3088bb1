----------------------------- MODULE Fragments -----------------------------
(***************************************************************************)
(* Split UDP datagrams (src/crypto/pqc/pqc_l2_option.c): the numbers both  *)
(* halves carry in their shim, and the table in which a worker of the      *)
(* receiver waits for the other half.  A half is its datagram's identity;  *)
(* encryption is taken as perfect, so the shim arrives as it was written.  *)
(***************************************************************************)
EXTENDS Naturals, FiniteSets, FiniteSetsExt

CONSTANTS
    TableSize,   \* OPT_FRAG_TABLE_SIZE
    Probe        \* slots opt_pick_slot looks at

ASSUME FragAssumption ==
    /\ TableSize \in Nat \ {0}
    /\ Probe \in 1 .. TableSize

FragSlot == 0 .. TableSize - 1
NoHalf == "none"

\* opt_clear_entry
Cleared ==
    [epoch |-> 0, dg |-> 0, seq |-> 0, first |-> NoHalf, second |-> NoHalf,
     old |-> FALSE, age |-> 0]

Occupied(e) == e.first # NoHalf \/ e.second # NoHalf

\* Wire parts of a datagram: kind FULL, or FRAG0 and FRAG1.
Parts(big) == IF big THEN {"first", "second"} ELSE {"full"}

\* The i-th slot the search visits.
At(p, i) == ((p.epoch + p.dg) + i) % TableSize
Window(p) == {At(p, i) : i \in 0 .. Probe - 1}

\* opt_pick_slot drops what timed out on its way.
Swept(t, p) ==
    [s \in FragSlot |-> IF s \in Window(p) /\ t[s].old THEN Cleared ELSE t[s]]

\* opt_pick_slot: the entry of this datagram, else the first empty slot, else
\* the one that has waited longest.
PickSlot(t, p) ==
    LET mine == {i \in 0 .. Probe - 1 : LET e == t[At(p, i)] IN
                   Occupied(e) /\ e.epoch = p.epoch /\ e.dg = p.dg}
        empty == {i \in 0 .. Probe - 1 : ~Occupied(t[At(p, i)])}
        oldest == {i \in 0 .. Probe - 1 :
                     \A j \in 0 .. Probe - 1 : t[At(p, j)].age <= t[At(p, i)].age}
    IN At(p, Min(IF mine # {} THEN mine ELSE IF empty # {} THEN empty ELSE oldest))

\* Mutant of Prepare: an entry found by its datagram number is kept as it is.
PrepareKeep(e, p) ==
    [e EXCEPT !.epoch = p.epoch, !.dg = p.dg, !.seq = p.seq, !.age = 0]

\* opt_prepare_entry: an entry of something else starts afresh.
Prepare(e, p) ==
    LET same == e.epoch = p.epoch /\ e.dg = p.dg /\ e.seq = p.seq /\ ~e.old
    IN [(IF same THEN e ELSE Cleared) EXCEPT
          !.epoch = p.epoch, !.dg = p.dg, !.seq = p.seq, !.age = 0]

\* opt_store_first and opt_store_second
Store(e, p) ==
    IF p.part = "first" THEN [Prepare(e, p) EXCEPT !.first = p.id]
    ELSE [Prepare(e, p) EXCEPT !.second = p.id]

Whole(e) == e.first # NoHalf /\ e.second # NoHalf

\* l2_reassemble: the entry with the half stored.
Filled(t, p) == Store(Swept(t, p)[PickSlot(Swept(t, p), p)], p)

\* The table afterwards: the time stamps of the others are one step older,
\* and opt_emit_join empties the entry it joins.
Reassembled(t, p) ==
    LET swept == Swept(t, p)
        slot == PickSlot(swept, p)
        e == Filled(t, p)
    IN [s \in FragSlot |->
          IF s = slot THEN (IF Whole(e) THEN Cleared ELSE e)
          ELSE IF Occupied(swept[s])
               THEN [swept[s] EXCEPT !.age = Min({@ + 1, TableSize})]
               ELSE swept[s]]

\* opt_frag_gc_table, over the slices that make up the table.
Collected(t) == [s \in FragSlot |-> IF t[s].old THEN Cleared ELSE t[s]]

\* More than OPT_FRAG_TIMEOUT_NS passes.
Aged(t) == [s \in FragSlot |-> IF Occupied(t[s]) THEN [t[s] EXCEPT !.old = TRUE]
                               ELSE t[s]]
=============================================================================
