-------------------------- MODULE UdpReorderProofs --------------------------
(* Proofs about the UDP reorder buffer, for every size of its table,       *)
(* window and cap and every set of keys, epochs and frames.                *)
EXTENDS UdpReorder, Integers, FiniteSetsExt, FiniteSetTheorems, SequenceTheorems,
        WellFoundedInduction, TLAPS

FlowRec == [valid : BOOLEAN, key : Keys \cup {NoKey}, epoch : Nat,
            next : Seq32, gap : {NoGap} \cup 0..Hold,
            seen : 0..(Idle + 1), held : Nat]

SlotRec == [valid : BOOLEAN, seq : Seq32, item : Frames \cup {NoFrame}]

(***************************************************************************)
(* Some naturals have a least one, and Min of the community modules is it. *)
(***************************************************************************)

LEMMA LeastNat ==
  ASSUME NEW T, T \subseteq Nat, T # {}
  PROVE  \E m \in T : \A k \in T : m <= k
<1> DEFINE R == OpToRel(<, Nat)
<1>1. IsWellFoundedOn(R, Nat) /\ R = {s \in Nat \X Nat : s[1] < s[2]}
  BY NatLessThanWellFounded, Zenon DEF OpToRel
<1> HIDE DEF R
<1>2. PICK m \in T : \A k \in T : <<k, m>> \notin R
  BY <1>1, WFMin
<1>3. \A k \in T : ~(k < m)
  BY <1>1, <1>2
<1> QED
  BY <1>2, <1>3

LEMMA MinIsLeast ==
  ASSUME NEW T, T \subseteq Nat, T # {}
  PROVE  Min(T) \in T /\ \A y \in T : Min(T) <= y
BY LeastNat DEF Min

(***************************************************************************)
(* Arithmetic and cardinalities.                                           *)
(***************************************************************************)

(* The sizes, one fact each.                                               *)
LEMMA Sizes ==
  /\ SeqMod \in Nat \ {0} /\ Window \in Nat \ {0} /\ Ways \in Nat \ {0}
  /\ Hold \in Nat \ {0} /\ Idle \in Nat \ {0} /\ Backtrack \in Nat
  /\ HeldCap \in Nat \ {0} /\ GcSlice \in Nat
  /\ 0 \in Flow /\ 0 \in Seq32 /\ NoFrame \notin Frames
BY SizesAssumption, SetsAssumption DEF Flow, Seq32

(* A remainder is within its modulus.                                      *)
LEMMA ModRange ==
  ASSUME NEW a \in Int, NEW n \in Nat \ {0} PROVE a % n \in 0..(n - 1)
OBVIOUS

(* uint32_t addition stays a uint32_t, and its slot is a slot.             *)
LEMMA SeqAddType ==
  ASSUME NEW s \in Int, NEW n \in Int
  PROVE  SeqAdd(s, n) \in Seq32
BY Sizes, ModRange DEF SeqAdd, Seq32

(* The slot of a seq, seq mod the window.                                 *)
LEMMA SlotOfSeq == ASSUME NEW s \in Seq32 PROVE s % Window \in Idx
BY Sizes, ModRange DEF Seq32, Idx

(* Slots and pairs of entry and slot are finite in number.                 *)
LEMMA FiniteIdx ==
  /\ IsFiniteSet(Idx) /\ IsFiniteSet(Flow) /\ IsFiniteSet(Flow \X Idx)
<1>1. IsFiniteSet(Idx) /\ IsFiniteSet(Flow)
  BY Sizes, FS_Interval DEF Idx, Flow
<1> QED BY <1>1, FS_Product

(* A set of slots has a size.                                              *)
LEMMA CardIdx ==
  ASSUME NEW I \in SUBSET Idx
  PROVE  IsFiniteSet(I) /\ Cardinality(I) \in Nat
BY FiniteIdx, FS_Subset, FS_CardinalityType

(* Emptying a set of occupied slots takes its size off the count.          *)
LEMMA CardMinus ==
  ASSUME NEW S, IsFiniteSet(S), NEW T \in SUBSET S
  PROVE  /\ Monus(Cardinality(S), Cardinality(T)) = Cardinality(S \ T)
         /\ Cardinality(T) \in Nat /\ Cardinality(S \ T) \in Nat
         /\ Cardinality(S \ T) <= Cardinality(S)
<1>1. IsFiniteSet(T) /\ Cardinality(T) <= Cardinality(S)
  BY FS_Subset
<1>2. S \cap T = T
  OBVIOUS
<1>3. Cardinality(S \ T) = Cardinality(S) - Cardinality(T)
  BY <1>2, FS_Difference
<1> QED BY <1>1, <1>3, FS_CardinalityType DEF Monus

(* The guarded decrement of the counters never goes below zero.            *)
LEMMA MonusType == ASSUME NEW a \in Nat, NEW b \in Nat PROVE Monus(a, b) \in Nat
BY DEF Monus

(* Slots of one entry count the same as pairs.                             *)
LEMMA CardOneEntry ==
  ASSUME NEW f \in Flow, NEW I \in SUBSET Idx
  PROVE  Cardinality({f} \X I) = Cardinality(I)
<1>1. IsFiniteSet({f}) /\ Cardinality({f}) = 1
  BY FS_Singleton
<1>2. Cardinality({f} \X I) = 1 * Cardinality(I)
  BY <1>1, CardIdx, FS_Product
<1> QED BY <1>2, CardIdx

(***************************************************************************)
(* The helpers keep the types; what they emit are occupied slots.          *)
(***************************************************************************)

(* What flow_flush_contiguous emits are occupied slots.                    *)
LEMMA RunFacts ==
  ASSUME NEW sl \in [Idx -> SlotRec], NEW s \in Seq32
  PROVE  /\ RunIdx(sl, s) \in SUBSET ValidIdx(sl)
         /\ RunIdx(sl, s) \in SUBSET Idx
         /\ Cardinality(Run(sl, s)) \in Nat
         /\ RunSeqs(sl, s) \in Seq(Seq32)
<1>1. Run(sl, s) \in SUBSET Idx
  BY DEF Run
<1>2. Cardinality(Run(sl, s)) \in Nat
  BY <1>1, CardIdx
<1>3. ASSUME NEW k \in Run(sl, s) PROVE SeqAdd(s, k) % Window \in ValidIdx(sl)
  <2>1. k \in Nat /\ k \in 0..k
    BY <1>1 DEF Idx
  <2>2. SeqAdd(s, k) \in Seq32
    BY <2>1, SeqAddType DEF Seq32
  <2>3. sl[SeqAdd(s, k) % Window].valid
    BY <2>1 DEF Run
  <2> QED BY <2>2, <2>3, SlotOfSeq DEF ValidIdx
<1>4. RunIdx(sl, s) \in SUBSET ValidIdx(sl)
  BY <1>3 DEF RunIdx
<1>5. RunSeqs(sl, s) \in [1..Cardinality(Run(sl, s)) -> Seq32]
  <2>1. s \in Int
    BY DEF Seq32
  <2>2. \A k \in 1..Cardinality(Run(sl, s)) : SeqAdd(s, k - 1) \in Seq32
    BY <1>2, <2>1, SeqAddType
  <2> QED BY <2>2 DEF RunSeqs
<1>6. RunSeqs(sl, s) \in Seq(Seq32)
  BY <1>2, <1>5, SeqDef
<1> QED BY <1>2, <1>4, <1>6 DEF ValidIdx

(* flow_flush_contiguous keeps an entry well formed and takes exactly the  *)
(* slots it empties off held.                                              *)
LEMMA FlushedFacts ==
  ASSUME NEW fl \in FlowRec, NEW sl \in [Idx -> SlotRec], NEW s \in Seq32
  PROVE  /\ Flushed(fl, sl, s) \in FlowRec
         /\ Flushed(fl, sl, s).held = Monus(fl.held, Cardinality(RunIdx(sl, s)))
         /\ Flushed(fl, sl, s).valid = fl.valid
<1> DEFINE h == Monus(fl.held, Cardinality(RunIdx(sl, s)))
<1> DEFINE n == SeqAdd(s, Cardinality(Run(sl, s)))
<1>1. h \in Nat
  <2>1. Cardinality(RunIdx(sl, s)) \in Nat
    BY RunFacts, CardIdx
  <2> QED BY <2>1, MonusType DEF FlowRec
<1>2. n \in Seq32
  <2>1. s \in Int /\ Cardinality(Run(sl, s)) \in Int
    BY RunFacts DEF Seq32
  <2> QED BY <2>1, SeqAddType
<1>3. Flushed(fl, sl, s) =
        [fl EXCEPT !.next = n, !.held = h, !.gap = IF h > 0 THEN @ ELSE NoGap]
  BY DEF Flushed
<1> HIDE DEF h, n
<1>4. Flushed(fl, sl, s) \in FlowRec /\ Flushed(fl, sl, s).held = h
      /\ Flushed(fl, sl, s).valid = fl.valid
  BY <1>1, <1>2, <1>3 DEF FlowRec
<1> QED BY <1>4 DEF h

(* flow_skip_gap does too, and emits only occupied slots.                  *)
LEMMA SkipFacts ==
  ASSUME NEW fl \in FlowRec, NEW sl \in [Idx -> SlotRec]
  PROVE  /\ SkipFlow(fl, sl) \in FlowRec
         /\ SkipFlow(fl, sl).held = Monus(fl.held, Cardinality(SkipIdx(fl, sl)))
         /\ SkipFlow(fl, sl).valid = fl.valid
         /\ SkipIdx(fl, sl) \in SUBSET ValidIdx(sl)
         /\ SkipIdx(fl, sl) \in SUBSET Idx
         /\ SkipSeqs(fl, sl) \in Seq(Seq32)
<1>1. CASE SmallestAhead(fl, sl) = {}
  <2>1. SkipFlow(fl, sl) = [fl EXCEPT !.gap = NoGap] /\ SkipIdx(fl, sl) = {}
        /\ SkipSeqs(fl, sl) = << >>
    BY <1>1 DEF SkipFlow, SkipIdx, SkipSeqs
  <2>2. Monus(fl.held, 0) = fl.held
    BY DEF Monus, FlowRec
  <2>3. SkipFlow(fl, sl) \in FlowRec /\ SkipFlow(fl, sl).held = fl.held
        /\ SkipFlow(fl, sl).valid = fl.valid
    BY <2>1 DEF FlowRec
  <2> QED BY <2>1, <2>2, <2>3, FS_EmptySet, EmptySeq
<1>2. CASE SmallestAhead(fl, sl) # {}
  <2> DEFINE s == SkipTo(fl, sl)
  <2> DEFINE g == Flushed(fl, sl, s)
  <2>1. s \in SmallestAhead(fl, sl)
    BY <1>2 DEF SkipTo
  <2>2. SmallestAhead(fl, sl) \subseteq Seq32
    BY DEF SmallestAhead, ValidIdx, SlotRec
  <2>3. s \in Seq32
    BY <2>1, <2>2
  <2>4. SkipIdx(fl, sl) = RunIdx(sl, s) /\ SkipSeqs(fl, sl) = RunSeqs(sl, s)
    BY <1>2 DEF SkipIdx, SkipSeqs
  <2>5. SkipFlow(fl, sl) =
          [g EXCEPT !.gap = IF g.held > 0 THEN Least(fl.seen, Hold) ELSE @]
    BY <1>2 DEF SkipFlow
  <2> HIDE DEF s
  <2>6. g \in FlowRec /\ g.held = Monus(fl.held, Cardinality(RunIdx(sl, s)))
        /\ g.valid = fl.valid
    BY <2>3, FlushedFacts
  <2>7. Least(fl.seen, Hold) \in 0..Hold
    BY Sizes DEF Least, FlowRec
  <2> HIDE DEF g
  <2>8. SkipFlow(fl, sl) \in FlowRec /\ SkipFlow(fl, sl).held = g.held
        /\ SkipFlow(fl, sl).valid = g.valid
    BY <2>5, <2>6, <2>7 DEF FlowRec
  <2> QED BY <2>3, <2>4, <2>6, <2>8, RunFacts
<1> QED BY <1>1, <1>2

(* Emptying slots leaves slots.                                            *)
LEMMA ClearFacts ==
  ASSUME NEW sl \in [Idx -> SlotRec], NEW I \in SUBSET ValidIdx(sl)
  PROVE  /\ Clear(sl, I) \in [Idx -> SlotRec]
         /\ ValidIdx(Clear(sl, I)) = ValidIdx(sl) \ I
         /\ \A i \in Idx \ I : Clear(sl, I)[i] = sl[i]
         /\ \A i \in I : ~Clear(sl, I)[i].valid
BY Sizes DEF Clear, EmptySlot, ValidIdx, SlotRec

(* The history of what was emitted stays well formed.                      *)
LEMMA EmitsType ==
  ASSUME TypeOK, NEW o \in [Flow -> Seq(Seq32)], Emits(o)
  PROVE  out' \in [Flow -> Seq(Seq32)] /\ last' \in [Flow -> Seq32 \cup {NoSeq}]
<1>1. ASSUME NEW f \in Flow, o[f] # << >> PROVE o[f][Len(o[f])] \in Seq32
  <2>1. o[f] \in Seq(Seq32) /\ Len(o[f]) \in Nat \ {0}
    BY <1>1, EmptySeq
  <2> QED BY <2>1, ElementOfSeq
<1>2. last \in [Flow -> Seq32 \cup {NoSeq}]
  BY DEF TypeOK
<1> QED BY <1>1, <1>2 DEF Emits

(* A step that emits nothing.                                              *)
LEMMA QuietType == Quiet \in [Flow -> Seq(Seq32)]
BY EmptySeq DEF Quiet

(* ... and keeps the history.                                              *)
LEMMA SilentType ==
  ASSUME TypeOK, Silent
  PROVE  out' \in [Flow -> Seq(Seq32)] /\ last' \in [Flow -> Seq32 \cup {NoSeq}]
BY QuietType DEF TypeOK, Silent

(***************************************************************************)
(* Emptying occupied slots, J[f] of entry f: the counts go down by as many *)
(* as are emptied, and the frames that stay are the ones not emptied.      *)
(***************************************************************************)

Distinct ==
  \A p, q \in HeldAt : slots[p[1]][p[2]].item = slots[q[1]][q[2]].item => p = q

Pairs(J) == {p \in Flow \X Idx : p[2] \in J[p[1]]}

ItemsOf(C) == {slots[p[1]][p[2]].item : p \in C}

(* Emptying J (see above).                                                 *)
LEMMA ClearMany ==
  ASSUME TypeOK, HeldCounts,
         NEW J \in [Flow -> SUBSET Idx],
         \A f \in Flow : J[f] \subseteq ValidIdx(slots[f]),
         slots' = [f \in Flow |-> Clear(slots[f], J[f])]
  PROVE  /\ slots' \in [Flow -> [Idx -> SlotRec]]
         /\ HeldAt' = HeldAt \ Pairs(J)
         /\ \A p \in HeldAt' : slots'[p[1]][p[2]] = slots[p[1]][p[2]]
         /\ \A f \in Flow :
              Monus(flows[f].held, Cardinality(J[f])) = Cardinality(ValidIdx(slots'[f]))
         /\ Monus(held, Cardinality(Pairs(J))) = Cardinality(HeldAt')
         /\ Cardinality(HeldAt') <= held
         /\ Distinct => Distinct' /\ HeldItems' = HeldItems \ ItemsOf(Pairs(J))
<1>1. slots \in [Flow -> [Idx -> SlotRec]]
  BY DEF TypeOK, SlotRec
<1>2. \A f \in Flow :
        /\ slots'[f] = Clear(slots[f], J[f])
        /\ slots'[f] \in [Idx -> SlotRec]
        /\ ValidIdx(slots'[f]) = ValidIdx(slots[f]) \ J[f]
        /\ \A i \in Idx \ J[f] : slots'[f][i] = slots[f][i]
        /\ \A i \in J[f] : ~slots'[f][i].valid
  BY <1>1, ClearFacts
<1>3. slots' \in [Flow -> [Idx -> SlotRec]]
  BY <1>2
<1>4. HeldAt' = HeldAt \ Pairs(J) /\ Pairs(J) \subseteq HeldAt
  BY <1>1, <1>2 DEF HeldAt, Pairs, ValidIdx
<1>5. \A p \in HeldAt' : slots'[p[1]][p[2]] = slots[p[1]][p[2]]
  BY <1>2, <1>4 DEF HeldAt, Pairs
<1>6. ASSUME NEW f \in Flow
      PROVE  Monus(flows[f].held, Cardinality(J[f])) = Cardinality(ValidIdx(slots'[f]))
  <2>1. IsFiniteSet(ValidIdx(slots[f]))
    BY CardIdx DEF ValidIdx
  <2>2. J[f] \in SUBSET ValidIdx(slots[f])
    OBVIOUS
  <2> QED BY <2>1, <2>2, <1>2, CardMinus DEF HeldCounts
<1>7. IsFiniteSet(HeldAt)
  BY FiniteIdx, FS_Subset DEF HeldAt
<1>8. /\ Monus(held, Cardinality(Pairs(J))) = Cardinality(HeldAt')
      /\ Cardinality(HeldAt') <= held
  BY <1>4, <1>7, CardMinus DEF HeldCounts
<1>9. ASSUME Distinct
      PROVE  Distinct' /\ HeldItems' = HeldItems \ ItemsOf(Pairs(J))
  <2>1. Distinct'
    BY <1>4, <1>5, <1>9 DEF Distinct
  <2>2. HeldItems' = {slots[p[1]][p[2]].item : p \in HeldAt \ Pairs(J)}
    BY <1>4, <1>5 DEF HeldItems
  <2>3. {slots[p[1]][p[2]].item : p \in HeldAt \ Pairs(J)}
          = HeldItems \ ItemsOf(Pairs(J))
    BY <1>4, <1>9 DEF HeldItems, ItemsOf, Distinct
  <2> QED BY <2>1, <2>2, <2>3
<1> QED BY <1>3, <1>4, <1>5, <1>6, <1>8, <1>9

(* The same for the slots I of one entry.                                  *)
LEMMA ClearOne ==
  ASSUME TypeOK, HeldCounts,
         NEW f \in Flow, NEW I \in SUBSET ValidIdx(slots[f]),
         slots' = [slots EXCEPT ![f] = Clear(slots[f], I)]
  PROVE  /\ slots' \in [Flow -> [Idx -> SlotRec]]
         /\ HeldAt' \subseteq HeldAt
         /\ \A p \in HeldAt' : slots'[p[1]][p[2]] = slots[p[1]][p[2]]
         /\ Monus(flows[f].held, Cardinality(I)) = Cardinality(ValidIdx(slots'[f]))
         /\ \A g \in Flow \ {f} : slots'[g] = slots[g]
         /\ Monus(held, Cardinality(I)) = Cardinality(HeldAt')
         /\ Cardinality(HeldAt') <= held
         /\ Distinct => Distinct' /\ HeldItems' = HeldItems \ ItemsAt(slots[f], I)
<1> DEFINE J == [g \in Flow |-> IF g = f THEN I ELSE {}]
<1>1. I \in SUBSET Idx
  BY DEF ValidIdx
<1>2. J \in [Flow -> SUBSET Idx] /\ \A g \in Flow : J[g] \subseteq ValidIdx(slots[g])
  BY <1>1
<1>3. slots \in [Flow -> [Idx -> SlotRec]]
  BY DEF TypeOK, SlotRec
<1>4. ASSUME NEW g \in Flow PROVE Clear(slots[g], {}) = slots[g]
  BY <1>3 DEF Clear
<1>5. slots' = [g \in Flow |-> Clear(slots[g], J[g])]
  BY <1>3, <1>4
<1>6. Pairs(J) = {f} \X I
  BY <1>1 DEF Pairs
<1>7. Cardinality(Pairs(J)) = Cardinality(I)
  BY <1>1, <1>6, CardOneEntry
<1>8. ItemsOf(Pairs(J)) = ItemsAt(slots[f], I)
  <2>1. ASSUME NEW p \in {f} \X I PROVE slots[p[1]][p[2]].item \in ItemsAt(slots[f], I)
    BY DEF ItemsAt
  <2>2. ASSUME NEW i \in I PROVE slots[f][i].item \in ItemsOf({f} \X I)
    <3>1. <<f, i>> \in {f} \X I /\ <<f, i>>[1] = f /\ <<f, i>>[2] = i
      OBVIOUS
    <3> QED BY <3>1 DEF ItemsOf
  <2> QED BY <1>6, <2>1, <2>2 DEF ItemsOf, ItemsAt
<1>9. J[f] = I
  OBVIOUS
<1>10. \A g \in Flow \ {f} : slots'[g] = slots[g]
  BY <1>3
<1> HIDE DEF J
<1> QED BY <1>2, <1>5, <1>7, <1>8, <1>9, <1>10, ClearMany

(***************************************************************************)
(* The inductive invariant.  UnusedHoldsNothing is what makes flow_reset   *)
(* right to skip flow_drop_slots for an unused entry; BusyEntry, that the  *)
(* entry of the running call stays in use, is what keeps it.               *)
(***************************************************************************)

UnusedHoldsNothing == \A f \in Flow : flows[f].valid \/ flows[f].held = 0

BusyEntry == pc # "idle" => flows[cur.flow].valid

IInv ==
  TypeOK /\ HeldCounts /\ HeldBounded /\ Ownership /\ UnusedHoldsNothing /\ BusyEntry

(* What every step has to keep of the table and the counters.              *)
TableOK ==
  /\ flows \in [Flow -> FlowRec]
  /\ slots \in [Flow -> [Idx -> SlotRec]]
  /\ held \in Nat
  /\ HeldCounts /\ HeldBounded /\ UnusedHoldsNothing /\ Distinct

(* The part of the invariant that is about the table.                      *)
LEMMA IInvTable == IInv => TableOK
BY DEF IInv, TableOK, TypeOK, FlowRec, SlotRec, Ownership, Distinct

HistoryOK ==
  out \in [Flow -> Seq(Seq32)] /\ last \in [Flow -> Seq32 \cup {NoSeq}]

(* A step that empties the slots I of entry f and leaves it with that many *)
(* fewer held keeps the table.                                             *)
LEMMA TableClearOne ==
  ASSUME IInv, NEW f \in Flow, NEW I \in SUBSET ValidIdx(slots[f]),
         NEW g \in FlowRec,
         g.held = Monus(flows[f].held, Cardinality(I)), g.valid \/ ~flows[f].valid,
         flows' = [flows EXCEPT ![f] = g],
         slots' = [slots EXCEPT ![f] = Clear(slots[f], I)],
         held' = Monus(held, Cardinality(I))
  PROVE  /\ TableOK'
         /\ HeldItems' = HeldItems \ ItemsAt(slots[f], I)
         /\ \A p \in HeldAt' : slots'[p[1]][p[2]] = slots[p[1]][p[2]] /\ p \in HeldAt
<1>1. TypeOK /\ HeldCounts /\ TableOK
  BY IInvTable DEF IInv
<1>2. /\ slots' \in [Flow -> [Idx -> SlotRec]]
      /\ HeldAt' \subseteq HeldAt
      /\ \A p \in HeldAt' : slots'[p[1]][p[2]] = slots[p[1]][p[2]]
      /\ Monus(flows[f].held, Cardinality(I)) = Cardinality(ValidIdx(slots'[f]))
      /\ \A h \in Flow \ {f} : slots'[h] = slots[h]
      /\ Monus(held, Cardinality(I)) = Cardinality(HeldAt')
      /\ Cardinality(HeldAt') <= held
      /\ Distinct' /\ HeldItems' = HeldItems \ ItemsAt(slots[f], I)
  BY <1>1, ClearOne DEF TableOK
<1>3. Cardinality(I) \in Nat /\ flows[f].held \in Nat
  BY <1>1, CardIdx DEF ValidIdx, TableOK, FlowRec
<1>4. held' \in Nat
  BY <1>1, <1>3, MonusType DEF TableOK
<1>5. flows' \in [Flow -> FlowRec]
  BY <1>1 DEF TableOK
<1>6. HeldBounded'
  BY <1>1, <1>2, <1>4, Sizes DEF TableOK, HeldBounded
<1>7. UnusedHoldsNothing'
  <2>1. ~flows[f].valid => g.held = 0
    BY <1>1, <1>3 DEF TableOK, UnusedHoldsNothing, Monus
  <2> QED BY <1>1, <2>1 DEF TableOK, UnusedHoldsNothing
<1>8. HeldCounts'
  <2>1. \A h \in Flow : flows'[h].held = Cardinality(ValidIdx(slots'[h]))
    BY <1>1, <1>2 DEF TableOK, HeldCounts
  <2> QED BY <1>2, <2>1 DEF HeldCounts
<1> QED BY <1>2, <1>4, <1>5, <1>6, <1>7, <1>8 DEF TableOK

(* flow_skip_gap, called by a step that keeps the call's arguments.        *)
LEMMA SkipGapStep ==
  ASSUME IInv, NEW f \in Flow, SkipGap(f)
  PROVE  /\ TableOK' /\ HistoryOK'
         /\ flows'[f].valid = flows[f].valid
         /\ owned' = owned \ (HeldItems \ HeldItems')
         /\ HeldItems' \subseteq HeldItems
         /\ \A p \in HeldAt' : slots'[p[1]][p[2]] = slots[p[1]][p[2]] /\ p \in HeldAt
<1> DEFINE I == SkipIdx(flows[f], slots[f])
<1>1. TypeOK /\ HeldCounts /\ TableOK
  BY IInvTable DEF IInv
<1>2. flows[f] \in FlowRec /\ slots[f] \in [Idx -> SlotRec]
  BY <1>1 DEF TableOK
<1>3. /\ SkipFlow(flows[f], slots[f]) \in FlowRec
      /\ SkipFlow(flows[f], slots[f]).held = Monus(flows[f].held, Cardinality(I))
      /\ SkipFlow(flows[f], slots[f]).valid = flows[f].valid
      /\ I \in SUBSET ValidIdx(slots[f])
      /\ SkipSeqs(flows[f], slots[f]) \in Seq(Seq32)
  BY <1>2, SkipFacts
<1>4. /\ flows' = [flows EXCEPT ![f] = SkipFlow(flows[f], slots[f])]
      /\ slots' = [slots EXCEPT ![f] = Clear(slots[f], I)]
      /\ held' = Monus(held, Cardinality(I))
      /\ owned' = owned \ ItemsAt(slots[f], I)
      /\ Emits([Quiet EXCEPT ![f] = SkipSeqs(flows[f], slots[f])])
  BY DEF SkipGap
<1> HIDE DEF I
<1>5. /\ TableOK'
      /\ HeldItems' = HeldItems \ ItemsAt(slots[f], I)
      /\ \A p \in HeldAt' : slots'[p[1]][p[2]] = slots[p[1]][p[2]] /\ p \in HeldAt
  BY <1>3, <1>4, TableClearOne
<1>6. ItemsAt(slots[f], I) \subseteq HeldItems
  <2>1. ASSUME NEW i \in I PROVE slots[f][i].item \in HeldItems
    <3>1. <<f, i>> \in HeldAt /\ <<f, i>>[1] = f /\ <<f, i>>[2] = i
      BY <1>3 DEF HeldAt, ValidIdx
    <3> QED BY <3>1 DEF HeldItems
  <2> QED BY <2>1 DEF ItemsAt
<1>7. [Quiet EXCEPT ![f] = SkipSeqs(flows[f], slots[f])] \in [Flow -> Seq(Seq32)]
  BY <1>3, QuietType
<1>8. HistoryOK'
  BY <1>1, <1>4, <1>7, EmitsType DEF HistoryOK
<1>9. flows'[f].valid = flows[f].valid
  BY <1>1, <1>3, <1>4 DEF TableOK
<1> QED BY <1>4, <1>5, <1>6, <1>8, <1>9

(***************************************************************************)
(* The invariant in sets, and how it is put together after a step.         *)
(***************************************************************************)

OwnedBy(held_, hand) ==
  owned = hand \cup held_ /\ held_ \cap hand = {} /\ NoFrame \notin held_

(* Ownership, as a partition of the owned frames.                          *)
LEMMA OwnershipSets ==
  Ownership => /\ OwnedBy(HeldItems, InHand)
               /\ pc # "idle" => cur.item # NoFrame
BY DEF Ownership, OwnedBy, HeldItems

(* The parts of the invariant, put together.                               *)
LEMMA Assemble ==
  ASSUME TableOK', HistoryOK',
         older' \subseteq Flow \X Flow, gcCursor' \in Flow, cryptoOn' \in BOOLEAN,
         pc' \in {"idle", "expire", "delta", "room", "recheck", "capped"},
         cur' \in [flow : Flow, seq : Seq32, item : Frames \cup {NoFrame}],
         owned' \subseteq Frames,
         OwnedBy(HeldItems, InHand)', (pc # "idle" => cur.item # NoFrame)',
         BusyEntry'
  PROVE  IInv'
<1>1. TypeOK'
  BY DEF TypeOK, TableOK, HistoryOK, FlowRec, SlotRec
<1>2. Ownership'
  BY DEF TableOK, Distinct, Ownership, OwnedBy, HeldItems
<1> QED BY <1>1, <1>2 DEF IInv, TableOK

(* A step that leaves the slots alone and keeps held and valid of every    *)
(* entry keeps the table.                                                  *)
LEMMA TableSame ==
  ASSUME IInv, UNCHANGED <<slots, held>>, flows' \in [Flow -> FlowRec],
         \A f \in Flow : flows'[f].held = flows[f].held /\ flows'[f].valid = flows[f].valid
  PROVE  TableOK' /\ HeldItems' = HeldItems
<1>1. TableOK
  BY IInvTable
<1>2. HeldAt' = HeldAt
  BY DEF HeldAt
<1>3. HeldItems' = HeldItems
  BY <1>2 DEF HeldItems
<1>4. Distinct'
  BY <1>1, <1>2 DEF TableOK, Distinct
<1>5. HeldCounts'
  BY <1>1, <1>2 DEF TableOK, HeldCounts
<1>6. HeldBounded' /\ UnusedHoldsNothing'
  BY <1>1 DEF TableOK, HeldBounded, UnusedHoldsNothing
<1> QED BY <1>1, <1>3, <1>4, <1>5, <1>6 DEF TableOK

(* The arguments of the running call.                                      *)
LEMMA CurTypes ==
  ASSUME IInv
  PROVE  /\ cur.flow \in Flow /\ cur.seq \in Seq32 /\ CurIdx \in Idx
         /\ flows[cur.flow] \in FlowRec /\ slots[cur.flow] \in [Idx -> SlotRec]
         /\ owned \subseteq Frames /\ HeldItems \subseteq owned
         /\ OwnedBy(HeldItems, InHand)
         /\ pc # "idle" => cur.item \in Frames /\ InHand = {cur.item}
<1>1. TypeOK /\ TableOK /\ Ownership
  BY IInvTable DEF IInv
<1>2. cur.flow \in Flow /\ cur.seq \in Seq32 /\ cur.item \in Frames \cup {NoFrame}
      /\ owned \subseteq Frames
  BY <1>1 DEF TypeOK
<1>3. OwnedBy(HeldItems, InHand) /\ (pc # "idle" => cur.item # NoFrame)
  BY <1>1, OwnershipSets
<1>4. CurIdx \in Idx
  BY <1>2, SlotOfSeq DEF CurIdx
<1> QED BY <1>1, <1>2, <1>3, <1>4 DEF TableOK, OwnedBy, InHand

(* No call is running.                                                     *)
LEMMA NoCallType ==
  NoCall \in [flow : Flow, seq : Seq32, item : Frames \cup {NoFrame}]
BY Sizes DEF NoCall

(***************************************************************************)
(* One lemma per action.                                                   *)
(***************************************************************************)

(* A step of the call that skips the gap of its entry.                     *)
LEMMA SkipActionInv ==
  ASSUME IInv, pc # "idle", SkipGap(cur.flow),
         pc' \in {"delta", "room", "capped"},
         UNCHANGED <<older, gcCursor, cryptoOn, cur>>
  PROVE  IInv'
<1>1. TypeOK
  BY DEF IInv
<1>2. /\ TableOK' /\ HistoryOK'
      /\ flows'[cur.flow].valid = flows[cur.flow].valid
      /\ owned' = owned \ (HeldItems \ HeldItems')
      /\ HeldItems' \subseteq HeldItems
  BY CurTypes, SkipGapStep
<1>3. InHand' = {cur.item} /\ pc' # "idle"
  BY DEF InHand
<1>4. OwnedBy(HeldItems, InHand)' /\ owned' \subseteq Frames /\ cur.item # NoFrame
  BY <1>2, <1>3, CurTypes, Sizes DEF OwnedBy
<1>5. BusyEntry'
  BY <1>2 DEF IInv, BusyEntry
<1> QED BY <1>1, <1>2, <1>3, <1>4, <1>5, Assemble DEF TypeOK

(* The gap that is due at the start of a call.                             *)
LEMMA ExpireGapInv == IInv /\ ExpireGap => IInv'
<1> SUFFICES ASSUME IInv, ExpireGap PROVE IInv'
  OBVIOUS
<1>1. CASE SkipGap(cur.flow)
  BY <1>1, SkipActionInv DEF ExpireGap
<1>2. CASE Silent /\ UNCHANGED <<flows, slots, held, owned>>
  <2>1. TypeOK /\ TableOK
    BY IInvTable DEF IInv
  <2>2. TableOK' /\ HeldItems' = HeldItems
    BY <1>2, <2>1, TableSame DEF TableOK
  <2>3. HistoryOK'
    BY <1>2, <2>1, SilentType DEF HistoryOK
  <2>4. InHand' = InHand /\ pc # "idle"
    BY DEF ExpireGap, InHand
  <2>5. OwnedBy(HeldItems, InHand)' /\ owned' \subseteq Frames /\ cur.item # NoFrame
    BY <1>2, <2>2, <2>4, CurTypes, Sizes DEF OwnedBy
  <2>6. BusyEntry'
    BY <1>2, <2>4 DEF IInv, BusyEntry, ExpireGap
  <2> QED BY <1>2, <2>1, <2>2, <2>3, <2>5, <2>6, Assemble DEF TypeOK, ExpireGap
<1> QED BY <1>1, <1>2 DEF ExpireGap

(* An iteration of flow_make_window_room.                                  *)
LEMMA RoomSkipInv == IInv /\ RoomSkip => IInv'
BY SkipActionInv DEF RoomSkip, InRoom

(* The gap skipped because the worker holds too much.                      *)
LEMMA CapSkipInv == IInv /\ CapSkip => IInv'
BY SkipActionInv DEF CapSkip

(* The window made room.                                                   *)
LEMMA RoomMadeInv == IInv /\ RoomMade => IInv'
<1> SUFFICES ASSUME IInv, RoomMade PROVE IInv'
  OBVIOUS
<1>1. TypeOK /\ TableOK
  BY IInvTable DEF IInv
<1> DEFINE n == IF OutOfRoom THEN SeqAdd(cur.seq, SeqMod - (Window - 1))
                ELSE flows[cur.flow].next
<1>2. n \in Seq32
  <2>1. cur.seq \in Int /\ SeqMod - (Window - 1) \in Int
    BY CurTypes, Sizes DEF Seq32
  <2>2. flows[cur.flow].next \in Seq32
    BY CurTypes DEF FlowRec
  <2> QED BY <2>1, <2>2, SeqAddType
<1>3. flows' = [flows EXCEPT ![cur.flow].next = n]
  BY DEF RoomMade
<1> HIDE DEF n
<1>4. /\ flows' \in [Flow -> FlowRec]
      /\ \A f \in Flow : flows'[f].held = flows[f].held /\ flows'[f].valid = flows[f].valid
  BY <1>1, <1>2, <1>3, CurTypes DEF TableOK, FlowRec
<1>5. TableOK' /\ HeldItems' = HeldItems
  BY <1>4, TableSame DEF RoomMade
<1>6. HistoryOK'
  BY <1>1, SilentType DEF HistoryOK, RoomMade
<1>7. InHand' = InHand /\ pc # "idle"
  BY DEF RoomMade, InRoom, InHand
<1>8. OwnedBy(HeldItems, InHand)' /\ owned' \subseteq Frames /\ cur.item # NoFrame
  BY <1>5, <1>7, CurTypes, Sizes DEF OwnedBy, RoomMade
<1>9. BusyEntry'
  BY <1>4, <1>7, CurTypes DEF IInv, BusyEntry, RoomMade
<1> QED BY <1>1, <1>5, <1>6, <1>8, <1>9, Assemble DEF TypeOK, RoomMade

(* The awaited datagram goes out.                                          *)
LEMMA EmitNextInv == IInv /\ EmitNext => IInv'
<1> SUFFICES ASSUME IInv, EmitNext PROVE IInv'
  OBVIOUS
<1>1. TypeOK /\ TableOK
  BY IInvTable DEF IInv
<1> DEFINE f == cur.flow
<1> DEFINE n == SeqAdd(flows[f].next, 1)
<1> DEFINE I == RunIdx(slots[f], n)
<1>2. f \in Flow /\ n \in Seq32
  <2>1. flows[f].next \in Int
    BY CurTypes DEF FlowRec, Seq32
  <2> QED BY <2>1, SeqAddType, CurTypes
<1>3. /\ flows' = [flows EXCEPT ![f] = Flushed(flows[f], slots[f], n)]
      /\ slots' = [slots EXCEPT ![f] = Clear(slots[f], I)]
      /\ held' = Monus(held, Cardinality(I))
      /\ owned' = owned \ ({cur.item} \cup ItemsAt(slots[f], I))
      /\ Emits([Quiet EXCEPT ![f] = <<cur.seq>> \o RunSeqs(slots[f], n)])
      /\ pc # "idle" /\ pc' = "idle" /\ cur' = NoCall
      /\ UNCHANGED <<older, gcCursor, cryptoOn>>
  BY DEF EmitNext, Return
<1> HIDE DEF n
<1>4. /\ Flushed(flows[f], slots[f], n) \in FlowRec
      /\ Flushed(flows[f], slots[f], n).held = Monus(flows[f].held, Cardinality(I))
      /\ Flushed(flows[f], slots[f], n).valid = flows[f].valid
      /\ I \in SUBSET ValidIdx(slots[f]) /\ RunSeqs(slots[f], n) \in Seq(Seq32)
  BY <1>2, CurTypes, FlushedFacts, RunFacts
<1> HIDE DEF I, f
<1>5. TableOK' /\ HeldItems' = HeldItems \ ItemsAt(slots[f], I)
  BY <1>2, <1>3, <1>4, TableClearOne
<1>6. HistoryOK'
  <2>1. <<cur.seq>> \o RunSeqs(slots[f], n) \in Seq(Seq32)
    BY <1>4, CurTypes, ConcatProperties
  <2>2. [Quiet EXCEPT ![f] = <<cur.seq>> \o RunSeqs(slots[f], n)] \in [Flow -> Seq(Seq32)]
    BY <2>1, QuietType
  <2> QED BY <1>1, <1>3, <2>2, EmitsType DEF HistoryOK
<1>7. InHand' = {}
  BY <1>3 DEF InHand
<1>8. OwnedBy(HeldItems, InHand)' /\ owned' \subseteq Frames
  BY <1>3, <1>5, <1>7, CurTypes DEF OwnedBy
<1>9. BusyEntry'
  BY <1>3 DEF BusyEntry
<1> QED BY <1>1, <1>3, <1>5, <1>6, <1>8, <1>9, NoCallType, Assemble DEF TypeOK

(* The datagram of the call is dropped.                                    *)
LEMMA DropItemInv == IInv /\ DropItem => IInv'
<1> SUFFICES ASSUME IInv, DropItem PROVE IInv'
  OBVIOUS
<1>1. TypeOK /\ TableOK
  BY IInvTable DEF IInv
<1>2. TableOK' /\ HeldItems' = HeldItems
  BY <1>1, TableSame DEF DropItem, TableOK
<1>3. HistoryOK'
  BY <1>1, SilentType DEF HistoryOK, DropItem
<1>4. pc # "idle" /\ InHand' = {}
  BY DEF DropItem, Late, Overflow, MayStore, InHand, Return
<1>5. OwnedBy(HeldItems, InHand)' /\ owned' \subseteq Frames
  BY <1>2, <1>4, CurTypes DEF OwnedBy, DropItem
<1>6. BusyEntry'
  BY DEF BusyEntry, DropItem, Return
<1> QED BY <1>1, <1>2, <1>3, <1>5, <1>6, NoCallType, Assemble DEF TypeOK, DropItem, Return

(* The datagram of the call takes a slot.                                  *)
LEMMA StoreItemInv == IInv /\ StoreItem => IInv'
<1> SUFFICES ASSUME IInv, StoreItem PROVE IInv'
  OBVIOUS
<1>1. TypeOK /\ TableOK
  BY IInvTable DEF IInv
<1> DEFINE f == cur.flow
<1> DEFINE i == CurIdx
<1> DEFINE grow == IF slots[f][i].valid THEN 0 ELSE 1
<1> DEFINE old == IF slots[f][i].valid THEN {slots[f][i].item} ELSE {}
<1>2. /\ f \in Flow /\ i \in Idx /\ cur.seq \in Seq32 /\ cur.item \in Frames
      /\ slots[f] \in [Idx -> SlotRec] /\ flows[f] \in FlowRec
      /\ pc # "idle" /\ InHand = {cur.item}
  BY CurTypes DEF StoreItem, MayStore
<1>3. /\ flows' = [flows EXCEPT ![f].held = @ + grow,
                                ![f].gap = IF @ = NoGap THEN 0 ELSE @]
      /\ held' = held + grow
      /\ slots' = [slots EXCEPT ![f][i] =
                     [valid |-> TRUE, seq |-> cur.seq, item |-> cur.item]]
      /\ owned' = owned \ old
      /\ held < HeldCap
      /\ pc' = "idle" /\ cur' = NoCall /\ Silent
      /\ UNCHANGED <<older, gcCursor, cryptoOn>>
  BY DEF StoreItem, CurSlot, Return, MayStore
<1> HIDE DEF f, i
<1>4. /\ slots' \in [Flow -> [Idx -> SlotRec]]
      /\ slots'[f][i] = [valid |-> TRUE, seq |-> cur.seq, item |-> cur.item]
      /\ \A g \in Flow, j \in Idx : <<g, j>> # <<f, i>> => slots'[g][j] = slots[g][j]
      /\ \A g \in Flow \ {f} : slots'[g] = slots[g]
  BY <1>1, <1>2, <1>3 DEF TableOK, SlotRec
<1>5. /\ flows' \in [Flow -> FlowRec]
      /\ flows'[f].held = flows[f].held + grow /\ flows'[f].valid = flows[f].valid
      /\ \A g \in Flow \ {f} : flows'[g] = flows[g]
  <2> DEFINE h == flows[f].held + grow
  <2> DEFINE g0 == IF flows[f].gap = NoGap THEN 0 ELSE flows[f].gap
  <2> DEFINE fl == [flows[f] EXCEPT !.held = h, !.gap = g0]
  <2>0. h \in Nat /\ g0 \in {NoGap} \cup 0..Hold
    BY <1>2, Sizes DEF FlowRec
  <2>2. flows' = [flows EXCEPT ![f] = fl]
    BY <1>1, <1>2, <1>3 DEF TableOK
  <2> HIDE DEF h, g0
  <2>1. fl \in FlowRec /\ fl.held = h /\ fl.valid = flows[f].valid
    BY <1>2, <2>0 DEF FlowRec
  <2> HIDE DEF fl
  <2> QED BY <1>1, <1>2, <2>1, <2>2 DEF TableOK, h
<1>6. HeldAt' = HeldAt \cup {<<f, i>>}
  BY <1>1, <1>2, <1>4 DEF HeldAt, TableOK
<1>7. <<f, i>> \in HeldAt <=> slots[f][i].valid
  BY <1>2 DEF HeldAt
<1>8. Cardinality(HeldAt') = Cardinality(HeldAt) + grow
  <2>1. IsFiniteSet(HeldAt) /\ Cardinality(HeldAt) \in Nat
    BY FiniteIdx, FS_Subset, FS_CardinalityType DEF HeldAt
  <2>2. Cardinality(HeldAt \cup {<<f, i>>}) =
          IF <<f, i>> \in HeldAt THEN Cardinality(HeldAt) ELSE Cardinality(HeldAt) + 1
    BY <2>1, FS_AddElement
  <2> QED BY <2>1, <2>2, <1>6, <1>7
<1>9. ValidIdx(slots'[f]) = ValidIdx(slots[f]) \cup {i}
  BY <1>2, <1>4 DEF ValidIdx
<1>10. Cardinality(ValidIdx(slots'[f])) = Cardinality(ValidIdx(slots[f])) + grow
  <2>1. IsFiniteSet(ValidIdx(slots[f])) /\ Cardinality(ValidIdx(slots[f])) \in Nat
    BY CardIdx DEF ValidIdx
  <2>2. i \in ValidIdx(slots[f]) <=> slots[f][i].valid
    BY <1>2 DEF ValidIdx
  <2>3. Cardinality(ValidIdx(slots[f]) \cup {i}) =
          IF i \in ValidIdx(slots[f]) THEN Cardinality(ValidIdx(slots[f]))
          ELSE Cardinality(ValidIdx(slots[f])) + 1
    BY <2>1, FS_AddElement
  <2> QED BY <2>1, <2>2, <2>3, <1>9
<1>11. HeldCounts'
  <2>1. held' = Cardinality(HeldAt')
    BY <1>1, <1>3, <1>8 DEF TableOK, HeldCounts
  <2>2. \A g \in Flow : flows'[g].held = Cardinality(ValidIdx(slots'[g]))
    BY <1>1, <1>4, <1>5, <1>10 DEF TableOK, HeldCounts
  <2> QED BY <2>1, <2>2 DEF HeldCounts
<1>12. held' \in Nat /\ HeldBounded'
  BY <1>1, <1>3, Sizes DEF TableOK, HeldBounded
<1>13. UnusedHoldsNothing'
  <2>1. flows[f].valid
    BY <1>2 DEF IInv, BusyEntry, f
  <2> QED BY <1>1, <1>5, <2>1 DEF TableOK, UnusedHoldsNothing
<1>14. cur.item \notin HeldItems /\ Distinct /\ HeldItems \subseteq Frames
  BY <1>1, <1>2, CurTypes DEF OwnedBy, TableOK
<1>15. /\ \A p \in HeldAt' : p # <<f, i>> =>
             p \in HeldAt /\ slots'[p[1]][p[2]].item = slots[p[1]][p[2]].item
       /\ slots'[f][i].item = cur.item
  <2>1. ASSUME NEW p \in HeldAt', p # <<f, i>>
        PROVE  p \in HeldAt /\ slots'[p[1]][p[2]].item = slots[p[1]][p[2]].item
    <3>1. p \in Flow \X Idx /\ p = <<p[1], p[2]>> /\ p \in HeldAt
      BY <1>6, <2>1 DEF HeldAt
    <3> QED BY <1>4, <2>1, <3>1
  <2> QED BY <1>4, <2>1
<1>16. Distinct'
  <2>1. ASSUME NEW p \in HeldAt', NEW q \in HeldAt',
               slots'[p[1]][p[2]].item = slots'[q[1]][q[2]].item
        PROVE  p = q
    <3>1. ASSUME NEW r \in HeldAt PROVE slots[r[1]][r[2]].item # cur.item
      BY <1>14 DEF HeldItems
    <3> QED BY <1>14, <1>15, <2>1, <3>1 DEF Distinct
  <2> QED BY <2>1 DEF Distinct
<1>17. HeldItems' = (HeldItems \ old) \cup {cur.item}
  <2>1. ASSUME NEW p \in HeldAt'
        PROVE  slots'[p[1]][p[2]].item \in (HeldItems \ old) \cup {cur.item}
    <3>1. CASE p = <<f, i>>
      BY <1>15, <3>1
    <3>2. CASE p # <<f, i>>
      <4>1. p \in HeldAt /\ slots'[p[1]][p[2]].item = slots[p[1]][p[2]].item
        BY <1>15, <3>2
      <4>2. slots[p[1]][p[2]].item \notin old
        BY <1>7, <1>14, <3>2, <4>1 DEF Distinct
      <4> QED BY <4>1, <4>2 DEF HeldItems
    <3> QED BY <3>1, <3>2
  <2>2. ASSUME NEW x \in (HeldItems \ old) \cup {cur.item} PROVE x \in HeldItems'
    <3>1. CASE x = cur.item
      BY <1>6, <1>15, <3>1 DEF HeldItems
    <3>2. CASE x \in HeldItems \ old
      <4>1. PICK p \in HeldAt : slots[p[1]][p[2]].item = x
        BY <3>2 DEF HeldItems
      <4>2. p # <<f, i>>
        BY <1>7, <3>2, <4>1
      <4> QED BY <1>6, <1>15, <4>1, <4>2 DEF HeldItems
    <3> QED BY <3>1, <3>2
  <2> QED BY <2>1, <2>2 DEF HeldItems
<1>18. old \subseteq HeldItems
  BY <1>7 DEF HeldItems
<1>19. InHand' = {}
  BY <1>3 DEF InHand
<1>20. OwnedBy(HeldItems, InHand)' /\ owned' \subseteq Frames
  BY <1>2, <1>3, <1>14, <1>17, <1>18, <1>19, CurTypes, Sizes DEF OwnedBy
<1>21. HistoryOK' /\ TableOK' /\ BusyEntry'
  BY <1>1, <1>3, <1>4, <1>5, <1>11, <1>12, <1>13, <1>16, SilentType
     DEF HistoryOK, TableOK, BusyEntry
<1> QED BY <1>1, <1>3, <1>20, <1>21, NoCallType, Assemble DEF TypeOK

(* A reset empties every occupied slot of its entry.                       *)
LEMMA DroppableFacts ==
  ASSUME IInv, NEW f \in Flow
  PROVE  /\ Droppable(f) \in SUBSET ValidIdx(slots[f]) /\ Droppable(f) \in SUBSET Idx
         /\ Droppable(f) = ValidIdx(slots[f])
         /\ Monus(flows[f].held, Cardinality(Droppable(f))) = 0
<1>1. TableOK
  BY IInvTable
<1>2. flows[f].held = Cardinality(ValidIdx(slots[f])) /\ flows[f].held \in Nat
  BY <1>1 DEF TableOK, HeldCounts, FlowRec
<1>3. ASSUME ~flows[f].valid PROVE ValidIdx(slots[f]) = {}
  <2>1. Cardinality(ValidIdx(slots[f])) = 0
    BY <1>1, <1>2, <1>3 DEF TableOK, UnusedHoldsNothing
  <2>2. IsFiniteSet(ValidIdx(slots[f]))
    BY CardIdx DEF ValidIdx
  <2> QED BY <2>1, <2>2, FS_EmptySet
<1>4. Droppable(f) = ValidIdx(slots[f])
  BY <1>3 DEF Droppable
<1> QED BY <1>2, <1>4 DEF Monus, ValidIdx

(* The start of a call: flow_lookup finds or resets an entry.              *)
LEMMA SubmitInv ==
  ASSUME IInv, NEW f \in Flow, NEW k \in Keys, NEW e \in Epochs, NEW s \in Seqs,
         NEW x \in Frames \ owned, Submit(f, k, e, s, x)
  PROVE  IInv'
<1>1. TypeOK /\ TableOK
  BY IInvTable DEF IInv
<1>2. s \in Seq32 /\ e \in Nat
  BY SetsAssumption DEF Seq32
<1>3. InHand = {} /\ InHand' = {x} /\ cur' = [flow |-> f, seq |-> s, item |-> x]
      /\ pc' = "expire" /\ UNCHANGED <<gcCursor, cryptoOn>>
  BY DEF Submit, InHand
<1>4. older' \subseteq Flow \X Flow
  BY <1>1 DEF Submit, Touched, TypeOK
<1>5. /\ TableOK' /\ HistoryOK' /\ flows'[f].valid
      /\ HeldItems' \subseteq HeldItems
      /\ owned' = (owned \ (HeldItems \ HeldItems')) \cup {x}
  <2>1. CASE SubmitKnown(f, k, e) /\ owned' = owned \cup {x}
    <3>1. /\ flows' \in [Flow -> FlowRec] /\ flows'[f].valid
          /\ \A h \in Flow : flows'[h].held = flows[h].held /\ flows'[h].valid = flows[h].valid
      <4> DEFINE fl == [flows[f] EXCEPT !.seen = 0]
      <4>1. flows[f] \in FlowRec /\ 0 \in 0..(Idle + 1)
        BY <1>1, Sizes DEF TableOK
      <4>2. fl \in FlowRec /\ fl.held = flows[f].held /\ fl.valid = flows[f].valid
        BY <4>1 DEF FlowRec
      <4>3. flows' = [flows EXCEPT ![f] = fl] /\ flows[f].valid
        BY <2>1 DEF SubmitKnown, Known
      <4> HIDE DEF fl
      <4> QED BY <1>1, <4>2, <4>3 DEF TableOK
    <3>2. TableOK' /\ HeldItems' = HeldItems
      BY <2>1, <3>1, TableSame DEF SubmitKnown
    <3>3. HistoryOK'
      BY <1>1, <2>1, SilentType DEF SubmitKnown, HistoryOK
    <3> QED BY <2>1, <3>1, <3>2, <3>3
  <2>2. CASE /\ SubmitReset(f, k, e, s)
             /\ owned' = (owned \ ItemsAt(slots[f], Droppable(f))) \cup {x}
    <3>1. /\ FreshFlow(k, e, s) \in FlowRec /\ FreshFlow(k, e, s).valid
          /\ FreshFlow(k, e, s).held = 0
      BY <1>2, Sizes DEF FreshFlow, FlowRec, Least, Seq32
    <3>2. /\ flows' = [flows EXCEPT ![f] = FreshFlow(k, e, s)]
          /\ slots' = [slots EXCEPT ![f] = Clear(slots[f], Droppable(f))]
          /\ held' = Monus(held, Cardinality(Droppable(f)))
      BY <2>2 DEF SubmitReset
    <3>3. TableOK' /\ HeldItems' = HeldItems \ ItemsAt(slots[f], Droppable(f))
      BY <3>1, <3>2, DroppableFacts, TableClearOne
    <3>4. HistoryOK'
      BY <1>1, <2>2, QuietType DEF SubmitReset, HistoryOK, TypeOK
    <3>5. ItemsAt(slots[f], Droppable(f)) \subseteq HeldItems
      <4>1. ASSUME NEW i \in Droppable(f) PROVE slots[f][i].item \in HeldItems
        <5>1. <<f, i>> \in HeldAt /\ <<f, i>>[1] = f /\ <<f, i>>[2] = i
          BY DroppableFacts DEF HeldAt, ValidIdx
        <5> QED BY <5>1 DEF HeldItems
      <4> QED BY <4>1 DEF ItemsAt
    <3>6. flows'[f].valid
      BY <1>1, <3>1, <3>2 DEF TableOK
    <3> QED BY <2>2, <3>3, <3>4, <3>5, <3>6
  <2> QED BY <2>1, <2>2 DEF Submit
<1>6. OwnedBy(HeldItems, InHand)' /\ owned' \subseteq Frames /\ x # NoFrame
  BY <1>3, <1>5, CurTypes, Sizes DEF OwnedBy
<1>7. BusyEntry'
  BY <1>3, <1>5 DEF BusyEntry
<1> QED BY <1>1, <1>2, <1>3, <1>4, <1>5, <1>6, <1>7, Assemble DEF TypeOK

(* The clock.                                                              *)
LEMMA TickInv == IInv /\ Tick => IInv'
<1> SUFFICES ASSUME IInv, Tick PROVE IInv'
  OBVIOUS
<1>1. TypeOK /\ TableOK
  BY IInvTable DEF IInv
<1>2. ASSUME NEW f \in Flow
      PROVE  /\ flows'[f] \in FlowRec
             /\ flows'[f].held = flows[f].held /\ flows'[f].valid = flows[f].valid
  <2>1. flows[f] \in FlowRec
    BY <1>1 DEF TableOK
  <2> DEFINE g0 == IF flows[f].gap = NoGap THEN NoGap ELSE Least(flows[f].gap + 1, Hold)
  <2> DEFINE s0 == Least(flows[f].seen + 1, Idle + 1)
  <2>2. g0 \in {NoGap} \cup 0..Hold /\ s0 \in 0..(Idle + 1)
    BY <2>1, Sizes DEF FlowRec, Least
  <2>3. flows'[f] = IF ~flows[f].valid THEN flows[f]
                    ELSE [flows[f] EXCEPT !.gap = g0, !.seen = s0]
    BY DEF Tick
  <2> HIDE DEF g0, s0
  <2> QED BY <2>1, <2>2, <2>3 DEF FlowRec
<1>3. flows' \in [Flow -> FlowRec]
  BY <1>2 DEF Tick
<1>4. TableOK' /\ HeldItems' = HeldItems
  BY <1>2, <1>3, TableSame DEF Tick
<1>5. HistoryOK'
  BY <1>1, SilentType DEF HistoryOK, Tick
<1>6. InHand' = InHand /\ pc' = "idle"
  BY DEF Tick, InHand
<1>7. OwnedBy(HeldItems, InHand)' /\ owned' \subseteq Frames
  BY <1>4, <1>6, CurTypes DEF OwnedBy, Tick
<1> QED BY <1>1, <1>4, <1>5, <1>6, <1>7, Assemble DEF TypeOK, BusyEntry, Tick

(* A reload switches crypto.                                               *)
LEMMA ToggleCryptoInv == IInv /\ ToggleCrypto => IInv'
<1> SUFFICES ASSUME IInv, ToggleCrypto PROVE IInv'
  OBVIOUS
<1>1. TypeOK /\ TableOK
  BY IInvTable DEF IInv
<1>2. TableOK' /\ HeldItems' = HeldItems
  BY <1>1, TableSame DEF ToggleCrypto, TableOK
<1>3. HistoryOK'
  BY <1>1, SilentType DEF HistoryOK, ToggleCrypto
<1>4. InHand' = InHand /\ pc' = "idle" /\ cryptoOn' \in BOOLEAN
  BY DEF ToggleCrypto, InHand
<1>5. OwnedBy(HeldItems, InHand)' /\ owned' \subseteq Frames
  BY <1>2, <1>4, CurTypes DEF OwnedBy, ToggleCrypto
<1> QED BY <1>1, <1>2, <1>3, <1>4, <1>5, Assemble DEF TypeOK, BusyEntry, ToggleCrypto

(* Emptying all of J and leaving every entry with that many fewer held     *)
(* keeps the table: what GC and the reset of the worker have in common.    *)
LEMMA TableClearMany ==
  ASSUME IInv, NEW J \in [Flow -> SUBSET Idx],
         \A f \in Flow : J[f] \subseteq ValidIdx(slots[f]),
         slots' = [f \in Flow |-> Clear(slots[f], J[f])],
         flows' \in [Flow -> FlowRec],
         \A f \in Flow : flows'[f].held = Monus(flows[f].held, Cardinality(J[f])),
         \A f \in Flow : flows'[f].valid \/ flows'[f].held = 0,
         held' = Monus(held, Cardinality(Pairs(J)))
  PROVE  TableOK' /\ HeldItems' = HeldItems \ ItemsOf(Pairs(J))
<1>1. TypeOK /\ HeldCounts /\ TableOK
  BY IInvTable DEF IInv
<1>2. /\ slots' \in [Flow -> [Idx -> SlotRec]]
      /\ \A f \in Flow :
           Monus(flows[f].held, Cardinality(J[f])) = Cardinality(ValidIdx(slots'[f]))
      /\ Monus(held, Cardinality(Pairs(J))) = Cardinality(HeldAt')
      /\ Cardinality(HeldAt') <= held
      /\ Distinct' /\ HeldItems' = HeldItems \ ItemsOf(Pairs(J))
  BY <1>1, ClearMany DEF TableOK
<1>3. HeldCounts'
  BY <1>2 DEF HeldCounts
<1>4. held' \in Nat
  <2>1. Pairs(J) \subseteq Flow \X Idx
    BY DEF Pairs
  <2>2. IsFiniteSet(Pairs(J))
    BY <2>1, FiniteIdx, FS_Subset
  <2>3. Cardinality(Pairs(J)) \in Nat
    BY <2>2, FS_CardinalityType
  <2> QED BY <1>1, <2>3, MonusType DEF TableOK
<1>5. HeldBounded'
  BY <1>1, <1>2, <1>4, Sizes DEF TableOK, HeldBounded
<1>6. UnusedHoldsNothing'
  BY DEF UnusedHoldsNothing
<1> QED BY <1>2, <1>3, <1>4, <1>5, <1>6 DEF TableOK

(* A slice of GC.                                                          *)
LEMMA GcInv == IInv /\ Gc => IInv'
<1> SUFFICES ASSUME IInv, Gc PROVE IInv'
  OBVIOUS
<1> DEFINE J == [f \in Flow |-> GcIdx(f)]
<1> DEFINE o == [f \in Flow |-> IF GcSkips(f) THEN SkipSeqs(flows[f], slots[f]) ELSE << >>]
<1>1. TypeOK /\ TableOK
  BY IInvTable DEF IInv
<1>2. ASSUME NEW f \in Flow
      PROVE  /\ GcIdx(f) \in SUBSET Idx /\ GcIdx(f) \subseteq ValidIdx(slots[f])
             /\ GcFlow(f) \in FlowRec
             /\ GcFlow(f).held = Monus(flows[f].held, Cardinality(GcIdx(f)))
             /\ GcFlow(f).valid \/ GcFlow(f).held = 0
             /\ o[f] \in Seq(Seq32)
  <2> DEFINE fl == IF GcSkips(f) THEN SkipFlow(flows[f], slots[f]) ELSE flows[f]
  <2>1. flows[f] \in FlowRec /\ slots[f] \in [Idx -> SlotRec]
        /\ (flows[f].valid \/ flows[f].held = 0)
    BY <1>1 DEF TableOK, UnusedHoldsNothing
  <2>2. /\ GcIdx(f) \in SUBSET Idx /\ GcIdx(f) \subseteq ValidIdx(slots[f])
        /\ fl \in FlowRec
        /\ fl.held = Monus(flows[f].held, Cardinality(GcIdx(f)))
        /\ fl.valid \/ fl.held = 0
        /\ o[f] \in Seq(Seq32)
    <3>1. CASE GcSkips(f)
      BY <2>1, <3>1, SkipFacts DEF GcIdx, GcSkips
    <3>2. CASE ~GcSkips(f)
      <4>1. GcIdx(f) = {} /\ fl = flows[f] /\ o[f] = << >>
        BY <3>2 DEF GcIdx
      <4>2. Cardinality({}) = 0
        BY FS_EmptySet
      <4>3. Monus(flows[f].held, 0) = flows[f].held
        BY <2>1 DEF Monus, FlowRec
      <4> HIDE DEF o, fl
      <4> QED BY <2>1, <4>1, <4>2, <4>3, EmptySeq
    <3> QED BY <3>1, <3>2
  <2>3. GcFlow(f) = IF InSlice(f) /\ fl.valid /\ fl.held = 0 /\ fl.seen > Idle
                    THEN EmptyFlow ELSE fl
    BY DEF GcFlow
  <2>4. EmptyFlow \in FlowRec /\ EmptyFlow.held = 0
    BY Sizes DEF EmptyFlow, FlowRec
  <2> HIDE DEF fl, o
  <2> QED BY <2>2, <2>3, <2>4
<1>3. J \in [Flow -> SUBSET Idx] /\ \A f \in Flow : J[f] \subseteq ValidIdx(slots[f])
  BY <1>2
<1>4. Pairs(J) = GcPairs
  BY DEF Pairs, GcPairs
<1>5. /\ slots' = [f \in Flow |-> Clear(slots[f], J[f])]
      /\ flows' = [f \in Flow |-> GcFlow(f)]
      /\ held' = Monus(held, Cardinality(Pairs(J)))
      /\ owned' = owned \ ItemsOf(Pairs(J))
      /\ Emits(o) /\ pc = "idle" /\ pc' = "idle"
  BY <1>4 DEF Gc, ItemsOf
<1>6. \A f \in Flow : flows'[f].held = Monus(flows[f].held, Cardinality(J[f]))
  BY <1>2, <1>5
<1>7. flows' \in [Flow -> FlowRec] /\ \A f \in Flow : flows'[f].valid \/ flows'[f].held = 0
  BY <1>2, <1>5
<1>8. o \in [Flow -> Seq(Seq32)]
  BY <1>2
<1> HIDE DEF J, o
<1>9. TableOK' /\ HeldItems' = HeldItems \ ItemsOf(Pairs(J))
  BY <1>3, <1>5, <1>6, <1>7, TableClearMany
<1>10. HistoryOK'
  BY <1>1, <1>5, <1>8, EmitsType DEF HistoryOK
<1>11. InHand = {} /\ InHand' = {}
  BY <1>5 DEF InHand
<1>12. OwnedBy(HeldItems, InHand)' /\ owned' \subseteq Frames
  BY <1>5, <1>9, <1>11, CurTypes DEF OwnedBy
<1>13. older' \subseteq Flow \X Flow /\ cryptoOn' \in BOOLEAN
       /\ cur' \in [flow : Flow, seq : Seq32, item : Frames \cup {NoFrame}]
  BY <1>1 DEF Gc, TypeOK
<1>14. gcCursor' \in Flow
  <2>1. gcCursor \in Nat /\ GcSlice \in Nat /\ Ways \in Nat \ {0}
    BY <1>1, Sizes DEF TypeOK, Flow
  <2>2. (gcCursor + GcSlice) \in Int
    BY <2>1
  <2> QED BY <2>1, <2>2, ModRange DEF Gc, Flow
<1> QED BY <1>5, <1>9, <1>10, <1>12, <1>13, <1>14, Assemble DEF BusyEntry

(* The reset of the worker.                                                *)
LEMMA ResetWorkerInv == IInv /\ ResetWorker => IInv'
<1> SUFFICES ASSUME IInv, ResetWorker PROVE IInv'
  OBVIOUS
<1> DEFINE J == [f \in Flow |-> Droppable(f)]
<1>1. TypeOK /\ TableOK
  BY IInvTable DEF IInv
<1>2. J \in [Flow -> SUBSET Idx]
  BY DroppableFacts
<1>3. \A f \in Flow : J[f] \subseteq ValidIdx(slots[f])
                     /\ Monus(flows[f].held, Cardinality(J[f])) = 0
  BY DroppableFacts
<1>4. Pairs(J) = HeldAt
  <2>1. \A f \in Flow : J[f] = {i \in Idx : slots[f][i].valid}
    BY DroppableFacts DEF ValidIdx
  <2> HIDE DEF J
  <2> QED BY <2>1 DEF Pairs, HeldAt
<1>5. slots' = [f \in Flow |-> Clear(slots[f], J[f])]
  BY DEF ResetWorker
<1>6. EmptyFlow \in FlowRec /\ EmptyFlow.held = 0
  BY Sizes DEF EmptyFlow, FlowRec
<1>7. flows' \in [Flow -> FlowRec] /\ \A f \in Flow : flows'[f].held = 0
  BY <1>6 DEF ResetWorker
<1>8. held' = Monus(held, Cardinality(Pairs(J)))
  BY <1>1, <1>4 DEF ResetWorker, TableOK, HeldCounts, Monus
<1> HIDE DEF J
<1>9. TableOK' /\ HeldItems' = HeldItems \ ItemsOf(Pairs(J))
  BY <1>2, <1>3, <1>5, <1>7, <1>8, TableClearMany
<1>10. HeldItems' = {}
  BY <1>4, <1>9 DEF ItemsOf, HeldItems
<1>11. UNION {ItemsAt(slots[f], Droppable(f)) : f \in Flow} = HeldItems
  <2>1. ASSUME NEW f \in Flow PROVE ItemsAt(slots[f], Droppable(f)) \subseteq HeldItems
    <3>1. ASSUME NEW i \in Droppable(f) PROVE slots[f][i].item \in HeldItems
      <4>1. <<f, i>> \in HeldAt /\ <<f, i>>[1] = f /\ <<f, i>>[2] = i
        BY DroppableFacts DEF HeldAt, ValidIdx
      <4> QED BY <4>1 DEF HeldItems
    <3> QED BY <3>1 DEF ItemsAt
  <2>2. ASSUME NEW p \in HeldAt
        PROVE  slots[p[1]][p[2]].item \in ItemsAt(slots[p[1]], Droppable(p[1]))
    <3>1. p[1] \in Flow /\ p[2] \in ValidIdx(slots[p[1]])
      BY DEF HeldAt, ValidIdx
    <3>2. p[2] \in Droppable(p[1])
      BY <3>1, DroppableFacts
    <3> QED BY <3>2 DEF ItemsAt
  <2>3. \A p \in HeldAt : p[1] \in Flow
    BY DEF HeldAt
  <2> QED BY <2>1, <2>2, <2>3 DEF HeldItems
<1>12. InHand = {} /\ InHand' = {} /\ pc' = "idle"
  BY DEF InHand, ResetWorker
<1>13. OwnedBy(HeldItems, InHand)' /\ owned' \subseteq Frames
  BY <1>10, <1>11, <1>12, CurTypes DEF OwnedBy, ResetWorker
<1>14. HistoryOK'
  BY QuietType DEF HistoryOK, ResetWorker
<1>15. older' \subseteq Flow \X Flow /\ gcCursor' \in Flow /\ cryptoOn' \in BOOLEAN
       /\ cur' \in [flow : Flow, seq : Seq32, item : Frames \cup {NoFrame}]
  BY <1>1, Sizes DEF ResetWorker, TypeOK
<1> QED BY <1>9, <1>12, <1>13, <1>14, <1>15, Assemble DEF BusyEntry

(***************************************************************************)
(* The invariant holds from the start, and every step keeps it.            *)
(***************************************************************************)

(* A worker starts with nothing held.                                      *)
LEMMA InitInv == Init => IInv
<1> SUFFICES ASSUME Init PROVE IInv
  OBVIOUS
<1>1. EmptyFlow \in FlowRec /\ EmptyFlow.held = 0 /\ ~EmptyFlow.valid
  BY Sizes DEF EmptyFlow, FlowRec
<1>2. EmptySlot \in SlotRec /\ ~EmptySlot.valid
  BY Sizes DEF EmptySlot, SlotRec
<1>3. flows \in [Flow -> FlowRec] /\ \A f \in Flow : flows[f].held = 0
  BY <1>1 DEF Init
<1>4. /\ slots \in [Flow -> [Idx -> SlotRec]]
      /\ \A f \in Flow : \A i \in Idx : ~slots[f][i].valid
  BY <1>2 DEF Init
<1>5. HeldAt = {} /\ \A f \in Flow : ValidIdx(slots[f]) = {}
  BY <1>4 DEF HeldAt, ValidIdx
<1>6. HeldItems = {} /\ InHand = {}
  BY <1>5 DEF HeldItems, InHand, Init
<1>7. HeldCounts
  BY <1>3, <1>5, FS_EmptySet DEF HeldCounts, Init
<1>8. HeldBounded /\ UnusedHoldsNothing /\ BusyEntry
  BY <1>3, Sizes DEF HeldBounded, UnusedHoldsNothing, BusyEntry, Init
<1>9. Ownership
  BY <1>5, <1>6 DEF Ownership, Init
<1>10. TypeOK
  <2>1. last \in [Flow -> Seq32 \cup {NoSeq}] /\ out \in [Flow -> Seq(Seq32)]
    BY QuietType DEF Init
  <2>2. cur \in [flow : Flow, seq : Seq32, item : Frames \cup {NoFrame}]
    BY NoCallType DEF Init
  <2> QED BY <1>3, <1>4, <2>1, <2>2, Sizes DEF TypeOK, Init, FlowRec, SlotRec
<1> QED BY <1>7, <1>8, <1>9, <1>10 DEF IInv

(* A step that changes nothing.                                            *)
LEMMA StutterInv == IInv /\ UNCHANGED vars => IInv'
<1> SUFFICES ASSUME IInv, UNCHANGED vars PROVE IInv'
  OBVIOUS
<1>1. TypeOK /\ TableOK
  BY IInvTable DEF IInv
<1>2. TableOK' /\ HeldItems' = HeldItems
  BY <1>1, TableSame DEF vars, TableOK
<1>3. HistoryOK'
  BY <1>1 DEF HistoryOK, TypeOK, vars
<1>4. InHand' = InHand /\ cur' = cur /\ pc' = pc /\ flows' = flows
  BY DEF vars, InHand
<1>5. OwnedBy(HeldItems, InHand)' /\ owned' \subseteq Frames
  BY <1>2, <1>4, CurTypes DEF OwnedBy, vars
<1>6. BusyEntry' /\ (pc # "idle" => cur.item # NoFrame)'
  BY <1>4, OwnershipSets DEF IInv, BusyEntry
<1> QED BY <1>1, <1>2, <1>3, <1>4, <1>5, <1>6, Assemble DEF TypeOK, vars

(* Every step keeps the invariant.                                         *)
LEMMA NextInv == IInv /\ [Next]_vars => IInv'
<1> SUFFICES ASSUME IInv, [Next]_vars PROVE IInv'
  OBVIOUS
<1>1. ASSUME NEW f \in Flow, NEW k \in Keys, NEW e \in Epochs, NEW s \in Seqs,
             NEW x \in Frames \ owned, Submit(f, k, e, s, x)
      PROVE  IInv'
  BY <1>1, SubmitInv
<1>2. CASE SubmitStep
  BY <1>2, ExpireGapInv, EmitNextInv, RoomSkipInv, RoomMadeInv, CapSkipInv,
     DropItemInv, StoreItemInv DEF SubmitStep
<1>3. CASE Gc
  BY <1>3, GcInv
<1>4. CASE ResetWorker
  BY <1>4, ResetWorkerInv
<1>5. CASE Tick
  BY <1>5, TickInv
<1>6. CASE ToggleCrypto
  BY <1>6, ToggleCryptoInv
<1>7. CASE UNCHANGED vars
  BY <1>7, StutterInv
<1> QED BY <1>1, <1>2, <1>3, <1>4, <1>5, <1>6, <1>7 DEF Next

----------------------------------------------------------------------------
(* Order: what an entry holds is ahead of what it emitted.                 *)

(* Quotient and remainder.                                                 *)
LEMMA DivMod ==
  ASSUME NEW a \in Int, NEW d \in Nat \ {0}
  PROVE  a = d * (a \div d) + (a % d) /\ a % d \in 0..(d - 1) /\ a \div d \in Int
OBVIOUS

(* A number that is off a remainder by a multiple of the modulus has it.   *)
LEMMA ModIs ==
  ASSUME NEW a \in Int, NEW d \in Nat \ {0}, NEW r \in 0..(d - 1),
         a = r \/ a = r + d \/ a = r - d
  PROVE  a % d = r
<1> DEFINE q == a \div d
           m == a % d
<1>1. a = d * q + m /\ m \in 0..(d - 1) /\ q \in Int
  BY DivMod
<1> HIDE DEF q, m
<1>2. ASSUME NEW x \in Int, NEW y \in Int, x < y PROVE d * x + d <= d * y
  <2> DEFINE z == y - x - 1
  <2>1. z \in Nat
    BY <1>2
  <2>2. ASSUME NEW u \in Nat PROVE d * u >= 0
    OBVIOUS
  <2>3. d * z >= 0
    BY <2>1, <2>2
  <2>4. d * z = d * y - d * x - d
    OBVIOUS
  <2> QED
    BY <2>3, <2>4
<1>3. ASSUME NEW k \in Int, a = d * k + r PROVE m = r
  <2>1. ~(q < k) /\ ~(k < q)
    BY <1>1, <1>2, <1>3
  <2>2. q = k
    BY <1>1, <2>1
  <2> QED
    BY <1>1, <1>3, <2>2
<1>4. d * 0 = 0 /\ d * 1 = d /\ d * (-1) = -d
  OBVIOUS
<1>5. a = d * 0 + r \/ a = d * 1 + r \/ a = d * (-1) + r
  BY <1>4
<1>6. m = r
  BY <1>3, <1>5
<1> QED
  BY <1>6 DEF m

(* uint32_t addition, without the remainder.                               *)
LEMMA SeqAddIs ==
  ASSUME NEW b \in Seq32, NEW k \in 0..SeqMod
  PROVE  SeqAdd(b, k) = IF b + k < SeqMod THEN b + k ELSE b + k - SeqMod
<1> DEFINE r == IF b + k < SeqMod THEN b + k ELSE b + k - SeqMod
<1>1. r \in 0..(SeqMod - 1) /\ (b + k = r \/ b + k = r + SeqMod) /\ b + k \in Int
  BY Sizes DEF Seq32
<1> HIDE DEF r
<1>2. (b + k) % SeqMod = r
  BY <1>1, Sizes, ModIs
<1> QED
  BY <1>2 DEF SeqAdd, r

(* Signed distances lie in half the space on either side.                  *)
InHalf(d) == d \in Int /\ 2 * d >= -SeqMod /\ 2 * d < SeqMod

Apart(s, b, d) == s = b + d \/ s = b + d + SeqMod \/ s = b + d - SeqMod

(* The signed distance is the one number in that range that leads from one *)
(* sequence number to the other.                                           *)
LEMMA DeltaIs ==
  ASSUME NEW s \in Seq32, NEW b \in Seq32
  PROVE  /\ InHalf(SeqDelta(s, b)) /\ Apart(s, b, SeqDelta(s, b))
         /\ \A d : InHalf(d) /\ Apart(s, b, d) => SeqDelta(s, b) = d
<1> DEFINE c == IF s >= b THEN s - b ELSE s - b + SeqMod
           e == IF 2 * c >= SeqMod THEN c - SeqMod ELSE c
<1>1. c \in 0..(SeqMod - 1) /\ (s - b = c \/ s - b = c - SeqMod) /\ s - b \in Int
  BY Sizes DEF Seq32
<1> HIDE DEF c
<1>2. (s - b) % SeqMod = c
  BY <1>1, Sizes, ModIs
<1>3. SeqDelta(s, b) = e
  BY <1>2 DEF SeqDelta
<1>4. InHalf(e) /\ Apart(s, b, e)
  BY <1>1, Sizes DEF InHalf, Apart, Seq32
<1>5. ASSUME NEW d, InHalf(d), Apart(s, b, d) PROVE e = d
  <2>1. d \in Int
    BY <1>5 DEF InHalf
  <2> QED
    BY <1>1, <1>5, <2>1, Sizes DEF InHalf, Apart, Seq32
<1> QED
  BY <1>3, <1>4, <1>5

(* The datagram t is held, in the slot that is looked at for it.           *)
HoldsSeq(sl, t) == sl[t % Window].valid /\ sl[t % Window].seq = t

(* What flow_flush_contiguous emits are the datagrams from seq on, up to   *)
(* the first that is not held.                                             *)
LEMMA RunShape ==
  ASSUME NEW sl \in [Idx -> SlotRec], NEW s \in Seq32
  PROVE  LET n == Cardinality(Run(sl, s)) IN
         /\ n \in 0..Window /\ Run(sl, s) = 0..(n - 1)
         /\ \A k \in 0..(n - 1) : HoldsSeq(sl, SeqAdd(s, k))
         /\ n < Window => ~HoldsSeq(sl, SeqAdd(s, n))
<1> DEFINE R == Run(sl, s)
           Miss == {k \in Idx : ~HoldsSeq(sl, SeqAdd(s, k))}
<1>1. \A k : k \in R <=> k \in Idx /\ \A j \in 0..k : HoldsSeq(sl, SeqAdd(s, j))
  BY DEF Run, HoldsSeq
<1>2. \A k : k \in Miss <=> k \in Idx /\ ~HoldsSeq(sl, SeqAdd(s, k))
  OBVIOUS
<1>3. Miss \subseteq Nat
  BY <1>2 DEF Idx
<1>4. Window \in Nat \ {0}
  BY Sizes
<1>5. ASSUME NEW n \in 0..Window, \A k \in 0..(n - 1) : HoldsSeq(sl, SeqAdd(s, k)),
             n < Window => ~HoldsSeq(sl, SeqAdd(s, n))
      PROVE  R = 0..(n - 1) /\ Cardinality(R) = n
  <2>1. \A k : k \in R <=> k \in 0..(n - 1)
    BY <1>1, <1>4, <1>5 DEF Idx
  <2>2. R = 0..(n - 1)
    BY <2>1
  <2>3. Cardinality(0..(n - 1)) = n
    BY <1>4, FS_Interval
  <2> QED
    BY <2>2, <2>3
<1> HIDE DEF Miss
<1>6. CASE Miss = {}
  <2>1. \A k \in 0..(Window - 1) : HoldsSeq(sl, SeqAdd(s, k))
    BY <1>2, <1>6 DEF Idx
  <2>2. Window \in 0..Window
    BY <1>4
  <2> QED
    BY <1>4, <1>5, <2>1, <2>2
<1>7. CASE Miss # {}
  <2> DEFINE n == Min(Miss)
  <2>1. n \in Miss /\ \A y \in Miss : n <= y
    BY <1>3, <1>7, MinIsLeast
  <2>2. n \in Idx /\ ~HoldsSeq(sl, SeqAdd(s, n))
    BY <1>2, <2>1
  <2> HIDE DEF n
  <2>3. n \in 0..Window /\ n \in Int
    BY <1>4, <2>2 DEF Idx
  <2>4. ASSUME NEW k \in 0..(n - 1) PROVE HoldsSeq(sl, SeqAdd(s, k))
    <3>1. k \in Idx /\ k < n
      BY <1>4, <2>2 DEF Idx
    <3> QED
      BY <1>2, <2>1, <2>3, <3>1 DEF Idx
  <2> QED
    BY <1>5, <2>2, <2>3, <2>4
<1> QED
  BY <1>6, <1>7

(* What is held is ahead of next and in its slot.                          *)
AheadOf(sl, next) ==
  \A i \in ValidIdx(sl) :
    SeqDelta(sl[i].seq, next) \in 1..(Window - 1) /\ sl[i].seq % Window = i

(* Emitting from the datagram d ahead of next, with none held before it,   *)
(* leaves the rest ahead of what then is awaited.                          *)
LEMMA FlushAhead ==
  ASSUME NEW sl \in [Idx -> SlotRec], NEW next \in Seq32, AheadOf(sl, next),
         NEW d \in 1..Window, NEW s, s = SeqAdd(next, d),
         \A i \in ValidIdx(sl) : SeqDelta(sl[i].seq, next) >= d,
         NEW n, n = Cardinality(Run(sl, s))
  PROVE  /\ n \in Nat /\ (n > 0 => d + n <= Window)
         /\ AheadOf(Clear(sl, RunIdx(sl, s)), SeqAdd(s, n))
<1> DEFINE m == SeqAdd(s, n)
<1>0. 2 * Window < SeqMod /\ Window \in Nat \ {0} /\ SeqMod \in Nat \ {0}
  BY SizesAssumption
<1>1. s = IF next + d < SeqMod THEN next + d ELSE next + d - SeqMod
  BY <1>0, SeqAddIs
<1>2. s \in Seq32
  BY <1>0, <1>1 DEF Seq32
<1>3. /\ n \in 0..Window /\ Run(sl, s) = 0..(n - 1)
      /\ \A k \in 0..(n - 1) : HoldsSeq(sl, SeqAdd(s, k))
      /\ n < Window => ~HoldsSeq(sl, SeqAdd(s, n))
  BY <1>2, RunShape
<1>4. \A k \in 0..SeqMod : SeqAdd(s, k) = IF s + k < SeqMod THEN s + k ELSE s + k - SeqMod
  BY <1>2, SeqAddIs
<1>5. ASSUME NEW i \in ValidIdx(sl)
      PROVE  /\ sl[i].seq % Window = i /\ sl[i].seq \in Seq32
             /\ \E k \in 0..(Window - 1) : d + k <= Window - 1 /\ sl[i].seq = SeqAdd(s, k)
  <2> DEFINE t == sl[i].seq
             c == SeqDelta(t, next)
  <2>1. c \in 1..(Window - 1) /\ t % Window = i /\ c >= d
    BY DEF AheadOf
  <2>2. t \in Seq32
    BY DEF ValidIdx, SlotRec
  <2>3. Apart(t, next, c)
    BY <2>2, DeltaIs
  <2> HIDE DEF t, c
  <2>4. c - d \in 0..(Window - 1) /\ d + (c - d) <= Window - 1 /\ c - d \in 0..SeqMod
    BY <1>0, <2>1
  <2>5. t = SeqAdd(s, c - d)
    BY <1>0, <1>1, <1>4, <2>1, <2>2, <2>3, <2>4 DEF Apart, Seq32
  <2> QED
    BY <2>1, <2>2, <2>4, <2>5 DEF t
<1>6. n > 0 => d + n <= Window
  <2> SUFFICES ASSUME n > 0 PROVE d + n <= Window
    OBVIOUS
  <2> DEFINE t == SeqAdd(s, n - 1)
  <2>0. n - 1 \in 0..(n - 1) /\ n - 1 \in 0..SeqMod
    BY <1>0, <1>3
  <2>1. /\ HoldsSeq(sl, t)
        /\ t = IF s + (n - 1) < SeqMod THEN s + (n - 1) ELSE s + (n - 1) - SeqMod
    BY <1>3, <1>4, <2>0
  <2>5. t \in Seq32
    BY <1>0, <1>2, <2>0, <2>1 DEF Seq32
  <2> HIDE DEF t
  <2>2. t % Window \in ValidIdx(sl) /\ sl[t % Window].seq = t
    BY <2>1, <2>5, SlotOfSeq DEF ValidIdx, HoldsSeq
  <2>3. PICK k \in 0..(Window - 1) : d + k <= Window - 1 /\ t = SeqAdd(s, k)
    BY <1>5, <2>2
  <2>6. k \in 0..SeqMod /\ k \in Nat /\ k < SeqMod /\ n - 1 < SeqMod /\ n - 1 \in Nat
    BY <1>0, <1>3, <2>0
  <2>7. t = IF s + k < SeqMod THEN s + k ELSE s + k - SeqMod
    BY <1>4, <2>3, <2>6
  <2>4. k = n - 1
    BY <1>0, <1>2, <2>0, <2>1, <2>6, <2>7 DEF Seq32
  <2> QED
    BY <1>0, <1>3, <2>3, <2>4
<1>7. m = (IF s + n < SeqMod THEN s + n ELSE s + n - SeqMod) /\ m \in Seq32
  <2>1. n \in 0..SeqMod
    BY <1>0, <1>3
  <2>2. m = IF s + n < SeqMod THEN s + n ELSE s + n - SeqMod
    BY <1>4, <2>1
  <2> QED
    BY <1>0, <1>2, <2>1, <2>2 DEF Seq32
<1>8. RunIdx(sl, s) \in SUBSET ValidIdx(sl)
  BY <1>2, RunFacts
<1> HIDE DEF m
<1>9. /\ ValidIdx(Clear(sl, RunIdx(sl, s))) = ValidIdx(sl) \ RunIdx(sl, s)
      /\ \A i \in Idx \ RunIdx(sl, s) : Clear(sl, RunIdx(sl, s))[i] = sl[i]
  BY <1>8, ClearFacts
<1>10. ASSUME NEW i \in ValidIdx(sl) \ RunIdx(sl, s)
       PROVE  SeqDelta(sl[i].seq, m) \in 1..(Window - 1)
  <2> DEFINE t == sl[i].seq
  <2>1. PICK k \in 0..(Window - 1) : d + k <= Window - 1 /\ t = SeqAdd(s, k)
    BY <1>5
  <2>2. t % Window = i /\ t \in Seq32 /\ sl[i].valid
    BY <1>5 DEF ValidIdx
  <2>3. ~(k < n)
    <3>1. k < n => SeqAdd(s, k) % Window \in RunIdx(sl, s)
      <4>1. k < n => k \in Run(sl, s)
        <5>1. k < n => k \in 0..(n - 1)
          BY <1>0, <1>3
        <5> QED
          BY <1>3, <5>1
      <4> QED
        BY <2>1, <4>1 DEF RunIdx
    <3> QED
      BY <2>1, <2>2, <3>1
  <2>4. k # n
    <3>1. HoldsSeq(sl, SeqAdd(s, k))
      BY <2>1, <2>2 DEF HoldsSeq
    <3> QED
      BY <1>0, <1>3, <3>1
  <2> HIDE DEF t
  <2>5. k - n \in 1..(Window - 1)
    BY <1>0, <1>3, <2>3, <2>4
  <2>6. InHalf(k - n) /\ Apart(t, m, k - n)
    <3>1. k \in 0..SeqMod /\ k \in Nat /\ n \in Nat
      BY <1>0, <1>3, <2>1
    <3>2. t = IF s + k < SeqMod THEN s + k ELSE s + k - SeqMod
      BY <1>4, <2>1, <3>1
    <3> QED
      BY <1>0, <1>2, <1>7, <2>2, <2>5, <3>1, <3>2 DEF InHalf, Apart, Seq32
  <2>7. SeqDelta(t, m) = k - n
    BY <1>7, <2>2, <2>6, DeltaIs
  <2> QED
    BY <2>5, <2>7 DEF t
<1>11. AheadOf(Clear(sl, RunIdx(sl, s)), m)
  BY <1>5, <1>9, <1>10 DEF AheadOf, ValidIdx
<1> QED
  BY <1>0, <1>3, <1>6, <1>11 DEF m

(* Where flow_skip_gap goes on: the nearest datagram held.                 *)
LEMMA SkipsToNearest ==
  ASSUME NEW fl \in FlowRec, NEW sl \in [Idx -> SlotRec], AheadOf(sl, fl.next),
         ValidIdx(sl) # {}
  PROVE  /\ SmallestAhead(fl, sl) # {} /\ SkipTo(fl, sl) \in Seq32
         /\ \E d \in 1..(Window - 1) :
              /\ SkipTo(fl, sl) = SeqAdd(fl.next, d)
              /\ \A i \in ValidIdx(sl) : SeqDelta(sl[i].seq, fl.next) >= d
<1> DEFINE D == {SeqDelta(sl[i].seq, fl.next) : i \in ValidIdx(sl)}
           e == Min(D)
<1>0. 2 * Window < SeqMod /\ Window \in Nat \ {0} /\ SeqMod \in Nat \ {0} /\ fl.next \in Seq32
  BY SizesAssumption DEF FlowRec
<1>1. \A i \in ValidIdx(sl) : SeqDelta(sl[i].seq, fl.next) \in 1..(Window - 1)
  BY DEF AheadOf
<1>2. D \subseteq 1..(Window - 1) /\ D # {}
  BY <1>1
<1>4. D \subseteq Nat
  BY <1>2
<1>5. e \in D /\ \A y \in D : e <= y
  <2> HIDE DEF D
  <2> QED
    BY <1>2, <1>4, MinIsLeast
<1>6. PICK h \in ValidIdx(sl) : e = SeqDelta(sl[h].seq, fl.next)
  BY <1>5
<1>7. \A i \in ValidIdx(sl) : e <= SeqDelta(sl[i].seq, fl.next)
  BY <1>5
<1> HIDE DEF D, e
<1>8. sl[h].seq \in SmallestAhead(fl, sl)
  BY <1>0, <1>1, <1>6, <1>7 DEF SmallestAhead
<1> DEFINE s == SkipTo(fl, sl)
<1>9. s \in SmallestAhead(fl, sl)
  BY <1>8 DEF SkipTo
<1> HIDE DEF s
<1>10. PICK j \in ValidIdx(sl) : s = sl[j].seq
  BY <1>9 DEF SmallestAhead
<1>11. SeqDelta(s, fl.next) = e
  <2>1. SeqDelta(s, fl.next) <= SeqDelta(sl[h].seq, fl.next)
    BY <1>0, <1>1, <1>9 DEF SmallestAhead
  <2> QED
    BY <1>1, <1>6, <1>7, <1>10, <2>1
<1>12. s \in Seq32
  BY <1>10 DEF ValidIdx, SlotRec
<1>13. e \in 1..(Window - 1) /\ Apart(s, fl.next, e)
  BY <1>0, <1>1, <1>6, <1>11, <1>12, DeltaIs
<1>14. s = SeqAdd(fl.next, e)
  <2>1. e \in 0..SeqMod
    BY <1>0, <1>13
  <2>2. SeqAdd(fl.next, e) = IF fl.next + e < SeqMod THEN fl.next + e ELSE fl.next + e - SeqMod
    BY <1>0, <2>1, SeqAddIs
  <2> QED
    BY <1>0, <1>12, <1>13, <2>1, <2>2 DEF Apart, Seq32
<1> QED
  BY <1>7, <1>8, <1>12, <1>13, <1>14, <1>1 DEF s

(* n datagrams in a row go out, the first d ahead of next, inside the      *)
(* window.                                                                 *)
SendsFrom(next, d, n, o) ==
  /\ d \in 0..(Window - 1) /\ n \in 1..Window /\ d + n <= Window
  /\ o = [k \in 1..n |-> SeqAdd(SeqAdd(next, d), k - 1)]

(* flow_skip_gap sends what is nearest and what follows it.                *)
LEMMA SkipSends ==
  ASSUME NEW fl \in FlowRec, NEW sl \in [Idx -> SlotRec], AheadOf(sl, fl.next),
         ValidIdx(sl) # {}
  PROVE  /\ AheadOf(Clear(sl, SkipIdx(fl, sl)), SkipFlow(fl, sl).next)
         /\ \E d, n : /\ SendsFrom(fl.next, d, n, SkipSeqs(fl, sl))
                      /\ SkipFlow(fl, sl).next = SeqAdd(SeqAdd(fl.next, d), n)
<1> DEFINE s == SkipTo(fl, sl)
           n == Cardinality(Run(sl, s))
<1>0. 2 * Window < SeqMod /\ Window \in Nat \ {0} /\ SeqMod \in Nat \ {0} /\ fl.next \in Seq32
  BY SizesAssumption DEF FlowRec
<1>1. SmallestAhead(fl, sl) # {} /\ s \in Seq32
  BY SkipsToNearest
<1>2. PICK d \in 1..(Window - 1) :
        s = SeqAdd(fl.next, d) /\ \A i \in ValidIdx(sl) : SeqDelta(sl[i].seq, fl.next) >= d
  BY SkipsToNearest
<1>3. SkipIdx(fl, sl) = RunIdx(sl, s) /\ SkipSeqs(fl, sl) = RunSeqs(sl, s)
  BY <1>1 DEF SkipIdx, SkipSeqs
<1>4. SkipFlow(fl, sl).next = SeqAdd(s, n)
  <2> DEFINE g == Flushed(fl, sl, s)
  <2>1. g \in FlowRec
    BY <1>1, FlushedFacts
  <2>2. g.next = SeqAdd(s, n)
    BY DEF Flushed, FlowRec
  <2>3. SkipFlow(fl, sl) = [g EXCEPT !.gap = IF g.held > 0 THEN Least(fl.seen, Hold) ELSE @]
    BY <1>1 DEF SkipFlow
  <2> HIDE DEF g, n, s
  <2> QED
    BY <2>1, <2>2, <2>3 DEF FlowRec
<1>5. n \in 0..Window /\ (n < Window => ~HoldsSeq(sl, SeqAdd(s, n)))
  BY <1>1, RunShape
<1>6. HoldsSeq(sl, s)
  <2>1. s \in SmallestAhead(fl, sl)
    BY <1>1 DEF SkipTo
  <2>2. PICK j \in ValidIdx(sl) : s = sl[j].seq
    BY <2>1 DEF SmallestAhead
  <2> QED
    BY <2>2 DEF AheadOf, HoldsSeq, ValidIdx
<1> HIDE DEF s
<1>7. SeqAdd(s, 0) = s
  BY <1>0, <1>1, SeqAddIs DEF Seq32
<1>8. n # 0
  BY <1>0, <1>5, <1>6, <1>7
<1> HIDE DEF n
<1>9. d \in 1..Window
  BY <1>0
<1>10. n \in Nat /\ (n > 0 => d + n <= Window) /\ AheadOf(Clear(sl, RunIdx(sl, s)), SeqAdd(s, n))
  BY <1>0, <1>2, <1>9, FlushAhead DEF n
<1>11. RunSeqs(sl, s) = [k \in 1..n |-> SeqAdd(SeqAdd(fl.next, d), k - 1)]
  BY <1>2 DEF RunSeqs, n
<1>12. SendsFrom(fl.next, d, n, SkipSeqs(fl, sl))
  BY <1>0, <1>3, <1>5, <1>8, <1>10, <1>11 DEF SendsFrom
<1> QED
  BY <1>2, <1>3, <1>4, <1>10, <1>12

(* The datagram that is awaited goes out with what waited behind it.       *)
LEMMA EmitSends ==
  ASSUME NEW next \in Seq32, NEW sl \in [Idx -> SlotRec], AheadOf(sl, next),
         NEW m, m = SeqAdd(next, 1)
  PROVE  LET n == Cardinality(Run(sl, m)) IN
         /\ AheadOf(Clear(sl, RunIdx(sl, m)), SeqAdd(m, n))
         /\ SendsFrom(next, 0, n + 1, <<next>> \o RunSeqs(sl, m))
         /\ SeqAdd(m, n) = SeqAdd(SeqAdd(next, 0), n + 1)
<1> DEFINE n == Cardinality(Run(sl, m))
<1>0. 2 * Window < SeqMod /\ Window \in Nat \ {0} /\ SeqMod \in Nat \ {0} /\ 1 \in 1..Window
  BY SizesAssumption
<1>1. \A i \in ValidIdx(sl) : SeqDelta(sl[i].seq, next) >= 1
  BY <1>0 DEF AheadOf
<1>2. /\ n \in Nat /\ (n > 0 => 1 + n <= Window)
      /\ AheadOf(Clear(sl, RunIdx(sl, m)), SeqAdd(m, n))
  BY <1>0, <1>1, FlushAhead
<1>3. m = IF next + 1 < SeqMod THEN next + 1 ELSE next + 1 - SeqMod
  BY <1>0, SeqAddIs
<1>4. m \in Seq32 /\ RunSeqs(sl, m) = [k \in 1..n |-> SeqAdd(m, k - 1)]
  BY <1>0, <1>3 DEF Seq32, RunSeqs
<1> HIDE DEF n
<1>5. SeqAdd(next, 0) = next
  BY <1>0, SeqAddIs DEF Seq32
<1>6. ASSUME NEW k \in 0..n PROVE SeqAdd(m, k) = SeqAdd(next, k + 1)
  <2>1. k \in 0..SeqMod /\ k + 1 \in 0..SeqMod /\ k \in Int
    BY <1>0, <1>2
  <2>2. /\ SeqAdd(m, k) = IF m + k < SeqMod THEN m + k ELSE m + k - SeqMod
        /\ SeqAdd(next, k + 1) = IF next + (k + 1) < SeqMod THEN next + (k + 1)
                                 ELSE next + (k + 1) - SeqMod
    BY <1>4, <2>1, SeqAddIs
  <2> QED
    BY <1>0, <1>3, <2>1, <2>2 DEF Seq32
<1>7. <<next>> \o RunSeqs(sl, m) = [k \in 1..(n + 1) |-> SeqAdd(SeqAdd(next, 0), k - 1)]
  <2> DEFINE t == RunSeqs(sl, m)
             o == <<next>> \o t
             p == [k \in 1..(n + 1) |-> SeqAdd(SeqAdd(next, 0), k - 1)]
  <2>1. t \in Seq(Seq32) /\ Len(t) = n
    BY <1>2, <1>4, RunFacts DEF Seq32
  <2>2. \A k \in 1..n : t[k] = SeqAdd(next, k)
    <3>1. ASSUME NEW k \in 1..n PROVE t[k] = SeqAdd(next, k)
      <4>1. t[k] = SeqAdd(m, k - 1) /\ k - 1 \in 0..n /\ (k - 1) + 1 = k
        BY <1>2, <1>4
      <4> QED
        BY <1>6, <4>1
    <3> QED
      BY <3>1
  <2> HIDE DEF t
  <2>3. o \in Seq(Seq32) /\ Len(o) = 1 + n /\ o[1] = next /\ \A k \in 1..n : o[1 + k] = t[k]
    BY <1>2, <2>1
  <2>4. o = [k \in 1..(n + 1) |-> o[k]]
    BY <1>2, <2>3
  <2> HIDE DEF o
  <2>5. \A k \in 1..(n + 1) : o[k] = SeqAdd(SeqAdd(next, 0), k - 1)
    <3>1. ASSUME NEW k \in 1..(n + 1) PROVE o[k] = SeqAdd(next, k - 1)
      <4>1. CASE k = 1
        BY <1>5, <2>3, <4>1
      <4>2. CASE k # 1
        <5>1. k - 1 \in 1..n /\ 1 + (k - 1) = k
          BY <1>2, <4>2
        <5> QED
          BY <2>2, <2>3, <5>1
      <4> QED
        BY <4>1, <4>2
    <3> QED
      BY <1>5, <3>1
  <2> QED
    BY <2>4, <2>5 DEF o, t
<1>8. SeqAdd(m, n) = SeqAdd(SeqAdd(next, 0), n + 1)
  BY <1>2, <1>5, <1>6
<1>9. 0 \in 0..(Window - 1) /\ n + 1 \in 1..Window /\ 0 + (n + 1) <= Window
  BY <1>0, <1>2
<1> QED
  BY <1>2, <1>7, <1>8, <1>9 DEF SendsFrom, n

(* What goes out is in order, and next comes right after it.               *)
LEMMA SendsInOrder ==
  ASSUME NEW next \in Seq32, NEW d, NEW n, NEW o, SendsFrom(next, d, n, o)
  PROVE  /\ Len(o) = n /\ o # << >> /\ DOMAIN o = 1..n /\ o[n] \in Seq32
         /\ Apart(SeqAdd(SeqAdd(next, d), n), o[n], 1)
         /\ \A i \in 2..n : SeqDelta(o[i], o[i - 1]) > 0
         /\ \A l \in Seq32, g \in Nat \ {0} :
              Apart(next, l, g) /\ 2 * (g + Window - 1) < SeqMod => SeqDelta(o[1], l) > 0
<1> DEFINE b == SeqAdd(next, d)
<1>0. /\ 2 * Window < SeqMod /\ Window \in Nat \ {0} /\ SeqMod \in Nat \ {0}
      /\ d \in 0..(Window - 1) /\ n \in 1..Window /\ d \in 0..SeqMod
      /\ d \in Nat /\ n \in Nat
  BY SizesAssumption DEF SendsFrom
<1>1. b = IF next + d < SeqMod THEN next + d ELSE next + d - SeqMod
  BY <1>0, SeqAddIs
<1>2. b \in Seq32 /\ o = [k \in 1..n |-> SeqAdd(b, k - 1)]
  BY <1>0, <1>1 DEF Seq32, SendsFrom
<1> HIDE DEF b
<1>3. ASSUME NEW k \in 0..SeqMod
      PROVE  /\ SeqAdd(b, k) = IF b + k < SeqMod THEN b + k ELSE b + k - SeqMod
             /\ k < SeqMod => SeqAdd(b, k) \in Seq32
  BY <1>0, <1>2, SeqAddIs DEF Seq32
<1>4. \A i \in 1..n : o[i] = SeqAdd(b, i - 1)
  BY <1>2
<1>5. DOMAIN o = 1..n /\ Len(o) = n /\ o # << >>
  BY <1>0, <1>2
<1>6. ASSUME NEW i \in 1..n
      PROVE  /\ o[i] \in Seq32 /\ SeqAdd(b, i) \in Seq32
             /\ Apart(SeqAdd(b, i), o[i], 1)
  <2>1. i \in 0..SeqMod /\ i - 1 \in 0..SeqMod /\ i < SeqMod /\ i - 1 < SeqMod /\ i \in Nat
    BY <1>0
  <2>2. o[i] = SeqAdd(b, i - 1) /\ o[i] \in Seq32 /\ SeqAdd(b, i) \in Seq32
    BY <1>3, <1>4, <2>1
  <2>3. /\ SeqAdd(b, i) = IF b + i < SeqMod THEN b + i ELSE b + i - SeqMod
        /\ SeqAdd(b, i - 1) = IF b + (i - 1) < SeqMod THEN b + (i - 1)
                              ELSE b + (i - 1) - SeqMod
    BY <1>3, <2>1
  <2> QED
    BY <1>0, <1>2, <2>1, <2>2, <2>3 DEF Apart, Seq32
<1>7. ASSUME NEW i \in 2..n PROVE SeqDelta(o[i], o[i - 1]) > 0
  <2>1. i - 1 \in 1..n /\ i \in 1..n /\ i \in Nat
    BY <1>0
  <2>2. o[i] = SeqAdd(b, i - 1)
    BY <1>4, <2>1
  <2>3. Apart(o[i], o[i - 1], 1) /\ o[i] \in Seq32 /\ o[i - 1] \in Seq32
    BY <1>6, <2>1, <2>2
  <2>4. InHalf(1)
    BY <1>0 DEF InHalf
  <2>5. SeqDelta(o[i], o[i - 1]) = 1
    BY <2>3, <2>4, DeltaIs
  <2> QED
    BY <2>5
<1>8. ASSUME NEW l \in Seq32, NEW g \in Nat \ {0},
             Apart(next, l, g), 2 * (g + Window - 1) < SeqMod
      PROVE  SeqDelta(o[1], l) > 0
  <2>1. 1 \in 1..n /\ 0 \in 0..SeqMod
    BY <1>0
  <2>2. o[1] = SeqAdd(b, 0)
    BY <1>4, <2>1
  <2>3. o[1] = b
    BY <1>0, <1>2, <1>3, <2>1, <2>2 DEF Seq32
  <2>4. InHalf(g + d) /\ Apart(b, l, g + d)
    BY <1>0, <1>1, <1>2, <1>8 DEF InHalf, Apart, Seq32
  <2>5. SeqDelta(b, l) = g + d
    BY <1>2, <2>4, DeltaIs
  <2> QED
    BY <1>0, <2>3, <2>5
<1>9. n \in 1..n
  BY <1>0
<1> QED
  BY <1>5, <1>6, <1>7, <1>8, <1>9 DEF b

(* The call has an entry that holds nothing and is about to store.         *)
Awaiting(f) == pc = "recheck" /\ cur.flow = f /\ CurDelta >= 0

(* What a step does to an entry: it leaves it alone, ends its use, or      *)
(* sends a run of datagrams from it.                                       *)
Calm(f) ==
  /\ flows'[f].valid => flows[f].valid
  /\ flows'[f].next = flows[f].next /\ flows'[f].held = flows[f].held
  /\ slots'[f] = slots[f] /\ out'[f] = << >> /\ last'[f] = last[f]
  /\ Awaiting(f) /\ flows[f].held = 0 => Awaiting(f)'
Quits(f) ==
  ValidIdx(slots'[f]) = {} /\ out'[f] = << >> /\ (flows'[f].valid => last'[f] = NoSeq)
Sends(f) ==
  /\ flows[f].valid /\ AheadOf(slots'[f], flows'[f].next)
  /\ \E d, n :
       /\ SendsFrom(flows[f].next, d, n, out'[f]) /\ last'[f] = out'[f][n]
       /\ flows'[f].valid => flows'[f].next = SeqAdd(SeqAdd(flows[f].next, d), n)

(* An entry and what it holds.                                             *)
LEMMA EntryFacts ==
  ASSUME IInv, NEW f \in Flow
  PROVE  /\ flows[f] \in FlowRec /\ slots[f] \in [Idx -> SlotRec]
         /\ flows[f].next \in Seq32 /\ flows[f].held \in Nat
         /\ flows[f].held = 0 <=> ValidIdx(slots[f]) = {}
         /\ flows[f].held > 0 => flows[f].valid
         /\ last[f] \in Seq32 \cup {NoSeq}
<1>1. TypeOK /\ TableOK
  BY IInvTable DEF IInv
<1>2. flows[f].held = Cardinality(ValidIdx(slots[f]))
  BY <1>1 DEF TableOK, HeldCounts
<1>3. IsFiniteSet(ValidIdx(slots[f]))
  BY CardIdx DEF ValidIdx
<1>4. flows[f].held = 0 <=> ValidIdx(slots[f]) = {}
  BY <1>2, <1>3, FS_EmptySet
<1> QED
  BY <1>1, <1>4 DEF TableOK, UnusedHoldsNothing, FlowRec, TypeOK

(* No datagram is held by an entry whose counter is 0.                     *)
HoldsNone == \A f \in Flow : flows[f].held = 0 <=> ValidIdx(slots[f]) = {}
LEMMA EntryHolds == IInv => HoldsNone
BY EntryFacts DEF HoldsNone

(* What is awaited is a sequence number.                                    *)
NextTyped == \A f \in Flow : flows[f].next \in Seq32
LEMMA NextTypes == IInv => NextTyped
BY EntryFacts DEF NextTyped

(* HeldAhead, entry by entry.                                              *)
LEMMA AheadEntry ==
  /\ HeldAhead <=> \A f \in Flow : AheadOf(slots[f], flows[f].next)
  /\ HeldAhead' <=> \A f \in Flow : AheadOf(slots'[f], flows'[f].next)
BY DEF HeldAhead, AheadOf

(* The history of a step that sends the runs o.                            *)
LEMMA EmitsIs ==
  ASSUME NEW o \in [Flow -> Seq(Seq32)], Emits(o), NEW f \in Flow
  PROVE  /\ out'[f] = o[f]
         /\ o[f] = << >> => last'[f] = last[f]
         /\ o[f] # << >> => last'[f] = o[f][Len(o[f])]
BY DEF Emits

(* flow_skip_gap on an entry that holds something.                         *)
LEMMA SkipGapMoves ==
  ASSUME IInv, HeldAhead, NEW f \in Flow, flows[f].held > 0, SkipGap(f)
  PROVE  /\ Sends(f)
         /\ \A g \in Flow \ {f} : /\ flows'[g] = flows[g] /\ slots'[g] = slots[g]
                                  /\ out'[g] = << >> /\ last'[g] = last[g]
<1> DEFINE fl == flows[f]
           sl == slots[f]
           o == [Quiet EXCEPT ![f] = SkipSeqs(fl, sl)]
<1>1. /\ fl \in FlowRec /\ sl \in [Idx -> SlotRec] /\ fl.next \in Seq32
      /\ ValidIdx(sl) # {} /\ fl.valid
  BY EntryFacts
<1>2. AheadOf(sl, fl.next)
  BY AheadEntry
<1>3. /\ AheadOf(Clear(sl, SkipIdx(fl, sl)), SkipFlow(fl, sl).next)
      /\ \E d, n : /\ SendsFrom(fl.next, d, n, SkipSeqs(fl, sl))
                   /\ SkipFlow(fl, sl).next = SeqAdd(SeqAdd(fl.next, d), n)
  <2> HIDE DEF fl, sl
  <2> QED
    BY <1>1, <1>2, SkipSends
<1>4. TypeOK
  BY DEF IInv
<1>5. /\ flows' = [flows EXCEPT ![f] = SkipFlow(fl, sl)]
      /\ slots' = [slots EXCEPT ![f] = Clear(sl, SkipIdx(fl, sl))]
      /\ Emits(o)
  BY DEF SkipGap
<1>6. SkipSeqs(fl, sl) \in Seq(Seq32)
  BY <1>1, SkipFacts
<1>7. /\ flows'[f] = SkipFlow(fl, sl) /\ slots'[f] = Clear(sl, SkipIdx(fl, sl))
      /\ \A g \in Flow \ {f} : flows'[g] = flows[g] /\ slots'[g] = slots[g]
  BY <1>4, <1>5 DEF TypeOK
<1>8. o \in [Flow -> Seq(Seq32)] /\ o[f] = SkipSeqs(fl, sl) /\ \A g \in Flow \ {f} : o[g] = << >>
  BY <1>6, QuietType DEF Quiet
<1> HIDE DEF o, fl, sl
<1>9. PICK d, n : /\ SendsFrom(fl.next, d, n, SkipSeqs(fl, sl))
                  /\ SkipFlow(fl, sl).next = SeqAdd(SeqAdd(fl.next, d), n)
  BY <1>3
<1>10. Len(o[f]) = n /\ o[f] # << >>
  BY <1>1, <1>8, <1>9, SendsInOrder
<1>11. out'[f] = o[f] /\ last'[f] = o[f][n]
  BY <1>5, <1>8, <1>10, EmitsIs
<1>12. \A g \in Flow \ {f} : out'[g] = << >> /\ last'[g] = last[g]
  BY <1>5, <1>8, EmitsIs
<1>13. Sends(f)
  BY <1>1, <1>3, <1>7, <1>8, <1>9, <1>11 DEF Sends, fl
<1> QED
  BY <1>7, <1>12, <1>13

(* The slice of GC.                                                        *)
LEMMA GcMoves ==
  ASSUME IInv, HeldAhead, Gc, NEW f \in Flow
  PROVE  Calm(f) \/ Quits(f) \/ Sends(f)
<1> DEFINE o == [h \in Flow |-> IF GcSkips(h) THEN SkipSeqs(flows[h], slots[h]) ELSE << >>]
           fl == IF GcSkips(f) THEN SkipFlow(flows[f], slots[f]) ELSE flows[f]
<1>1. /\ flows[f] \in FlowRec /\ slots[f] \in [Idx -> SlotRec] /\ flows[f].next \in Seq32
      /\ flows[f].held = 0 <=> ValidIdx(slots[f]) = {}
  BY EntryFacts
<1>2. /\ flows'[f] = GcFlow(f) /\ slots'[f] = Clear(slots[f], GcIdx(f))
      /\ Emits(o) /\ pc = "idle"
  BY DEF Gc
<1>3. o \in [Flow -> Seq(Seq32)]
  <2>1. ASSUME NEW h \in Flow PROVE o[h] \in Seq(Seq32)
    <3>1. flows[h] \in FlowRec /\ slots[h] \in [Idx -> SlotRec]
      BY EntryFacts
    <3>2. SkipSeqs(flows[h], slots[h]) \in Seq(Seq32)
      BY <3>1, SkipFacts
    <3> QED
      BY <3>2, EmptySeq
  <2> QED
    BY <2>1
<1>4. GcFlow(f) = IF InSlice(f) /\ fl.valid /\ fl.held = 0 /\ fl.seen > Idle
                  THEN EmptyFlow ELSE fl
  BY DEF GcFlow
<1>5. GcFlow(f) = fl \/ (GcFlow(f) = EmptyFlow /\ fl.held = 0)
  BY <1>4
<1>6. ~EmptyFlow.valid
  BY DEF EmptyFlow
<1>7. IInv'
  BY GcInv
<1>8. flows'[f].held = 0 <=> ValidIdx(slots'[f]) = {}
  <2>1. IInv' => HoldsNone'
    BY EntryHolds, PTL
  <2> QED
    BY <1>7, <2>1 DEF HoldsNone
<1>9. CASE GcSkips(f)
  <2>1. flows[f].valid /\ flows[f].held > 0
    BY <1>9 DEF GcSkips, GapDue
  <2>2. ValidIdx(slots[f]) # {} /\ AheadOf(slots[f], flows[f].next)
    BY <1>1, <2>1, AheadEntry
  <2>3. /\ AheadOf(Clear(slots[f], SkipIdx(flows[f], slots[f])), fl.next)
        /\ \E d, n : /\ SendsFrom(flows[f].next, d, n, SkipSeqs(flows[f], slots[f]))
                     /\ fl.next = SeqAdd(SeqAdd(flows[f].next, d), n)
    BY <1>1, <1>9, <2>2, SkipSends
  <2>4. o[f] = SkipSeqs(flows[f], slots[f])
    BY <1>9
  <2>5. slots'[f] = Clear(slots[f], SkipIdx(flows[f], slots[f]))
    BY <1>2, <1>9 DEF GcIdx
  <2> HIDE DEF o, fl
  <2>6. PICK d, n : /\ SendsFrom(flows[f].next, d, n, o[f])
                    /\ fl.next = SeqAdd(SeqAdd(flows[f].next, d), n)
    BY <2>3, <2>4
  <2>7. Len(o[f]) = n /\ o[f] # << >>
    BY <1>1, <2>6, SendsInOrder
  <2>8. out'[f] = o[f] /\ last'[f] = o[f][n]
    BY <1>2, <1>3, <2>7, EmitsIs
  <2>9. flows'[f].valid => flows'[f].next = fl.next
    BY <1>2, <1>5, <1>6
  <2>10. AheadOf(slots'[f], flows'[f].next)
    <3>1. CASE GcFlow(f) = fl
      BY <1>2, <2>3, <2>5, <3>1
    <3>2. CASE GcFlow(f) = EmptyFlow
      <4>1. flows'[f].held = 0
        BY <1>2, <3>2 DEF EmptyFlow
      <4> QED
        BY <1>8, <4>1 DEF AheadOf
    <3> QED
      BY <1>5, <3>1, <3>2
  <2> QED
    BY <2>1, <2>6, <2>8, <2>9, <2>10 DEF Sends
<1>10. CASE ~GcSkips(f)
  <2>1. fl = flows[f] /\ o[f] = << >>
    BY <1>10
  <2>2. slots'[f] = slots[f]
    BY <1>1, <1>2, <1>10 DEF GcIdx, Clear
  <2> HIDE DEF o, fl
  <2>3. out'[f] = << >> /\ last'[f] = last[f]
    BY <1>2, <1>3, <2>1, EmitsIs
  <2>4. CASE GcFlow(f) = fl
    BY <1>2, <2>1, <2>2, <2>3, <2>4 DEF Calm, Awaiting
  <2>5. CASE GcFlow(f) = EmptyFlow /\ fl.held = 0
    BY <1>1, <1>2, <1>6, <2>1, <2>2, <2>3, <2>5 DEF Quits
  <2> QED
    BY <1>5, <2>4, <2>5
<1> QED
  BY <1>9, <1>10

(* A call starts: flow_lookup finds or resets its entry.                   *)
LEMMA SubmitMoves ==
  ASSUME IInv, NEW g \in Flow, NEW k \in Keys, NEW e \in Epochs, NEW s \in Seqs,
         NEW x \in Frames \ owned, Submit(g, k, e, s, x), NEW f \in Flow
  PROVE  Calm(f) \/ Quits(f)
<1>1. TypeOK /\ pc = "idle"
  BY DEF IInv, Submit
<1>2. \A h \in Flow : Quiet[h] = << >>
  BY DEF Quiet
<1>3. CASE SubmitKnown(g, k, e)
  <2>1. /\ flows'[f].next = flows[f].next /\ flows'[f].held = flows[f].held
        /\ flows'[f].valid = flows[f].valid
    BY <1>1, <1>3 DEF SubmitKnown, TypeOK
  <2> QED
    BY <1>1, <1>2, <1>3, <2>1 DEF SubmitKnown, Silent, Calm, Awaiting
<1>4. CASE SubmitReset(g, k, e, s)
  <2>1. out'[f] = << >>
    BY <1>2, <1>4 DEF SubmitReset
  <2>2. CASE f = g
    <3>1. slots'[f] = Clear(slots[f], ValidIdx(slots[f])) /\ last'[f] = NoSeq
      BY <1>1, <1>4, <2>2, DroppableFacts DEF SubmitReset, TypeOK
    <3>2. ValidIdx(slots'[f]) = {}
      BY <3>1 DEF ValidIdx, Clear, EmptySlot
    <3> QED
      BY <2>1, <3>1, <3>2 DEF Quits
  <2>3. CASE f # g
    <3>1. flows'[f] = flows[f] /\ slots'[f] = slots[f] /\ last'[f] = last[f]
      BY <1>1, <1>4, <2>3 DEF SubmitReset, TypeOK
    <3> QED
      BY <1>1, <2>1, <3>1 DEF Calm, Awaiting
  <2> QED
    BY <2>2, <2>3
<1> QED
  BY <1>3, <1>4 DEF Submit

(* The awaited datagram.                                                   *)
LEMMA EmitNextMoves ==
  ASSUME IInv, HeldAhead, EmitNext, NEW f \in Flow
  PROVE  Calm(f) \/ Sends(f)
<1> DEFINE c == cur.flow
           fl == flows[c]
           sl == slots[c]
           m == SeqAdd(fl.next, 1)
           n == Cardinality(Run(sl, m))
           t == <<cur.seq>> \o RunSeqs(sl, m)
           o == [Quiet EXCEPT ![c] = t]
<1>1. /\ c \in Flow /\ fl \in FlowRec /\ sl \in [Idx -> SlotRec] /\ fl.next \in Seq32
      /\ cur.seq \in Seq32
  BY CurTypes, EntryFacts
<1>2. TypeOK /\ pc # "idle" /\ fl.valid
  BY DEF IInv, EmitNext, BusyEntry
<1>3. cur.seq = fl.next
  <2>1. Apart(cur.seq, fl.next, 0)
    BY <1>1, DeltaIs DEF EmitNext, CurDelta
  <2> QED
    BY <1>1, <2>1, Sizes DEF Apart, Seq32
<1>4. /\ flows' = [flows EXCEPT ![c] = Flushed(fl, sl, m)]
      /\ slots' = [slots EXCEPT ![c] = Clear(sl, RunIdx(sl, m))]
      /\ Emits(o)
  BY DEF EmitNext
<1>5. Flushed(fl, sl, m).next = SeqAdd(m, n)
  BY <1>1 DEF Flushed, FlowRec
<1>6. m \in Seq32
  <2>1. fl.next \in Int /\ 1 \in Int
    BY <1>1 DEF Seq32
  <2> HIDE DEF fl
  <2> QED
    BY <2>1, SeqAddType
<1>7. RunSeqs(sl, m) \in Seq(Seq32)
  <2> HIDE DEF m, sl
  <2> QED
    BY <1>1, <1>6, RunFacts
<1>8. t \in Seq(Seq32)
  BY <1>1, <1>7
<1>9. AheadOf(sl, fl.next)
  BY <1>1, AheadEntry
<1>10. /\ AheadOf(Clear(sl, RunIdx(sl, m)), SeqAdd(m, n))
       /\ SendsFrom(fl.next, 0, n + 1, <<fl.next>> \o RunSeqs(sl, m))
       /\ SeqAdd(m, n) = SeqAdd(SeqAdd(fl.next, 0), n + 1)
  <2> DEFINE b == fl.next
  <2>1. b \in Seq32 /\ AheadOf(sl, b) /\ m = SeqAdd(b, 1)
    BY <1>1, <1>9
  <2> HIDE DEF b, m, sl
  <2>2. /\ AheadOf(Clear(sl, RunIdx(sl, m)), SeqAdd(m, n))
        /\ SendsFrom(b, 0, n + 1, <<b>> \o RunSeqs(sl, m))
        /\ SeqAdd(m, n) = SeqAdd(SeqAdd(b, 0), n + 1)
    BY <1>1, <2>1, EmitSends
  <2> QED
    BY <2>2 DEF b
<1>11. SendsFrom(fl.next, 0, n + 1, t)
  BY <1>3, <1>10
<1>12. /\ flows'[c] = Flushed(fl, sl, m) /\ slots'[c] = Clear(sl, RunIdx(sl, m))
       /\ \A g \in Flow \ {c} : flows'[g] = flows[g] /\ slots'[g] = slots[g]
  BY <1>1, <1>2, <1>4 DEF TypeOK
<1>13. o \in [Flow -> Seq(Seq32)] /\ o[c] = t /\ \A g \in Flow \ {c} : o[g] = << >>
  <2> HIDE DEF t
  <2> QED
    BY <1>1, <1>8, QuietType DEF Quiet
<1> HIDE DEF o, t, n, m, sl, fl
<1>14. CASE f = c
  <2>1. Len(t) = n + 1 /\ t # << >>
    BY <1>1, <1>11, SendsInOrder
  <2>2. out'[c] = t /\ last'[c] = t[n + 1]
    <3>1. o[c] # << >> /\ Len(o[c]) = n + 1 /\ Emits(o) /\ o \in [Flow -> Seq(Seq32)]
      BY <1>4, <1>13, <2>1
    <3>2. out'[c] = o[c] /\ last'[c] = o[c][Len(o[c])]
      BY <1>1, <3>1, EmitsIs
    <3> QED
      BY <1>13, <3>1, <3>2
  <2>3. flows'[c].next = SeqAdd(m, n) /\ AheadOf(slots'[c], flows'[c].next)
    BY <1>5, <1>10, <1>12
  <2>4. Sends(c)
    BY <1>2, <1>10, <1>11, <2>2, <2>3 DEF Sends, fl
  <2> QED
    BY <1>14, <2>4
<1>15. CASE f # c
  <2>1. flows'[f] = flows[f] /\ slots'[f] = slots[f] /\ ~Awaiting(f)
    BY <1>12, <1>15 DEF Awaiting
  <2>2. out'[f] = << >> /\ last'[f] = last[f]
    BY <1>4, <1>13, <1>15, EmitsIs
  <2> QED
    BY <2>1, <2>2 DEF Calm
<1> QED
  BY <1>14, <1>15

(* What one step does to each entry, while the worker is below its cap.    *)
LEMMA Moves ==
  ASSUME IInv, HeldAhead, held < HeldCap, pc # "capped", Next, NEW f \in Flow
  PROVE  Calm(f) \/ Quits(f) \/ Sends(f) \/ (f = cur.flow /\ (RoomMade \/ StoreItem))
<1>1. TypeOK /\ cur.flow \in Flow /\ Quiet[f] = << >>
  BY CurTypes DEF IInv, Quiet
<1>2. ASSUME SkipGap(cur.flow), flows[cur.flow].held > 0, ~Awaiting(f) PROVE Calm(f) \/ Sends(f)
  <2>1. CASE f = cur.flow
    BY <1>1, <1>2, <2>1, SkipGapMoves
  <2>2. CASE f # cur.flow
    BY <1>1, <1>2, <2>2, SkipGapMoves DEF Calm
  <2> QED
    BY <2>1, <2>2
<1>3. ASSUME Silent, flows'[f] = flows[f], slots'[f] = slots[f],
             ~Awaiting(f) \/ flows[f].held # 0 \/ UNCHANGED <<pc, cur, flows>>
      PROVE  Calm(f)
  <2>1. Awaiting(f) /\ UNCHANGED <<pc, cur, flows>> => Awaiting(f)'
    BY DEF Awaiting, CurDelta
  <2> QED
    BY <1>1, <1>3, <2>1 DEF Silent, Calm
<1>4. ASSUME NEW g \in Flow, NEW k \in Keys, NEW e \in Epochs, NEW s \in Seqs,
             NEW x \in Frames \ owned, Submit(g, k, e, s, x)
      PROVE  Calm(f) \/ Quits(f)
  BY <1>4, SubmitMoves
<1>5. CASE ExpireGap
  <2>1. ~Awaiting(f)
    BY <1>5 DEF ExpireGap, Awaiting
  <2>2. CASE GapDue(flows[cur.flow]) /\ SkipGap(cur.flow)
    BY <1>2, <2>1, <2>2 DEF GapDue
  <2>3. CASE Silent /\ UNCHANGED <<flows, slots>>
    BY <1>3, <2>1, <2>3
  <2> QED
    BY <1>5, <2>2, <2>3 DEF ExpireGap
<1>6. CASE EmitNext
  BY <1>6, EmitNextMoves
<1>7. CASE RoomSkip
  <2>1. ~Awaiting(f) /\ SkipGap(cur.flow) /\ flows[cur.flow].held > 0
    BY <1>7 DEF RoomSkip, InRoom, Awaiting
  <2> QED
    BY <1>2, <2>1
<1>8. CASE RoomMade /\ f # cur.flow
  <2>1. ~Awaiting(f) /\ Silent /\ flows'[f] = flows[f] /\ slots'[f] = slots[f]
    BY <1>1, <1>8 DEF RoomMade, Awaiting, TypeOK
  <2> QED
    BY <1>3, <2>1
<1>9. CASE CapSkip
  <2>1. held \in Nat /\ HeldCap \in Nat
    BY <1>1, Sizes DEF TypeOK
  <2> QED
    BY <1>9, <2>1 DEF CapSkip
<1>10. CASE DropItem
  <2>1. Silent /\ flows'[f] = flows[f] /\ slots'[f] = slots[f]
    BY <1>10 DEF DropItem
  <2>2. ~Awaiting(f) \/ flows[f].held # 0
    <3>1. CASE Late
      <4>1. CurDelta \in Int
        <5>1. cur.seq \in Seq32 /\ flows[cur.flow].next \in Seq32
          BY CurTypes, EntryFacts
        <5> QED
          BY <5>1, DeltaIs DEF CurDelta, InHalf
      <4> QED
        BY <3>1, <4>1 DEF Late, Awaiting
    <3>2. CASE Overflow
      BY <3>2 DEF Overflow
    <3>3. CASE Duplicate /\ Awaiting(f)
      <4>1. CurIdx \in ValidIdx(slots[f])
        BY <3>3, CurTypes DEF Duplicate, CurSlot, Awaiting, ValidIdx
      <4> QED
        BY <4>1, EntryFacts
    <3> QED
      BY <1>10, <3>1, <3>2, <3>3 DEF DropItem
  <2> QED
    BY <1>3, <2>1, <2>2
<1>11. CASE StoreItem /\ f # cur.flow
  <2>1. ~Awaiting(f) /\ Silent /\ flows'[f] = flows[f] /\ slots'[f] = slots[f]
    BY <1>1, <1>11 DEF StoreItem, Awaiting, TypeOK
  <2> QED
    BY <1>3, <2>1
<1>12. CASE Gc
  BY <1>12, GcMoves
<1>13. CASE ResetWorker
  <2>1. slots'[f] = Clear(slots[f], ValidIdx(slots[f])) /\ last'[f] = NoSeq /\ out'[f] = << >>
    BY <1>1, <1>13, DroppableFacts DEF ResetWorker
  <2>2. ValidIdx(slots'[f]) = {}
    BY <2>1 DEF ValidIdx, Clear, EmptySlot
  <2> QED
    BY <2>1, <2>2 DEF Quits
<1>14. CASE Tick
  <2>1. flows[f] \in FlowRec
    BY EntryFacts
  <2>2. /\ flows'[f].next = flows[f].next /\ flows'[f].held = flows[f].held
        /\ flows'[f].valid = flows[f].valid
    BY <1>14, <2>1 DEF Tick, FlowRec
  <2>3. Silent /\ slots' = slots /\ ~Awaiting(f)
    BY <1>14 DEF Tick, Awaiting
  <2> QED
    BY <1>1, <2>2, <2>3 DEF Calm, Silent
<1>15. CASE ToggleCrypto
  BY <1>3, <1>15 DEF ToggleCrypto
<1> QED
  BY <1>4, <1>5, <1>6, <1>7, <1>8, <1>9, <1>10, <1>11, <1>12, <1>13, <1>14, <1>15
     DEF Next, SubmitStep

(* Where a call may stand while the worker is below its cap: what it is    *)
(* about to store is in the window.                                        *)
InWindow == pc # "capped" /\ (pc = "recheck" => CurDelta < Window)

AheadInv == HeldAhead /\ InWindow

(* The steps of flow_make_window_room and of the store.                    *)
LEMMA CurFacts ==
  ASSUME IInv
  PROVE  /\ cur.flow \in Flow /\ cur.seq \in Seq32 /\ flows[cur.flow].next \in Seq32
         /\ InHalf(CurDelta) /\ Apart(cur.seq, flows[cur.flow].next, CurDelta)
         /\ 2 * Window < SeqMod /\ Window \in Nat \ {0} /\ SeqMod \in Nat \ {0}
BY CurTypes, EntryFacts, DeltaIs, SizesAssumption DEF CurDelta

(* An entry that holds nothing slides its window up.                       *)
LEMMA RoomMadeSlides ==
  ASSUME IInv, RoomMade
  PROVE  /\ CurDelta' = IF OutOfRoom THEN Window - 1 ELSE CurDelta
         /\ OutOfRoom => /\ flows[cur.flow].held = 0
                         /\ Apart(flows'[cur.flow].next, flows[cur.flow].next,
                                  CurDelta - (Window - 1))
         /\ ~OutOfRoom => flows'[cur.flow].next = flows[cur.flow].next
         /\ flows'[cur.flow].held = flows[cur.flow].held
         /\ flows'[cur.flow].valid = flows[cur.flow].valid
         /\ UNCHANGED <<slots, cur>>
<1> DEFINE f == cur.flow
           q == SeqMod - (Window - 1)
           n == IF OutOfRoom THEN SeqAdd(cur.seq, q) ELSE flows[f].next
<1>0. TypeOK
  BY DEF IInv
<1>1. /\ f \in Flow /\ cur.seq \in Seq32 /\ flows[f].next \in Seq32 /\ flows[f] \in FlowRec
      /\ InHalf(CurDelta) /\ Apart(cur.seq, flows[f].next, CurDelta)
      /\ 2 * Window < SeqMod /\ Window \in Nat \ {0} /\ SeqMod \in Nat \ {0}
  BY CurFacts, EntryFacts
<1>2. flows' = [flows EXCEPT ![f].next = n] /\ UNCHANGED <<slots, cur>>
  BY DEF RoomMade
<1>3. q \in 0..SeqMod /\ q \in Nat
  BY <1>1
<1>4. SeqAdd(cur.seq, q) = IF cur.seq + q < SeqMod THEN cur.seq + q ELSE cur.seq + q - SeqMod
  BY <1>1, <1>3, SeqAddIs
<1>5. n \in Seq32
  BY <1>1, <1>3, <1>4 DEF Seq32
<1> HIDE DEF n
<1>6. /\ flows'[f].next = n /\ flows'[f].held = flows[f].held
      /\ flows'[f].valid = flows[f].valid
  BY <1>0, <1>1, <1>2, <1>5 DEF TypeOK, FlowRec
<1>7. CurDelta' = SeqDelta(cur.seq, n)
  BY <1>2, <1>6 DEF CurDelta
<1>8. CASE OutOfRoom
  <2>1. n = SeqAdd(cur.seq, q)
    BY <1>8 DEF n
  <2>2. InHalf(Window - 1) /\ Apart(cur.seq, n, Window - 1)
    BY <1>1, <1>3, <1>4, <1>5, <2>1 DEF InHalf, Apart, Seq32
  <2>3. SeqDelta(cur.seq, n) = Window - 1
    BY <1>1, <1>5, <2>2, DeltaIs
  <2>4. ~(flows[f].held > 0) /\ flows[f].held \in Nat
    BY <1>1, <1>8 DEF RoomMade, FlowRec
  <2>5. CurDelta \in Int /\ CurDelta >= Window /\ 2 * CurDelta < SeqMod
    BY <1>1, <1>8 DEF OutOfRoom, InHalf
  <2>6. Apart(n, flows[f].next, CurDelta - (Window - 1))
    BY <1>1, <1>3, <1>4, <1>5, <2>1, <2>5 DEF Apart, Seq32
  <2> QED
    BY <1>2, <1>6, <1>7, <1>8, <2>3, <2>4, <2>6
<1>9. CASE ~OutOfRoom
  <2>1. n = flows[f].next
    BY <1>9 DEF n
  <2> QED
    BY <1>2, <1>6, <1>7, <1>9, <2>1 DEF CurDelta
<1> QED
  BY <1>8, <1>9

(* What is stored is inside the window.                                    *)
LEMMA StoreAhead ==
  ASSUME IInv, AheadInv, StoreItem
  PROVE  /\ AheadOf(slots'[cur.flow], flows'[cur.flow].next)
         /\ flows'[cur.flow].next = flows[cur.flow].next
         /\ flows'[cur.flow].valid = flows[cur.flow].valid
<1> DEFINE f == cur.flow
           i == CurIdx
<1>1. /\ f \in Flow /\ i \in Idx /\ cur.seq \in Seq32 /\ flows[f] \in FlowRec
      /\ slots[f] \in [Idx -> SlotRec] /\ TypeOK
  BY CurTypes DEF IInv
<1>2. slots'[f] = [slots[f] EXCEPT ![i] = [valid |-> TRUE, seq |-> cur.seq, item |-> cur.item]]
  BY <1>1 DEF StoreItem, TypeOK
<1>3. flows'[f].next = flows[f].next /\ flows'[f].valid = flows[f].valid
  BY <1>1 DEF StoreItem, TypeOK, FlowRec
<1>4. SeqDelta(cur.seq, flows[f].next) \in 1..(Window - 1)
  <2>1. CurDelta > 0 /\ CurDelta < Window
    BY DEF AheadInv, InWindow, StoreItem, MayStore
  <2>2. CurDelta \in Int /\ Window \in Nat
    BY CurFacts DEF InHalf
  <2> QED
    BY <2>1, <2>2 DEF CurDelta
<1>5. AheadOf(slots[f], flows[f].next)
  BY <1>1, AheadEntry DEF AheadInv
<1>6. cur.seq % Window = i
  BY DEF CurIdx
<1> HIDE DEF f, i
<1>7. ASSUME NEW j \in ValidIdx(slots'[f])
      PROVE  /\ SeqDelta(slots'[f][j].seq, flows[f].next) \in 1..(Window - 1)
             /\ slots'[f][j].seq % Window = j
  <2>1. j \in Idx /\ slots'[f][j].valid
    BY DEF ValidIdx
  <2>2. CASE j = i
    BY <1>1, <1>2, <1>4, <1>6, <2>2
  <2>3. CASE j # i
    <3>1. slots'[f][j] = slots[f][j]
      BY <1>1, <1>2, <2>1, <2>3
    <3>2. j \in ValidIdx(slots[f])
      BY <2>1, <3>1 DEF ValidIdx
    <3> QED
      BY <1>5, <3>1, <3>2 DEF AheadOf
  <2> QED
    BY <2>2, <2>3
<1> QED
  BY <1>3, <1>7 DEF AheadOf, f

(* Every step keeps what is held ahead.                                    *)
LEMMA AheadStep ==
  ASSUME IInv, AheadInv, held < HeldCap, [Next]_vars
  PROVE  AheadInv'
<1>1. CASE UNCHANGED vars
  BY <1>1, AheadEntry DEF AheadInv, InWindow, CurDelta, vars
<1>2. CASE Next
  <2>1. ASSUME NEW f \in Flow PROVE AheadOf(slots'[f], flows'[f].next)
    <3>1. AheadOf(slots[f], flows[f].next)
      BY AheadEntry DEF AheadInv
    <3>2. CASE f = cur.flow /\ RoomMade
      <4>1. CASE OutOfRoom
        <5>1. ValidIdx(slots[f]) = {} /\ slots' = slots
          BY <3>2, <4>1, RoomMadeSlides, EntryFacts
        <5> QED
          BY <5>1 DEF AheadOf
      <4>2. CASE ~OutOfRoom
        BY <3>1, <3>2, <4>2, RoomMadeSlides
      <4> QED
        BY <4>1, <4>2
    <3>3. CASE f = cur.flow /\ StoreItem
      BY <3>3, StoreAhead
    <3>4. CASE Calm(f)
      BY <3>1, <3>4 DEF Calm
    <3>5. CASE Quits(f)
      BY <3>5 DEF Quits, AheadOf
    <3>6. CASE Sends(f)
      BY <3>6 DEF Sends
    <3> QED
      BY <1>2, <3>2, <3>3, <3>4, <3>5, <3>6, Moves DEF AheadInv, InWindow
  <2>2. InWindow'
    <3>1. CASE RoomMade
      <4>1. pc' = "recheck" /\ CurDelta \in Int /\ Window \in Nat \ {0}
        BY <3>1, CurFacts DEF RoomMade, InHalf
      <4>2. CurDelta' < Window
        BY <3>1, <4>1, RoomMadeSlides DEF OutOfRoom
      <4> QED
        BY <4>1, <4>2 DEF InWindow
    <3>2. CASE CapSkip
      <4>1. held \in Nat /\ HeldCap \in Nat
        BY Sizes DEF IInv, TypeOK
      <4> QED
        BY <3>2, <4>1 DEF CapSkip
    <3>3. CASE ~RoomMade /\ ~CapSkip
      <4>1. pc' \notin {"capped", "recheck"}
        BY <1>2, <3>3 DEF Next, SubmitStep, Submit, ExpireGap, EmitNext, RoomSkip, DropItem,
          StoreItem, Return, Gc, ResetWorker, Tick, ToggleCrypto
      <4> QED
        BY <4>1 DEF InWindow
    <3> QED
      BY <3>1, <3>2, <3>3
  <2> QED
    BY <2>1, <2>2, AheadEntry DEF AheadInv
<1> QED
  BY <1>1, <1>2

(* A fresh worker holds nothing.                                           *)
LEMMA AheadInitial == Init => AheadInv
<1> SUFFICES ASSUME Init PROVE AheadInv
  OBVIOUS
<1>1. \A f \in Flow : ValidIdx(slots[f]) = {}
  BY DEF Init, ValidIdx, EmptySlot
<1> QED
  BY <1>1 DEF Init, AheadInv, HeldAhead, InWindow

----------------------------------------------------------------------------
(* The last datagram an entry sent is behind the one it awaits, by no more *)
(* than the window leaves room for; just behind it when nothing is held.   *)
Follows(f) ==
  flows[f].valid /\ last[f] # NoSeq =>
    \E g \in Nat \ {0} :
      /\ Apart(flows[f].next, last[f], g) /\ 2 * (g + Window - 1) < SeqMod
      /\ flows[f].held = 0 /\ ~Awaiting(f) => g = 1

LastInv == \A f \in Flow : Follows(f)

(* No datagram comes half the sequence space ahead of the awaited one.     *)
Near == pc # "idle" => 2 * (CurDelta + 1) < SeqMod

(* What an entry sends is in order.                                        *)
Ordered(f) ==
  \A i \in DOMAIN out'[f] : Prior(f, i) # NoSeq => SeqDelta(out'[f][i], Prior(f, i)) > 0

(* A step leaves next_seq behind what was sent, and sends in order.        *)
LEMMA OrderStep ==
  ASSUME IInv, AheadInv, LastInv, held < HeldCap, Near, Next, NEW f \in Flow
  PROVE  Follows(f)' /\ Ordered(f)
<1>0. /\ 2 * Window < SeqMod /\ Window \in Nat \ {0} /\ SeqMod \in Nat \ {0}
      /\ flows[f].next \in Seq32 /\ flows[f].held \in Nat /\ last[f] \in Seq32 \cup {NoSeq}
      /\ cur.flow \in Flow /\ Quiet[f] = << >> /\ DOMAIN << >> = {}
  BY EntryFacts, CurFacts DEF Quiet
<1>1. ASSUME flows[f].valid, last[f] # NoSeq
      PROVE  /\ \E g \in Nat \ {0} :
                  /\ Apart(flows[f].next, last[f], g) /\ 2 * (g + Window - 1) < SeqMod
                  /\ flows[f].held = 0 /\ ~Awaiting(f) => g = 1
             /\ last[f] \in Seq32
  BY <1>0, <1>1 DEF LastInv, Follows
<1>2. CASE Calm(f)
  <2>1. Ordered(f)
    BY <1>0, <1>2 DEF Calm, Ordered
  <2>2. Follows(f)'
    <3>1. SUFFICES ASSUME flows'[f].valid, last'[f] # NoSeq
                   PROVE  \E g \in Nat \ {0} :
                            /\ Apart(flows'[f].next, last'[f], g) /\ 2 * (g + Window - 1) < SeqMod
                            /\ flows'[f].held = 0 /\ ~Awaiting(f)' => g = 1
      BY DEF Follows
    <3>2. /\ flows[f].valid /\ last[f] # NoSeq /\ flows'[f].next = flows[f].next
          /\ last'[f] = last[f] /\ flows'[f].held = flows[f].held
          /\ flows'[f].held = 0 /\ ~Awaiting(f)' => flows[f].held = 0 /\ ~Awaiting(f)
      BY <1>2, <3>1 DEF Calm
    <3> QED
      BY <1>1, <3>2
  <2> QED
    BY <2>1, <2>2
<1>3. CASE Quits(f)
  BY <1>0, <1>3 DEF Quits, Ordered, Follows
<1>4. CASE Sends(f)
  <2> DEFINE o == out'[f]
             nx == flows[f].next
  <2>1. PICK d, n : /\ SendsFrom(nx, d, n, o) /\ last'[f] = o[n]
                    /\ flows'[f].valid => flows'[f].next = SeqAdd(SeqAdd(nx, d), n)
    BY <1>4 DEF Sends
  <2>2. nx \in Seq32 /\ flows[f].valid
    BY <1>0, <1>4 DEF Sends
  <2> HIDE DEF o, nx
  <2>3. /\ DOMAIN o = 1..n /\ o[n] \in Seq32
        /\ Apart(SeqAdd(SeqAdd(nx, d), n), o[n], 1)
        /\ \A i \in 2..n : SeqDelta(o[i], o[i - 1]) > 0
        /\ \A l \in Seq32, g \in Nat \ {0} :
             Apart(nx, l, g) /\ 2 * (g + Window - 1) < SeqMod => SeqDelta(o[1], l) > 0
    BY <2>1, <2>2, SendsInOrder
  <2>4. Follows(f)'
    <3>1. 1 \in Nat \ {0} /\ 2 * (1 + Window - 1) < SeqMod
      BY <1>0
    <3> QED
      BY <2>1, <2>3, <3>1 DEF Follows
  <2>5. last[f] # NoSeq => SeqDelta(o[1], last[f]) > 0
    BY <1>1, <2>2, <2>3 DEF nx
  <2>6. n \in Nat
    BY <2>1 DEF SendsFrom
  <2>7. ASSUME NEW i \in 1..n, Prior(f, i) # NoSeq PROVE SeqDelta(o[i], Prior(f, i)) > 0
    <3>1. CASE i = 1
      BY <2>5, <2>7, <3>1 DEF Prior
    <3>2. CASE i # 1
      <4>1. i \in 2..n /\ Prior(f, i) = o[i - 1]
        BY <2>6, <3>2 DEF Prior, o
      <4> QED
        BY <2>3, <4>1
    <3> QED
      BY <3>1, <3>2
  <2>8. Ordered(f)
    BY <2>3, <2>7 DEF Ordered, o
  <2> QED
    BY <2>4, <2>8
<1>5. CASE f = cur.flow /\ RoomMade
  <2>1. out'[f] = << >> /\ last'[f] = last[f] /\ pc # "recheck" /\ pc # "idle" /\ pc' = "recheck"
    BY <1>0, <1>5 DEF RoomMade, Silent, InRoom
  <2>2. Ordered(f)
    BY <1>0, <2>1 DEF Ordered
  <2>3. SUFFICES ASSUME flows'[f].valid, last'[f] # NoSeq
                 PROVE  \E g \in Nat \ {0} :
                          /\ Apart(flows'[f].next, last'[f], g) /\ 2 * (g + Window - 1) < SeqMod
                          /\ flows'[f].held = 0 /\ ~Awaiting(f)' => g = 1
    BY <2>2 DEF Follows
  <2>4. flows[f].valid /\ last[f] # NoSeq /\ ~Awaiting(f) /\ flows'[f].held = flows[f].held
    BY <1>5, <2>1, <2>3, RoomMadeSlides DEF Awaiting
  <2>5. PICK g \in Nat \ {0} :
          /\ Apart(flows[f].next, last[f], g) /\ 2 * (g + Window - 1) < SeqMod
          /\ flows[f].held = 0 => g = 1
    BY <1>1, <2>4
  <2>6. CASE ~OutOfRoom
    <3>1. flows'[f].next = flows[f].next
      BY <1>5, <2>6, RoomMadeSlides
    <3> QED
      BY <2>1, <2>4, <2>5, <3>1
  <2>7. CASE OutOfRoom
    <3>1. /\ g = 1 /\ Apart(flows'[f].next, flows[f].next, CurDelta - (Window - 1))
          /\ CurDelta' = Window - 1 /\ cur' = cur
      BY <1>5, <2>5, <2>7, RoomMadeSlides
    <3>2. Awaiting(f)'
      BY <1>0, <1>5, <2>1, <3>1 DEF Awaiting
    <3>3. /\ CurDelta \in Int /\ CurDelta >= Window /\ 2 * (CurDelta + 1) < SeqMod
      BY <2>1, <2>7, CurFacts DEF OutOfRoom, InHalf, Near
    <3> DEFINE e == CurDelta - (Window - 1) + 1
    <3>4. e \in Nat \ {0} /\ 2 * (e + Window - 1) < SeqMod
      BY <1>0, <3>3
    <3>5. flows'[f].next \in Seq32 /\ last[f] \in Seq32
      <4>1. IInv' => NextTyped'
        BY NextTypes, PTL
      <4> QED
        BY <1>0, <1>1, <1>5, <2>4, <4>1, NextInv DEF NextTyped
    <3>6. Apart(flows'[f].next, last'[f], e)
      <4> DEFINE a == flows'[f].next
                 b == flows[f].next
                 l == last[f]
                 v == CurDelta
      <4>1. a \in Seq32 /\ b \in Seq32 /\ l \in Seq32 /\ v \in Int /\ v >= Window
            /\ 2 * (v + 1) < SeqMod /\ Apart(a, b, v - (Window - 1)) /\ Apart(b, l, 1)
        BY <1>0, <2>5, <3>1, <3>3, <3>5
      <4> HIDE DEF a, b, l, v
      <4>2. Apart(a, l, v - (Window - 1) + 1)
        BY <1>0, <4>1 DEF Apart, Seq32
      <4> QED
        BY <2>1, <4>2 DEF a, b, l, v
    <3> HIDE DEF e
    <3> QED
      BY <3>2, <3>4, <3>6
  <2> QED
    BY <2>6, <2>7
<1>6. CASE f = cur.flow /\ StoreItem
  <2>1. out'[f] = << >> /\ last'[f] = last[f]
    BY <1>0, <1>6 DEF StoreItem, Silent
  <2>2. flows'[f].next = flows[f].next /\ flows'[f].valid = flows[f].valid
    BY <1>6, StoreAhead
  <2>3. flows'[f].held # 0
    <3>1. IInv' => HoldsNone'
      BY EntryHolds, PTL
    <3>2. CurIdx \in ValidIdx(slots'[f])
      BY <1>6, CurTypes DEF StoreItem, IInv, TypeOK, ValidIdx
    <3>3. IInv'
      BY <1>6, StoreItemInv
    <3> QED
      BY <1>0, <3>1, <3>2, <3>3 DEF HoldsNone
  <2> QED
    BY <1>0, <1>1, <2>1, <2>2, <2>3 DEF Ordered, Follows
<1> QED
  BY <1>2, <1>3, <1>4, <1>5, <1>6, Moves DEF AheadInv, InWindow

(* A step, or none, keeps the order.                                       *)
LEMMA LastStep ==
  ASSUME IInv, AheadInv, LastInv, held < HeldCap, Near, [Next]_vars
  PROVE  LastInv'
<1>1. CASE UNCHANGED vars
  <2>1. ASSUME NEW f \in Flow PROVE Follows(f)'
    <3>1. Follows(f) /\ UNCHANGED <<flows, last, pc, cur>>
      BY <1>1 DEF LastInv, vars
    <3> QED
      BY <3>1 DEF Follows, Awaiting, CurDelta
  <2> QED
    BY <2>1 DEF LastInv
<1>2. CASE Next
  BY <1>2, OrderStep DEF LastInv
<1> QED
  BY <1>1, <1>2

(***************************************************************************)
(* The theorems.                                                           *)
(***************************************************************************)

(* Every behaviour of a worker keeps the inductive invariant.              *)
THEOREM Invariant == Spec => []IInv
<1>1. Init => IInv
  BY InitInv
<1>2. IInv /\ [Next]_vars => IInv'
  BY NextInv
<1> QED BY <1>1, <1>2, PTL DEF Spec

(* The state of udp_reorder.c stays well typed.                            *)
THEOREM TypeCorrect == Spec => []TypeOK
<1>1. IInv => TypeOK
  BY DEF IInv
<1> QED BY <1>1, Invariant, PTL

(* flow->held and g_held_by_worker count the occupied slots, for every     *)
(* table, window and cap, so GC never zeroes an entry that still holds.    *)
THEOREM CountersExact == Spec => []HeldCounts
<1>1. IInv => HeldCounts
  BY DEF IInv
<1> QED BY <1>1, Invariant, PTL

(* A worker never holds more than UDP_REORDER_HELD_CAP frames.             *)
THEOREM CapRespected == Spec => []HeldBounded
<1>1. IInv => HeldBounded
  BY DEF IInv
<1> QED BY <1>1, Invariant, PTL

(* dp_udp_reorder_submit owns its item on every path: no frame leaks and   *)
(* none is released twice.                                                 *)
THEOREM OwnershipKept == Spec => []Ownership
<1>1. IInv => Ownership
  BY DEF IInv
<1> QED BY <1>1, Invariant, PTL

(* While a worker holds less than the cap, and for every window, table and *)
(* traffic: what an entry holds is in the window ahead of next_seq, in the *)
(* slot flow_flush_contiguous looks at.  At the cap, flow_skip_gap may put *)
(* next_seq past the datagram that is then stored.                         *)
THEOREM HeldStaysAhead == Spec /\ [](held < HeldCap) => []HeldAhead
<1>1. Init => AheadInv
  BY AheadInitial
<1>2. IInv /\ AheadInv /\ held < HeldCap /\ [Next]_vars => AheadInv'
  BY AheadStep
<1>3. AheadInv => HeldAhead
  BY DEF AheadInv
<1> QED
  BY <1>1, <1>2, <1>3, Invariant, PTL DEF Spec

(* And it emits strictly increasing sequence numbers across the wrap, from *)
(* any traffic in which no datagram is half the sequence space ahead.      *)
THEOREM EmittedInOrder == Spec /\ [](held < HeldCap /\ Near) => InOrder
<1>1. Init => AheadInv /\ LastInv
  <2>1. Init => LastInv
    BY DEF Init, LastInv, Follows
  <2> QED
    BY <2>1, AheadInitial
<1>2. /\ IInv /\ AheadInv /\ held < HeldCap /\ [Next]_vars => AheadInv'
      /\ IInv /\ AheadInv /\ LastInv /\ held < HeldCap /\ Near /\ [Next]_vars => LastInv'
  BY AheadStep, LastStep
<1>3. IInv /\ AheadInv /\ LastInv /\ held < HeldCap /\ Near /\ [Next]_vars =>
        [\A f \in Flow : \A i \in DOMAIN out'[f] :
           Prior(f, i) # NoSeq => SeqDelta(out'[f][i], Prior(f, i)) > 0]_vars
  BY OrderStep DEF Ordered
<1> QED
  BY <1>1, <1>2, <1>3, Invariant, PTL DEF Spec, InOrder
=============================================================================
